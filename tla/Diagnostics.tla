---------------------------- MODULE Diagnostics ----------------------------
(***************************************************************************)
(* `LspDiagnosticsEmitter` and `publish_diagnostics`: every diagnostic gets  *)
(* a fresh id; what is emitted while a collection set is open is owned by    *)
(* that set, and is removed with it when its owner (a translation unit, or   *)
(* the last semantic analysis) is redone.  After an analysis the whole store *)
(* is pushed to the client, and documents that were shown something and are  *)
(* now clean are pushed an empty list.                                       *)
(***************************************************************************)
EXTENDS Naturals

CONSTANTS
    Uris,    \* the documents diagnostics are about
    Units,   \* the translation units
    Nobody,  \* no set is open
    Analysis,\* the owner of the set an analysis opens
    MaxIds   \* bound on the ids handed out

ASSUME OwnersAssumption ==
    Nobody # Analysis /\ Nobody \notin Units /\ Analysis \notin Units
ASSUME BoundAssumption == MaxIds \in Nat

VARIABLES
    next_id,   \* the next id
    diagnostics, \* the ids stored for each document
    open,      \* who opened garbage_collection_set, or Nobody
    garbage_collection_set, \* the ids emitted since
    unit_ids,  \* TranslationUnitCache.diagnostics of each cached unit
    analysis_diagnostics,   \* GlobalState.analysis_diagnostics
    loose,     \* history: ids emitted outside any set since the last clear
    published_uris,
    shown      \* what the client shows for each document

store == <<next_id, diagnostics>>
sets  == <<open, garbage_collection_set>>
owned == <<unit_ids, analysis_diagnostics, loose>>
view  == <<published_uris, shown>>
vars  == <<store, sets, owned, view>>

Stored == UNION {diagnostics[u] : u \in Uris}

Init ==
    /\ next_id = 0
    /\ diagnostics = [u \in Uris |-> {}]
    /\ open = Nobody
    /\ garbage_collection_set = {}
    /\ unit_ids = [t \in {} |-> {}]
    /\ analysis_diagnostics = {}
    /\ loose = {}
    /\ published_uris = {}
    /\ shown = [u \in Uris |-> {}]

-----------------------------------------------------------------------------
\* emit: the diagnostic is filed under its document and, when a set is open,
\* entered in it.
emit(u) ==
    /\ next_id < MaxIds
    /\ next_id' = next_id + 1
    /\ diagnostics' = [diagnostics EXCEPT ![u] = @ \cup {next_id}]
    /\ IF open = Nobody
       THEN /\ loose' = loose \cup {next_id}
            /\ UNCHANGED garbage_collection_set
       ELSE /\ garbage_collection_set' = garbage_collection_set \cup {next_id}
            /\ UNCHANGED loose
    /\ UNCHANGED <<open, unit_ids, analysis_diagnostics, view>>

\* cleanup_garbage_collection
cleanup(S) == diagnostics' = [u \in Uris |-> diagnostics[u] \ S]

\* start_garbage_collection, asserting that no set is open.
start(who) ==
    /\ open = Nobody
    /\ open' = who
    /\ garbage_collection_set' = {}

\* finish_garbage_collection
finish ==
    /\ open' = Nobody
    /\ garbage_collection_set' = {}

\* new_translation_unit_cache for a unit that is not cached.
StartUnit(t) ==
    /\ t \notin DOMAIN unit_ids
    /\ start(t)
    /\ UNCHANGED <<store, owned, view>>

\* Faulty: whoever opened the set, it becomes a unit's.
FinishUnit_OfAnyOwner ==
    /\ open # Nobody
    /\ unit_ids' = [t \in DOMAIN unit_ids \cup {open} |->
                       IF t = open THEN garbage_collection_set ELSE unit_ids[t]]
    /\ finish
    /\ UNCHANGED <<store, analysis_diagnostics, loose, view>>

FinishUnit ==
    /\ open \in Units
    /\ unit_ids' = [t \in DOMAIN unit_ids \cup {open} |->
                       IF t = open THEN garbage_collection_set ELSE unit_ids[t]]
    /\ finish
    /\ UNCHANGED <<store, analysis_diagnostics, loose, view>>

\* Reprocess forgets the unit and what it said; StartUnit follows, unless the
\* file can no longer be read.
ForgetUnit(t) ==
    /\ open = Nobody
    /\ t \in DOMAIN unit_ids
    /\ cleanup(unit_ids[t])
    /\ unit_ids' = [s \in DOMAIN unit_ids \ {t} |-> unit_ids[s]]
    /\ UNCHANGED <<next_id, sets, analysis_diagnostics, loose, view>>

\* Faulty: what the last analysis said is not removed first.
StartAnalysis_WithoutCleanup ==
    /\ start(Analysis)
    /\ UNCHANGED <<store, owned, view>>

StartAnalysis ==
    /\ cleanup(analysis_diagnostics)
    /\ start(Analysis)
    /\ UNCHANGED <<next_id, owned, view>>

\* Faulty: a document that has become clean is not told.
FinishAnalysis_WithoutClearing ==
    /\ open = Analysis
    /\ analysis_diagnostics' = garbage_collection_set
    /\ finish
    /\ LET current == {u \in Uris : diagnostics[u] # {}}
       IN  /\ published_uris' = current
           /\ shown' = [u \in Uris |-> IF u \in current THEN diagnostics[u]
                                                         ELSE shown[u]]
    /\ UNCHANGED <<store, unit_ids, loose>>

\* The end of Task::Analysis: the set is taken, and the store published.
FinishAnalysis ==
    /\ open = Analysis
    /\ analysis_diagnostics' = garbage_collection_set
    /\ finish
    /\ LET current == {u \in Uris : diagnostics[u] # {}}
       IN  /\ published_uris' = current
           /\ shown' = [u \in Uris |-> IF u \in published_uris \cup current
                                       THEN diagnostics[u] ELSE shown[u]]
    /\ UNCHANGED <<store, unit_ids, loose>>

\* Faulty: the ids start over, those of the last analysis being kept.
clear_WithNextId ==
    /\ open = Nobody
    /\ next_id' = 0
    /\ diagnostics' = [u \in Uris |-> {}]
    /\ unit_ids' = [t \in {} |-> {}]
    /\ loose' = {}
    /\ UNCHANGED <<sets, analysis_diagnostics, view>>

\* Faulty: what was published is forgotten with what is stored.
clear_WithPublished ==
    /\ open = Nobody
    /\ diagnostics' = [u \in Uris |-> {}]
    /\ unit_ids' = [t \in {} |-> {}]
    /\ loose' = {}
    /\ published_uris' = {}
    /\ UNCHANGED <<next_id, sets, analysis_diagnostics, shown>>

\* Loading a workspace empties the store and the cache of units; it keeps the
\* ids of the last analysis, and next_id keeps counting.
clear ==
    /\ open = Nobody
    /\ diagnostics' = [u \in Uris |-> {}]
    /\ unit_ids' = [t \in {} |-> {}]
    /\ loose' = {}
    /\ UNCHANGED <<next_id, sets, analysis_diagnostics, view>>

Next ==
    \/ \E u \in Uris : emit(u)
    \/ \E t \in Units : StartUnit(t) \/ ForgetUnit(t)
    \/ FinishUnit \/ StartAnalysis \/ FinishAnalysis \/ clear

Spec == Init /\ [][Next]_vars

-----------------------------------------------------------------------------
TypeOK ==
    /\ next_id \in Nat
    /\ diagnostics \in [Uris -> SUBSET Nat]
    /\ open \in Units \cup {Nobody, Analysis}
    /\ garbage_collection_set \in SUBSET Nat
    /\ DOMAIN unit_ids \subseteq Units
    /\ unit_ids \in [DOMAIN unit_ids -> SUBSET Nat]
    /\ analysis_diagnostics \in SUBSET Nat
    /\ loose \in SUBSET Nat
    /\ published_uris \in SUBSET Uris
    /\ shown \in [Uris -> SUBSET Nat]

\* Whoever a stored diagnostic belongs to can still name it: a cached unit, the
\* last analysis, the set being filled, or the next clear.  None can be left in
\* the store for ever, shown to the user long after its cause is gone.
NoOrphans ==
    Stored \subseteq (UNION {unit_ids[t] : t \in DOMAIN unit_ids})
                     \cup analysis_diagnostics
                     \cup garbage_collection_set \cup loose

\* Redoing one owner removes no diagnostic of another: whatever leaves the
\* store outside a clear was in the set of the owner that is being redone.
OnlyTheOwnersAreRemoved ==
    [][\A t \in DOMAIN unit_ids \cap DOMAIN unit_ids' :
          \A u \in Uris : diagnostics[u] \cap unit_ids[t] \subseteq diagnostics'[u]]_vars

\* Every document the client still shows something for is one the server
\* remembers having published, so the next push can clear it.
ShownIsRemembered ==
    \A u \in Uris : shown[u] # {} => u \in published_uris

\* The push after an analysis leaves the client with exactly the store, also
\* for the documents that have become clean, and across a clear that no push
\* followed.
PushIsAuthoritative ==
    [][(open = Analysis /\ open' = Nobody) => shown' = diagnostics']_vars

=============================================================================
