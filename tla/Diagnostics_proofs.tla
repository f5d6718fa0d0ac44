-------------------------- MODULE Diagnostics_proofs --------------------------
(***************************************************************************)
(* Theorems about the bookkeeping of diagnostics, for any number of          *)
(* documents, translation units and ids.                                     *)
(***************************************************************************)
EXTENDS Diagnostics, TLAPS

\* Every id anybody holds was handed out: the next one is nobody's.
IdsAreIssued ==
    /\ \A u \in Uris : \A i \in diagnostics[u] : i < next_id
    /\ \A i \in garbage_collection_set \cup analysis_diagnostics \cup loose : i < next_id
    /\ \A t \in DOMAIN unit_ids : \A i \in unit_ids[t] : i < next_id

\* No id has two owners among the units, the last analysis and the open set.
OwnersApart ==
    /\ \A t \in DOMAIN unit_ids :
          /\ unit_ids[t] \cap (garbage_collection_set \cup analysis_diagnostics) = {}
          /\ \A s \in DOMAIN unit_ids : s # t => unit_ids[s] \cap unit_ids[t] = {}
    /\ garbage_collection_set \cap analysis_diagnostics = {}

\* What the open set means for the other owners: nothing is in a set that
\* nobody opened, an open unit is not cached, and the last analysis has been
\* removed from the store when the next one opens its set.
OpenSet ==
    /\ open = Nobody => garbage_collection_set = {}
    /\ open \in Units => open \notin DOMAIN unit_ids
    /\ open = Analysis => \A u \in Uris : diagnostics[u] \cap analysis_diagnostics = {}

\* NoOrphans, one id at a time.
EachIsOwned ==
    \A u \in Uris : \A i \in diagnostics[u] :
        \/ \E t \in DOMAIN unit_ids : i \in unit_ids[t]
        \/ i \in analysis_diagnostics \cup garbage_collection_set \cup loose

IInv == TypeOK /\ IdsAreIssued /\ OwnersApart /\ OpenSet /\ EachIsOwned /\ ShownIsRemembered

-----------------------------------------------------------------------------

(* Nothing has been emitted or shown at the start.                            *)
LEMMA InvInit == Init => IInv
  BY OwnersAssumption DEF Init, IInv, TypeOK, IdsAreIssued, OwnersApart, OpenSet,
        EachIsOwned, ShownIsRemembered

(* Every step keeps the types.                                                *)
LEMMA TypeNext == TypeOK /\ [Next]_vars => TypeOK'
  <1> SUFFICES ASSUME TypeOK, [Next]_vars PROVE TypeOK'
    OBVIOUS
  <1> USE DEF TypeOK
  <1>1. ASSUME NEW u \in Uris, emit(u) PROVE TypeOK'
    BY <1>1 DEF emit, view
  <1>2. ASSUME NEW t \in Units, StartUnit(t) PROVE TypeOK'
    BY <1>2 DEF StartUnit, start, store, owned, view
  <1>3. ASSUME NEW t \in Units, ForgetUnit(t) PROVE TypeOK'
    BY <1>3 DEF ForgetUnit, cleanup, sets, view
  <1>4. CASE FinishUnit
    BY <1>4 DEF FinishUnit, finish, store, view
  <1>5. CASE StartAnalysis
    BY <1>5 DEF StartAnalysis, start, cleanup, owned, view
  <1>6. CASE FinishAnalysis
    BY <1>6 DEF FinishAnalysis, finish, store
  <1>7. CASE clear
    BY <1>7 DEF clear, sets, view
  <1>8. CASE UNCHANGED vars
    BY <1>8 DEF vars, store, sets, owned, view
  <1> QED  BY <1>1, <1>2, <1>3, <1>4, <1>5, <1>6, <1>7, <1>8 DEF Next

\* The ids keep their owners: the parts of the invariant about the store.
LEMMA OwnersNext ==
    TypeOK /\ IdsAreIssued /\ OwnersApart /\ OpenSet /\ EachIsOwned /\ [Next]_vars
      => IdsAreIssued' /\ OwnersApart' /\ OpenSet' /\ EachIsOwned'
  <1> SUFFICES ASSUME TypeOK, IdsAreIssued, OwnersApart, OpenSet, EachIsOwned, [Next]_vars
               PROVE  IdsAreIssued' /\ OwnersApart' /\ OpenSet' /\ EachIsOwned'
    OBVIOUS
  <1> USE OwnersAssumption DEF IdsAreIssued, OwnersApart, OpenSet, EachIsOwned
  <1>1. ASSUME NEW u \in Uris, emit(u)
        PROVE  IdsAreIssued' /\ OwnersApart' /\ OpenSet' /\ EachIsOwned'
    <2>1. /\ next_id \in Nat /\ next_id' = next_id + 1
          /\ \A v \in Uris : diagnostics'[v] =
                IF v = u THEN diagnostics[v] \cup {next_id} ELSE diagnostics[v]
          /\ UNCHANGED <<open, unit_ids, analysis_diagnostics>>
      BY <1>1 DEF emit, TypeOK
    <2>2. IF open = Nobody
          THEN loose' = loose \cup {next_id} /\ garbage_collection_set' = garbage_collection_set
          ELSE /\ garbage_collection_set' = garbage_collection_set \cup {next_id}
               /\ loose' = loose
      BY <1>1 DEF emit
    <2>T. /\ \A v \in Uris : diagnostics[v] \subseteq Nat
          /\ garbage_collection_set \cup analysis_diagnostics \cup loose \subseteq Nat
          /\ \A t \in DOMAIN unit_ids : unit_ids[t] \subseteq Nat
      BY DEF TypeOK
    <2>3. IdsAreIssued'
      <3>1. \A i \in Nat : i < next_id => i < next_id'
        BY <2>1
      <3>2. next_id < next_id'
        BY <2>1
      <3>3. \A v \in Uris : \A i \in diagnostics'[v] : i < next_id'
        BY <2>1, <2>T, <3>1, <3>2
      <3>4. \A i \in garbage_collection_set' \cup analysis_diagnostics' \cup loose' : i < next_id'
        BY <2>1, <2>2, <2>T, <3>1, <3>2
      <3>5. \A t \in DOMAIN unit_ids' : \A i \in unit_ids'[t] : i < next_id'
        BY <2>1, <2>T, <3>1
      <3> QED  BY <3>3, <3>4, <3>5
    <2>4. next_id \notin analysis_diagnostics /\ \A t \in DOMAIN unit_ids : next_id \notin unit_ids[t]
      BY <2>1
    <2>5. OwnersApart'
      BY <2>1, <2>2, <2>4
    <2>6. OpenSet'
      BY <2>1, <2>2, <2>4
    <2>7. EachIsOwned'
      BY <2>1, <2>2
    <2> QED  BY <2>3, <2>5, <2>6, <2>7
  <1>2. ASSUME NEW t \in Units, StartUnit(t)
        PROVE  IdsAreIssued' /\ OwnersApart' /\ OpenSet' /\ EachIsOwned'
    BY <1>2 DEF StartUnit, start, store, owned
  <1>3. ASSUME NEW t \in Units, ForgetUnit(t)
        PROVE  IdsAreIssued' /\ OwnersApart' /\ OpenSet' /\ EachIsOwned'
    <2>1. /\ \A v \in Uris : diagnostics'[v] = diagnostics[v] \ unit_ids[t]
          /\ DOMAIN unit_ids' = DOMAIN unit_ids \ {t}
          /\ \A s \in DOMAIN unit_ids' : unit_ids'[s] = unit_ids[s]
          /\ open = Nobody
          /\ UNCHANGED <<next_id, open, garbage_collection_set, analysis_diagnostics, loose>>
      BY <1>3 DEF ForgetUnit, cleanup, sets
    <2> QED  BY <2>1
  <1>4. CASE FinishUnit
    <2>1. /\ DOMAIN unit_ids' = DOMAIN unit_ids \cup {open}
          /\ unit_ids'[open] = garbage_collection_set
          /\ \A s \in DOMAIN unit_ids : unit_ids'[s] = unit_ids[s]
          /\ open \in Units /\ open' = Nobody /\ garbage_collection_set' = {}
          /\ UNCHANGED <<next_id, diagnostics, analysis_diagnostics, loose>>
      BY <1>4 DEF FinishUnit, finish, store
    <2>2. OwnersApart'
      BY <2>1
    <2>3. EachIsOwned'
      BY <2>1
    <2>4. IdsAreIssued' /\ OpenSet'
      BY <2>1
    <2> QED  BY <2>2, <2>3, <2>4
  <1>5. CASE StartAnalysis
    <2>1. /\ \A v \in Uris : diagnostics'[v] = diagnostics[v] \ analysis_diagnostics
          /\ open = Nobody /\ open' = Analysis /\ garbage_collection_set' = {}
          /\ UNCHANGED <<next_id, unit_ids, analysis_diagnostics, loose>>
      BY <1>5 DEF StartAnalysis, start, cleanup, owned
    <2> QED  BY <2>1
  <1>6. CASE FinishAnalysis
    <2>1. /\ open = Analysis /\ open' = Nobody /\ garbage_collection_set' = {}
          /\ analysis_diagnostics' = garbage_collection_set
          /\ UNCHANGED <<next_id, diagnostics, unit_ids, loose>>
      BY <1>6 DEF FinishAnalysis, finish, store
    <2> QED  BY <2>1
  <1>7. CASE clear
    <2>1. /\ \A v \in Uris : diagnostics'[v] = {}
          /\ DOMAIN unit_ids' = {} /\ loose' = {} /\ open = Nobody
          /\ UNCHANGED <<next_id, open, garbage_collection_set, analysis_diagnostics>>
      BY <1>7 DEF clear, sets
    <2> QED  BY <2>1
  <1>8. CASE UNCHANGED vars
    BY <1>8 DEF vars, store, sets, owned
  <1> QED  BY <1>1, <1>2, <1>3, <1>4, <1>5, <1>6, <1>7, <1>8 DEF Next

\* The end of an analysis leaves the client with the store.
LEMMA PushFacts ==
    ASSUME TypeOK, ShownIsRemembered, FinishAnalysis
    PROVE  shown' = diagnostics' /\ ShownIsRemembered'
  <1> DEFINE current == {u \in Uris : diagnostics[u] # {}}
  <1>1. /\ published_uris' = current
        /\ shown' = [u \in Uris |-> IF u \in published_uris \cup current
                                    THEN diagnostics[u] ELSE shown[u]]
        /\ diagnostics' = diagnostics
    BY DEF FinishAnalysis, store
  <1>2. \A u \in Uris : shown'[u] = diagnostics[u]
    BY <1>1 DEF ShownIsRemembered
  <1>3. shown' = diagnostics'
    BY <1>1, <1>2 DEF TypeOK
  <1> QED  BY <1>1, <1>2, <1>3 DEF ShownIsRemembered

(* Every step keeps what is shown and what is remembered equal.               *)
LEMMA ViewNext == TypeOK /\ ShownIsRemembered /\ [Next]_vars => ShownIsRemembered'
  <1> SUFFICES ASSUME TypeOK, ShownIsRemembered, [Next]_vars PROVE ShownIsRemembered'
    OBVIOUS
  <1>1. CASE FinishAnalysis
    BY <1>1, PushFacts
  <1>2. CASE UNCHANGED view
    BY <1>2 DEF view, ShownIsRemembered
  <1> QED  BY <1>1, <1>2 DEF Next, emit, StartUnit, ForgetUnit, FinishUnit, StartAnalysis,
                             clear, vars

(* The invariant of the diagnostics.                                          *)
LEMMA Inductive == Spec => []IInv
  <1>1. IInv /\ [Next]_vars => IInv'
    BY TypeNext, OwnersNext, ViewNext DEF IInv
  <1> QED  BY InvInit, <1>1, PTL DEF Spec

-----------------------------------------------------------------------------
\* The emitter's store and sets and the server's records of them keep their
\* types (diagnostics.rs, analysis.rs).
THEOREM TypeCorrect == Spec => []TypeOK
  <1>1. IInv => TypeOK
    BY DEF IInv
  <1> QED  BY <1>1, Inductive, PTL

\* No diagnostic is left in the store with nobody to remove it.
THEOREM EveryDiagnosticHasAnOwner == Spec => []NoOrphans
  <1>1. IInv => NoOrphans
    BY DEF IInv, EachIsOwned, NoOrphans, Stored
  <1> QED  BY <1>1, Inductive, PTL

\* The server remembers every document the client shows something for.
THEOREM EverythingShownIsRemembered == Spec => []ShownIsRemembered
  <1>1. IInv => ShownIsRemembered
    BY DEF IInv
  <1> QED  BY <1>1, Inductive, PTL

\* Redoing a unit or the analysis removes nothing that another cached unit said.
THEOREM OthersKeepTheirs == Spec => OnlyTheOwnersAreRemoved
  <1> DEFINE P == \A t \in DOMAIN unit_ids \cap DOMAIN unit_ids' :
                     \A u \in Uris : diagnostics[u] \cap unit_ids[t] \subseteq diagnostics'[u]
  <1>1. IInv /\ [Next]_vars => P \/ UNCHANGED vars
    <2> SUFFICES ASSUME IInv, Next PROVE P
      BY DEF vars
    <2>1. CASE \A u \in Uris : diagnostics[u] \subseteq diagnostics'[u]
      BY <2>1
    <2>2. ASSUME NEW t \in Units, ForgetUnit(t) PROVE P
      <3>1. /\ \A u \in Uris : diagnostics'[u] = diagnostics[u] \ unit_ids[t]
            /\ DOMAIN unit_ids' = DOMAIN unit_ids \ {t} /\ t \in DOMAIN unit_ids
        BY <2>2 DEF ForgetUnit, cleanup
      <3> QED  BY <3>1 DEF IInv, OwnersApart
    <2>3. CASE StartAnalysis
      <3>1. \A u \in Uris : diagnostics'[u] = diagnostics[u] \ analysis_diagnostics
        BY <2>3 DEF StartAnalysis, cleanup
      <3> QED  BY <3>1 DEF IInv, OwnersApart
    <2>4. CASE clear
      <3>1. DOMAIN unit_ids' = {}
        BY <2>4 DEF clear
      <3> QED  BY <3>1
    <2>5. ASSUME NEW u \in Uris, emit(u) PROVE P
      <3>1. \A v \in Uris : diagnostics[v] \subseteq diagnostics'[v]
        BY <2>5 DEF emit, IInv, TypeOK
      <3> QED  BY <3>1
    <2>6. CASE UNCHANGED diagnostics
      BY <2>6
    <2> QED  BY <2>2, <2>3, <2>4, <2>5, <2>6 DEF Next, StartUnit, FinishUnit, FinishAnalysis,
                                                 store
  <1> QED  BY <1>1, Inductive, PTL DEF Spec, OnlyTheOwnersAreRemoved

\* The push at the end of an analysis leaves the client showing the store.
THEOREM ThePushIsAuthoritative == Spec => PushIsAuthoritative
  <1> DEFINE P == (open = Analysis /\ open' = Nobody) => shown' = diagnostics'
  <1>1. IInv /\ [Next]_vars => P \/ UNCHANGED vars
    <2> SUFFICES ASSUME IInv, Next, open = Analysis, open' = Nobody
                 PROVE  shown' = diagnostics'
      OBVIOUS
    <2>1. FinishAnalysis
      BY OwnersAssumption DEF Next, emit, StartUnit, start, ForgetUnit, FinishUnit,
                              StartAnalysis, clear, sets
    <2> QED  BY <2>1, PushFacts DEF IInv
  <1> QED  BY <1>1, Inductive, PTL DEF Spec, PushIsAuthoritative

=============================================================================
