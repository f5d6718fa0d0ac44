-------------------------- MODULE VfsService_proofs --------------------------
(***************************************************************************)
(* Theorems about the virtual file system, for every set of documents and    *)
(* texts: its invariants, and that it implements DocumentStore.              *)
(*                                                                         *)
(* And about the semantic tokens computed from its texts, for any ranges that *)
(* nest: the tokens an editor has after an answer paint what the ranges call  *)
(* for.  The ranges that the scan keeps are the outermost ones, of which      *)
(* exactly one is around every place that has a colour; the places an editor  *)
(* computes from the tokens are where those ranges start; and a delta is only *)
(* ever applied to the tokens it was computed against, which it turns into    *)
(* the new ones.                                                             *)
(***************************************************************************)
EXTENDS SemanticTokens, FiniteSetTheorems, SequenceTheorems, WellFoundedInduction, TLAPS

\* What is on disk now is remembered as having been there: without it, that a
\* text just read was on disk does not follow.
DiskIsRemembered == \A u \in Uris : disk[u] \in onDisk[u]

IInv ==
    /\ TypeOK
    /\ OpenDocumentsAreTheEditors
    /\ FsTextWasOnDisk
    /\ DiskIsRemembered

-----------------------------------------------------------------------------
\* The three kinds of entry, and what distinguishes them.
LEMMA EntryFacts ==
    /\ NoFile \in Entry /\ NoFile.kind = "none"
    /\ \A t \in Text : /\ Fs(t) \in Entry /\ Fs(t).kind = "fs" /\ Fs(t).text = t
                       /\ Lsp(t) \in Entry /\ Lsp(t).kind = "lsp" /\ Lsp(t).text = t
    /\ \A e \in Entry : \/ e = NoFile
                        \/ \E t \in Text : e = Fs(t)
                        \/ \E t \in Text : e = Lsp(t)
  BY DEF Entry, NoFile, Fs, Lsp

\* What one entry becomes under each operation; the others keep theirs.
LEMMA OperationFacts ==
    ASSUME TypeOK, NEW u \in Uris
    PROVE  /\ Read(files, disk, u) = [files EXCEPT ![u] =
                  IF files[u] = NoFile /\ disk[u] # Missing THEN Fs(disk[u]) ELSE @]
           /\ DidClose(files, disk, u) =
                  IF HoldsDocument(files, u)
                  THEN [files EXCEPT ![u] = IF disk[u] # Missing THEN Fs(disk[u])
                                                                 ELSE NoFile]
                  ELSE files
           /\ disk[u] # Missing => disk[u] \in Text
  <1> USE DEF TypeOK
  <1>1. Read(files, disk, u) = [files EXCEPT ![u] =
            IF files[u] = NoFile /\ disk[u] # Missing THEN Fs(disk[u]) ELSE @]
    BY DEF Read, ReadAll
  <1> DEFINE closed == [files EXCEPT ![u] = NoFile]
  <1>2. Read(closed, disk, u) = [files EXCEPT ![u] =
            IF disk[u] # Missing THEN Fs(disk[u]) ELSE NoFile]
    BY DEF Read, ReadAll
  <1>3. disk[u] # Missing => disk[u] \in Text
    BY DEF Disk
  <1> QED  BY <1>1, <1>2, <1>3 DEF DidClose

-----------------------------------------------------------------------------

(* The file system starts without documents, ...                              *)
LEMMA InvInit == Init => IInv
  <1> SUFFICES ASSUME Init PROVE IInv
    OBVIOUS
  <1>1. TypeOK
    BY EntryFacts DEF Init, TypeOK, EmptyVfs, Disk
  <1>2. \A u \in Uris : files[u].kind = "none"
    BY EntryFacts DEF Init, EmptyVfs
  <1> QED  BY <1>1, <1>2 DEF IInv, OpenDocumentsAreTheEditors, FsTextWasOnDisk,
                             HoldsDocument, Init, DiskIsRemembered

\* A step that changes at most the entry and the buffer of the document u
\* preserves the invariant if it does so at u.
LEMMA OneEntry ==
    ASSUME IInv, NEW u \in Uris, NEW e \in Entry, NEW b \in Text \cup {Missing},
           files' = [files EXCEPT ![u] = e],
           editor' = [editor EXCEPT ![u] = b],
           UNCHANGED <<disk, onDisk>>, answer' \in Text \cup {Missing},
           IF b = Missing THEN e.kind # "lsp" ELSE e = Lsp(b),
           e.kind = "fs" => e.text \in onDisk[u]
    PROVE  IInv'
  <1>1. TypeOK'
    BY DEF IInv, TypeOK, Disk
  <1>2. ASSUME NEW v \in Uris PROVE
            /\ IF editor'[v] = Missing THEN ~HoldsDocument(files', v)
                                       ELSE files'[v] = Lsp(editor'[v])
            /\ files'[v].kind = "fs" => files'[v].text \in onDisk'[v]
    <2>1. CASE v = u
      BY <2>1 DEF IInv, TypeOK, Disk, HoldsDocument
    <2>2. CASE v # u
      <3>1. files'[v] = files[v] /\ editor'[v] = editor[v] /\ onDisk' = onDisk
        BY <2>2 DEF IInv, TypeOK, Disk
      <3> QED  BY <3>1 DEF IInv, OpenDocumentsAreTheEditors, FsTextWasOnDisk, HoldsDocument
    <2> QED  BY <2>1, <2>2
  <1> QED  BY <1>1, <1>2 DEF IInv, OpenDocumentsAreTheEditors, FsTextWasOnDisk,
                             DiskIsRemembered

(* ... and every step keeps them those of the editor, or once on disk.        *)
LEMMA InvNext == IInv /\ [Next]_vars => IInv'
  <1> SUFFICES ASSUME IInv, [Next]_vars PROVE IInv'
    OBVIOUS
  <1>T. /\ files \in [Uris -> Entry] /\ editor \in [Uris -> Text \cup {Missing}]
        /\ disk \in [Uris -> Text \cup {Missing}] /\ answer \in Text \cup {Missing}
        /\ onDisk \in [Uris -> SUBSET (Text \cup {Missing})] /\ TypeOK
    BY DEF IInv, TypeOK, Disk
  <1>O. \A u \in Uris : IF editor[u] = Missing THEN files[u].kind # "lsp"
                                               ELSE files[u] = Lsp(editor[u])
    BY DEF IInv, OpenDocumentsAreTheEditors, HoldsDocument
  <1>F. \A u \in Uris : files[u].kind = "fs" => files[u].text \in onDisk[u]
    BY DEF IInv, FsTextWasOnDisk
  <1>D. \A u \in Uris : disk[u] \in onDisk[u]
    BY DEF IInv, DiskIsRemembered
  <1>1. ASSUME NEW u \in Uris, read(u) PROVE IInv'
    <2> DEFINE e == IF files[u] = NoFile /\ disk[u] # Missing THEN Fs(disk[u])
                                                              ELSE files[u]
    <2>1. files' = [files EXCEPT ![u] = e] /\ UNCHANGED <<disk, editor, onDisk>>
      BY <1>1, <1>T, OperationFacts DEF read
    <2>2. e \in Entry /\ (e.kind = "fs" => e.text \in onDisk[u])
      BY <1>T, <1>F, <1>D, EntryFacts, OperationFacts
    <2>3. IF editor[u] = Missing THEN e.kind # "lsp" ELSE e = Lsp(editor[u])
      BY <1>T, <1>O, EntryFacts, OperationFacts, MissingAssumption
    <2>4. answer' \in Text \cup {Missing}
      BY <1>1, <1>T, EntryFacts DEF read, Contents
    <2>5. editor' = [editor EXCEPT ![u] = editor[u]]
      BY <1>T, <2>1
    <2> HIDE DEF e
    <2> QED  BY <1>T, <2>1, <2>2, <2>3, <2>4, <2>5, OneEntry
  <1>2. ASSUME NEW u \in Uris, update_fs(u) PROVE IInv'
    <2> DEFINE e == IF HoldsDocument(files, u) \/ disk[u] = Missing THEN files[u]
                                                                   ELSE Fs(disk[u])
    <2>1. /\ files' = [files EXCEPT ![u] = e]
          /\ UNCHANGED <<disk, editor, onDisk, answer>>
      BY <1>2, <1>T DEF update_fs, UpdateFs
    <2>2. e \in Entry /\ (e.kind = "fs" => e.text \in onDisk[u])
      BY <1>T, <1>F, <1>D, EntryFacts, OperationFacts
    <2>3. IF editor[u] = Missing THEN e.kind # "lsp" ELSE e = Lsp(editor[u])
      BY <1>T, <1>O, EntryFacts, OperationFacts DEF HoldsDocument
    <2>4. editor' = [editor EXCEPT ![u] = editor[u]]
      BY <1>T, <2>1
    <2> HIDE DEF e
    <2> QED  BY <1>T, <2>1, <2>2, <2>3, <2>4, OneEntry
  <1>3. ASSUME NEW u \in Uris, NEW t \in Text, did_open(u, t) PROVE IInv'
    <2>1. /\ files' = [files EXCEPT ![u] = Lsp(t)]
          /\ editor' = [editor EXCEPT ![u] = t]
          /\ UNCHANGED <<disk, onDisk, answer>>
      BY <1>3 DEF did_open, DidOpen
    <2>2. Lsp(t) \in Entry /\ Lsp(t).kind # "fs" /\ t # Missing
      BY EntryFacts, MissingAssumption
    <2> QED  BY <1>T, <2>1, <2>2, OneEntry
  <1>4. ASSUME NEW u \in Uris, NEW t \in Text, did_change(u, t) PROVE IInv'
    <2>1. CASE editor[u] # Missing
      <3>1. HoldsDocument(files, u)
        BY <1>T, <1>O, <2>1, EntryFacts DEF HoldsDocument
      <3>2. did_open(u, t)
        BY <1>4, <2>1, <3>1 DEF did_change, DidChange, did_open, DidOpen
      <3> QED  BY <1>3, <3>2
    <2>2. CASE editor[u] = Missing
      <3>1. ~HoldsDocument(files, u)
        BY <1>O, <2>2 DEF HoldsDocument
      <3>2. UNCHANGED vars
        BY <1>4, <2>2, <3>1 DEF did_change, DidChange, vars
      <3> QED  BY <1>T, <1>O, <1>F, <1>D, <3>2 DEF vars, IInv, TypeOK,
            OpenDocumentsAreTheEditors, FsTextWasOnDisk, HoldsDocument, DiskIsRemembered
    <2> QED  BY <2>1, <2>2
  <1>5. ASSUME NEW u \in Uris, did_close(u) PROVE IInv'
    <2> DEFINE e == IF ~HoldsDocument(files, u) THEN files[u]
                    ELSE IF disk[u] # Missing THEN Fs(disk[u]) ELSE NoFile
    <2>1. /\ files' = [files EXCEPT ![u] = e]
          /\ editor' = [editor EXCEPT ![u] = Missing]
          /\ UNCHANGED <<disk, onDisk, answer>>
      BY <1>5, <1>T, OperationFacts DEF did_close
    <2>2. /\ e \in Entry /\ (e.kind = "fs" => e.text \in onDisk[u])
          /\ e.kind # "lsp"
      BY <1>T, <1>F, <1>D, EntryFacts, OperationFacts DEF HoldsDocument
    <2> HIDE DEF e
    <2> QED  BY <1>T, <2>1, <2>2, OneEntry
  <1>6. ASSUME NEW u \in Uris, DiskChanges(u) PROVE IInv'
    <2>1. PICK t \in Text \cup {Missing} :
              /\ disk' = [disk EXCEPT ![u] = t]
              /\ onDisk' = [onDisk EXCEPT ![u] = @ \cup {t}]
              /\ UNCHANGED <<files, answer, editor>>
      BY <1>6 DEF DiskChanges
    <2>2. TypeOK'
      BY <1>T, <2>1 DEF TypeOK, Disk
    <2>3. \A v \in Uris : onDisk[v] \subseteq onDisk'[v] /\ disk'[v] \in onDisk'[v]
      BY <1>T, <1>D, <2>1
    <2> QED  BY <1>O, <1>F, <2>1, <2>2, <2>3 DEF IInv, OpenDocumentsAreTheEditors,
                 FsTextWasOnDisk, DiskIsRemembered, HoldsDocument
  <1>7. ASSUME UNCHANGED vars PROVE IInv'
    BY <1>T, <1>O, <1>F, <1>D, <1>7 DEF vars, IInv, TypeOK, OpenDocumentsAreTheEditors,
        FsTextWasOnDisk, HoldsDocument, DiskIsRemembered
  <1> QED  BY <1>1, <1>2, <1>3, <1>4, <1>5, <1>6, <1>7 DEF Next

(* The invariant of the file system with its clients.                         *)
LEMMA Inductive == Spec => []IInv
  BY InvInit, InvNext, PTL DEF Spec

-----------------------------------------------------------------------------
\* The map of files, the disk and the histories keep their types (vfs/mod.rs).
THEOREM TypeCorrect == Spec => []TypeOK
  <1>1. IInv => TypeOK
    BY DEF IInv
  <1> QED  BY <1>1, Inductive, PTL

\* The server holds exactly the documents the editor has open, with exactly
\* its text.
THEOREM ServerHoldsTheEditorsText == Spec => []OpenDocumentsAreTheEditors
  <1>1. IInv => OpenDocumentsAreTheEditors
    BY DEF IInv
  <1> QED  BY <1>1, Inductive, PTL

\* No text that was only ever in an editor is taken for a file's.
THEOREM NoUnsavedTextSurvives == Spec => []FsTextWasOnDisk
  <1>1. IInv => FsTextWasOnDisk
    BY DEF IInv
  <1> QED  BY <1>1, Inductive, PTL

-----------------------------------------------------------------------------
\* The text the store remembers of a file, read off an entry.
SeenOf(e) == IF e.kind = "fs" THEN e.text ELSE Missing

\* An operation on one document maps to a change of what is seen of it.
LEMMA SeenChangesAtOne ==
    ASSUME NEW u \in Uris, NEW e, files \in [Uris -> Entry],
           files' = [files EXCEPT ![u] = e]
    PROVE  [v \in Uris |-> SeenOf(files'[v])]
             = [[v \in Uris |-> SeenOf(files[v])] EXCEPT ![u] = SeenOf(e)]
  OBVIOUS

(* The file system starts as the abstract store does.                         *)
LEMMA InitMaps == Init => Store!Init
  <1> SUFFICES ASSUME Init PROVE Store!Init
    OBVIOUS
  <1>1. \A u \in Uris : files[u].kind = "none"
    BY EntryFacts DEF Init, EmptyVfs
  <1> QED  BY <1>1 DEF Init, Store!Init, Disk

\* Each operation is a step of the store, or no step at all.
LEMMA StepMaps == IInv /\ [Next]_vars => [Store!Next]_(Store!vars)
  <1> SUFFICES ASSUME IInv, [Next]_vars PROVE [Store!Next]_(Store!vars)
    OBVIOUS
  <1> DEFINE seen == [v \in Uris |-> SeenOf(files[v])]
  <1>T. /\ files \in [Uris -> Entry] /\ editor \in [Uris -> Text \cup {Missing}]
        /\ disk \in [Uris -> Text \cup {Missing}] /\ TypeOK
    BY DEF IInv, TypeOK, Disk
  <1>O. \A u \in Uris : IF editor[u] = Missing THEN files[u].kind # "lsp"
                                               ELSE files[u] = Lsp(editor[u])
    BY DEF IInv, OpenDocumentsAreTheEditors, HoldsDocument
  <1>S. /\ seen = [v \in Uris |-> IF files[v].kind = "fs" THEN files[v].text ELSE Missing]
        /\ seen' = [v \in Uris |-> IF files'[v].kind = "fs" THEN files'[v].text ELSE Missing]
    BY DEF SeenOf
  <1>K. \A u \in Uris : /\ files[u] = NoFile => SeenOf(files[u]) = Missing
                        /\ editor[u] # Missing => SeenOf(files[u]) = Missing
    BY <1>T, <1>O, EntryFacts DEF SeenOf
  <1>1. ASSUME NEW u \in Uris, read(u) PROVE Store!ReadBuffer(u) \/ Store!ReadFile(u)
    <2> DEFINE e == IF files[u] = NoFile /\ disk[u] # Missing THEN Fs(disk[u])
                                                              ELSE files[u]
    <2>1. /\ files' = [files EXCEPT ![u] = e]
          /\ answer' = Contents(files, disk, u)
          /\ UNCHANGED <<disk, editor>>
      BY <1>1, <1>T, OperationFacts DEF read
    <2>2. seen' = [seen EXCEPT ![u] = SeenOf(e)]
      BY <1>T, <2>1, SeenChangesAtOne
    <2>3. CASE editor[u] # Missing
      <3>1. files[u] = Lsp(editor[u]) /\ editor[u] \in Text
        BY <1>T, <1>O, <2>3
      <3>2. files[u] # NoFile /\ files[u].text = editor[u]
        BY <3>1, EntryFacts
      <3>3. answer' = editor[u] /\ files' = files
        BY <1>T, <2>1, <3>2 DEF Contents
      <3>4. seen' = seen
        BY <3>3
      <3> QED  BY <1>S, <2>1, <2>3, <3>3, <3>4 DEF Store!ReadBuffer
    <2>4. CASE editor[u] = Missing
      <3>1. CASE files[u] = NoFile
        <4>1. SeenOf(e) = disk[u]
          BY <1>K, <1>T, <3>1, EntryFacts DEF SeenOf
        <4>2. answer' = disk[u] /\ seen[u] = Missing
          BY <1>K, <2>1, <3>1 DEF Contents
        <4> QED  BY <1>S, <2>1, <2>2, <2>4, <4>1, <4>2 DEF Store!ReadFile
      <3>2. CASE files[u] # NoFile
        <4>1. PICK t \in Text : files[u] = Fs(t)
          BY <1>T, <1>O, <2>4, <3>2, EntryFacts
        <4>2. answer' = t /\ seen[u] = t /\ SeenOf(e) = t /\ t # Missing
          BY <2>1, <3>2, <4>1, EntryFacts, MissingAssumption DEF Contents, SeenOf
        <4> QED  BY <1>S, <2>1, <2>2, <2>4, <4>2 DEF Store!ReadFile
      <3> QED  BY <3>1, <3>2
    <2> QED  BY <2>3, <2>4
  <1>2. ASSUME NEW u \in Uris, update_fs(u) PROVE Store!Look(u) \/ UNCHANGED Store!vars
    <2>1. CASE HoldsDocument(files, u) \/ disk[u] = Missing
      <3>1. UNCHANGED vars
        BY <1>2, <2>1 DEF update_fs, UpdateFs, vars
      <3>2. seen' = seen
        BY <3>1 DEF vars
      <3> QED  BY <1>S, <3>1, <3>2 DEF vars, Store!vars
    <2>2. CASE ~HoldsDocument(files, u) /\ disk[u] # Missing
      <3>1. /\ files' = [files EXCEPT ![u] = Fs(disk[u])]
            /\ UNCHANGED <<disk, editor, answer>>
        BY <1>2, <2>2 DEF update_fs, UpdateFs
      <3>2. SeenOf(Fs(disk[u])) = disk[u] /\ editor[u] = Missing
        BY <1>T, <1>O, <2>2, EntryFacts DEF SeenOf, HoldsDocument
      <3>3. seen' = [seen EXCEPT ![u] = disk[u]]
        BY <1>T, <3>1, <3>2, SeenChangesAtOne
      <3> QED  BY <1>S, <2>2, <3>1, <3>2, <3>3 DEF Store!Look
    <2> QED  BY <2>1, <2>2
  <1>3. ASSUME NEW u \in Uris, NEW t \in Text, did_open(u, t) PROVE Store!Edit(u, t)
    <2>1. /\ files' = [files EXCEPT ![u] = Lsp(t)]
          /\ editor' = [editor EXCEPT ![u] = t]
          /\ UNCHANGED <<disk, answer>>
      BY <1>3 DEF did_open, DidOpen
    <2>2. SeenOf(Lsp(t)) = Missing
      BY EntryFacts DEF SeenOf
    <2>3. seen' = [seen EXCEPT ![u] = Missing]
      BY <1>T, <2>1, <2>2, SeenChangesAtOne
    <2> QED  BY <1>S, <2>1, <2>3 DEF Store!Edit
  <1>4. ASSUME NEW u \in Uris, NEW t \in Text, did_change(u, t)
        PROVE  Store!Edit(u, t) \/ UNCHANGED Store!vars
    <2>1. CASE editor[u] # Missing
      <3>1. HoldsDocument(files, u)
        BY <1>T, <1>O, <2>1, EntryFacts DEF HoldsDocument
      <3>2. did_open(u, t)
        BY <1>4, <2>1, <3>1 DEF did_change, DidChange, did_open, DidOpen
      <3> QED  BY <1>3, <3>2
    <2>2. CASE editor[u] = Missing
      <3>1. ~HoldsDocument(files, u)
        BY <1>O, <2>2 DEF HoldsDocument
      <3>2. UNCHANGED vars
        BY <1>4, <2>2, <3>1 DEF did_change, DidChange, vars
      <3>3. seen' = seen
        BY <3>2 DEF vars
      <3> QED  BY <1>S, <3>2, <3>3 DEF vars, Store!vars
    <2> QED  BY <2>1, <2>2
  <1>5. ASSUME NEW u \in Uris, did_close(u) PROVE Store!Close(u) \/ UNCHANGED Store!vars
    <2>1. CASE editor[u] # Missing
      <3> DEFINE e == IF disk[u] # Missing THEN Fs(disk[u]) ELSE NoFile
      <3>1. HoldsDocument(files, u)
        BY <1>T, <1>O, <2>1, EntryFacts DEF HoldsDocument
      <3>2. /\ files' = [files EXCEPT ![u] = e]
            /\ editor' = [editor EXCEPT ![u] = Missing]
            /\ UNCHANGED <<disk, answer>>
        BY <1>5, <1>T, <3>1, OperationFacts DEF did_close
      <3>3. SeenOf(e) = disk[u]
        BY <1>T, EntryFacts DEF SeenOf
      <3>4. seen' = [seen EXCEPT ![u] = disk[u]]
        BY <1>T, <3>2, <3>3, SeenChangesAtOne
      <3> QED  BY <1>S, <2>1, <3>2, <3>4 DEF Store!Close
    <2>2. CASE editor[u] = Missing
      <3>1. files' = files /\ UNCHANGED <<disk, answer>>
        BY <1>5, <1>O, <2>2 DEF did_close, DidClose, HoldsDocument
      <3>2. editor' = editor /\ seen' = seen
        BY <1>5, <1>T, <2>2, <3>1 DEF did_close
      <3> QED  BY <1>S, <3>1, <3>2 DEF Store!vars
    <2> QED  BY <2>1, <2>2
  <1>6. ASSUME NEW u \in Uris, DiskChanges(u) PROVE Store!DiskChanges(u)
    <2>1. seen' = seen
      BY <1>6 DEF DiskChanges
    <2> QED  BY <1>6, <1>S, <2>1 DEF DiskChanges, Store!DiskChanges
  <1>7. ASSUME UNCHANGED vars PROVE UNCHANGED Store!vars
    <2>1. seen' = seen
      BY <1>7 DEF vars
    <2> QED  BY <1>7, <1>S, <2>1 DEF vars, Store!vars
  <1> QED  BY <1>1, <1>2, <1>3, <1>4, <1>5, <1>6, <1>7 DEF Next, Store!Next

\* The virtual file system does what the rest of the server relies on: an open
\* document reads as the editor's text, and any other as last seen on disk.
THEOREM VfsImplementsStore == Spec => ImplementsStore
  BY InitMaps, StepMaps, Inductive, PTL DEF Spec, ImplementsStore, Store!Spec

-----------------------------------------------------------------------------
\* The order of the sort is strict and total.
LEMMA BeforeOrders ==
    ASSUME NEW raw, Ranges(raw)
    PROVE  /\ \A i \in DOMAIN raw : ~ Before(raw, i, i)
           /\ \A i, j \in DOMAIN raw : i # j => Before(raw, i, j) \/ Before(raw, j, i)
           /\ \A i, j, k \in DOMAIN raw :
                 Before(raw, i, j) /\ Before(raw, j, k) => Before(raw, i, k)
<1>1. \A i \in DOMAIN raw : /\ i \in Nat /\ raw[i].line \in Nat
                            /\ raw[i].from \in Nat /\ raw[i].to \in Nat
  BY DEF Ranges, Nested
<1>2. \A i \in DOMAIN raw : ~ Before(raw, i, i)
  BY <1>1 DEF Before
<1>3. \A i, j \in DOMAIN raw : i # j => Before(raw, i, j) \/ Before(raw, j, i)
  BY <1>1 DEF Before
<1>4. \A i, j, k \in DOMAIN raw :
          Before(raw, i, j) /\ Before(raw, j, k) => Before(raw, i, k)
  BY <1>1 DEF Before
<1> QED
  BY <1>2, <1>3, <1>4

\* A later one has more before it.
LEMMA RankGrows ==
    ASSUME NEW raw, Ranges(raw), NEW S \in SUBSET DOMAIN raw
    PROVE  /\ IsFiniteSet(S) /\ Cardinality(S) \in Nat
           /\ \A i \in DOMAIN raw : Rank(raw, S, i) \in Nat
           /\ \A i \in S : Rank(raw, S, i) < Cardinality(S)
           /\ \A i \in S, j \in DOMAIN raw :
                 Before(raw, i, j) => Rank(raw, S, i) < Rank(raw, S, j)
<1> DEFINE Earlier(i) == {j \in S : Before(raw, j, i)}
<1>1. IsFiniteSet(DOMAIN raw)
  BY FS_Interval DEF Ranges
<1>2. IsFiniteSet(S) /\ Cardinality(S) \in Nat
  BY <1>1, FS_Subset, FS_CardinalityType
<1>3. ASSUME NEW T \in SUBSET S, NEW U \in SUBSET T, NEW x \in T, x \notin U
      PROVE  Cardinality(U) \in Nat /\ Cardinality(T) \in Nat /\ Cardinality(U) < Cardinality(T)
  <2>1. IsFiniteSet(T) /\ Cardinality(T) \in Nat
    BY <1>2, FS_Subset, FS_CardinalityType
  <2>2. IsFiniteSet(U) /\ Cardinality(U) \in Nat /\ Cardinality(U) <= Cardinality(T)
    BY <2>1, FS_Subset, FS_CardinalityType
  <2>3. U # T
    BY <1>3
  <2>4. Cardinality(U) = Cardinality(T) => U = T
    BY <2>1, FS_Subset
  <2> QED
    BY <2>1, <2>2, <2>3, <2>4
<1>4. \A i \in DOMAIN raw : IsFiniteSet(Earlier(i)) /\ Cardinality(Earlier(i)) \in Nat
  <2>1. TAKE i \in DOMAIN raw
  <2>2. Earlier(i) \subseteq S
    OBVIOUS
  <2> QED
    BY <1>2, <2>2, FS_Subset, FS_CardinalityType
<1>5. \A i \in S : Cardinality(Earlier(i)) < Cardinality(S)
  <2>1. TAKE i \in S
  <2>2. Earlier(i) \subseteq S /\ i \in S /\ i \notin Earlier(i)
    BY BeforeOrders
  <2> HIDE DEF Earlier
  <2> QED
    BY <2>2, <1>3
<1>6. \A i \in S, j \in DOMAIN raw :
          Before(raw, i, j) => Cardinality(Earlier(i)) < Cardinality(Earlier(j))
  <2>1. SUFFICES ASSUME NEW i \in S, NEW j \in DOMAIN raw, Before(raw, i, j)
                 PROVE  Cardinality(Earlier(i)) < Cardinality(Earlier(j))
    OBVIOUS
  <2>2. /\ Earlier(j) \subseteq S /\ Earlier(i) \subseteq Earlier(j)
        /\ i \in Earlier(j) /\ i \notin Earlier(i)
    BY <2>1, BeforeOrders
  <2> HIDE DEF Earlier
  <2> QED
    BY <2>2, <1>3
<1> QED
  BY <1>2, <1>4, <1>5, <1>6 DEF Rank

\* Every place is taken, everything has a place, and the places are in order.
LEMMA PlacesOrder ==
    ASSUME NEW raw, Ranges(raw), NEW S \in SUBSET DOMAIN raw
    PROVE  /\ \A k \in 1..Cardinality(S) : Placed(raw, S, k) \in S
           /\ \A i \in S : \E k \in 1..Cardinality(S) : Placed(raw, S, k) = i
           /\ \A k, l \in 1..Cardinality(S) :
                 k < l => Before(raw, Placed(raw, S, k), Placed(raw, S, l))
<1> DEFINE n == Cardinality(S)
           r == [i \in S |-> Rank(raw, S, i) + 1]
<1>1. IsFiniteSet(S) /\ n \in Nat
  BY RankGrows
<1>2. \A i \in S : Rank(raw, S, i) \in Nat /\ Rank(raw, S, i) < n
  BY RankGrows
<1>3. \A i, j \in S : Before(raw, i, j) => Rank(raw, S, i) < Rank(raw, S, j)
  BY RankGrows
<1>4. \A i, j \in S : Rank(raw, S, i) = Rank(raw, S, j) => i = j
  BY <1>2, <1>3, BeforeOrders
<1>5. r \in [S -> 1..n]
  BY <1>1, <1>2
<1>6. r \in Injection(S, 1..n)
  BY <1>2, <1>4, <1>5 DEF Injection, IsInjective
<1>7. Cardinality(1..n) = n /\ IsFiniteSet(1..n)
  BY <1>1, FS_Interval
<1>8. r \in Surjection(S, 1..n)
  BY ONLY <1>6, <1>7, FS_Injection
<1>9. \A k \in 1..n : \E i \in S : Rank(raw, S, i) = k - 1
  <2>1. TAKE k \in 1..n
  <2>2. PICK i \in S : r[i] = k
    BY <1>8 DEF Surjection
  <2>3. Rank(raw, S, i) + 1 = k /\ Rank(raw, S, i) \in Nat /\ k \in Nat
    BY <1>1, <1>2, <2>2
  <2> QED
    BY <2>3
<1>10. \A k \in 1..n : Placed(raw, S, k) \in S /\ Rank(raw, S, Placed(raw, S, k)) = k - 1
  BY <1>9 DEF Placed
<1>11. \A i \in S : \E k \in 1..n : Placed(raw, S, k) = i
  <2>1. TAKE i \in S
  <2>2. Rank(raw, S, i) + 1 \in 1..n /\ (Rank(raw, S, i) + 1) - 1 = Rank(raw, S, i)
    BY <1>1, <1>2
  <2>3. Placed(raw, S, Rank(raw, S, i) + 1) = i
    BY <1>4, <1>10, <2>2
  <2> QED
    BY <2>2, <2>3
<1>12. \A k, l \in 1..n : k < l => Before(raw, Placed(raw, S, k), Placed(raw, S, l))
  <2>1. SUFFICES ASSUME NEW k \in 1..n, NEW l \in 1..n, k < l
                 PROVE  Before(raw, Placed(raw, S, k), Placed(raw, S, l))
    OBVIOUS
  <2> DEFINE i == Placed(raw, S, k)
             j == Placed(raw, S, l)
  <2>2. i \in S /\ j \in S /\ Rank(raw, S, i) = k - 1 /\ Rank(raw, S, j) = l - 1
    BY <1>10
  <2> HIDE DEF i, j
  <2>3. i # j
    BY <2>1, <2>2
  <2>4. ~ Before(raw, j, i)
    BY <1>3, <2>1, <2>2
  <2>5. Before(raw, i, j)
    BY <2>2, <2>3, <2>4, BeforeOrders
  <2> QED
    BY <2>5 DEF i, j
<1> QED
  BY <1>10, <1>11, <1>12

\* Of the ranges that have something, one is first, and of those among the ones
\* before i, one is last.
LEMMA FirstAndLast ==
    ASSUME NEW raw, Ranges(raw), NEW S \in SUBSET DOMAIN raw, S # {}
    PROVE  /\ \E i \in S : \A j \in S : j = i \/ Before(raw, i, j)
           /\ \E i \in S : \A j \in S : j = i \/ Before(raw, j, i)
<1> DEFINE n == Cardinality(S)
<1>1. n \in Nat
  BY RankGrows
<1>2. PICK i \in S : TRUE
  OBVIOUS
<1>3. PICK k \in 1..n : Placed(raw, S, k) = i
  BY <1>2, PlacesOrder
<1>4. 1 \in 1..n /\ n \in 1..n
  BY <1>1, <1>3
<1>5. Placed(raw, S, 1) \in S /\ Placed(raw, S, n) \in S
  BY <1>4, PlacesOrder
<1>6. \A j \in S : /\ j = Placed(raw, S, 1) \/ Before(raw, Placed(raw, S, 1), j)
                   /\ j = Placed(raw, S, n) \/ Before(raw, j, Placed(raw, S, n))
  <2>1. TAKE j \in S
  <2>2. PICK l \in 1..n : Placed(raw, S, l) = j
    BY PlacesOrder
  <2>3. (l = 1 \/ 1 < l) /\ (l = n \/ l < n)
    BY <1>1
  <2> QED
    BY <1>4, <2>2, <2>3, PlacesOrder
<1> QED
  BY <1>5, <1>6

-----------------------------------------------------------------------------
\* The range j is around the place where i starts.
Hides(raw, j, i) ==
    /\ Before(raw, j, i) /\ raw[j].line = raw[i].line /\ raw[i].from < raw[j].to

\* No range before it is around its start.
Outermost(raw) == {i \in DOMAIN raw : \A j \in DOMAIN raw : ~ Hides(raw, j, i)}

\* Of the ranges around the start of another, the first is outermost.
LEMMA HiddenByOutermost ==
    ASSUME NEW raw, Ranges(raw), NEW i \in DOMAIN raw, i \notin Outermost(raw)
    PROVE  \E j \in Outermost(raw) : Hides(raw, j, i)
<1> DEFINE H == {j \in DOMAIN raw : Hides(raw, j, i)}
<1>1. H # {} /\ H \in SUBSET DOMAIN raw
  BY DEF Outermost
<1>2. PICK j \in H : \A k \in H : k = j \/ Before(raw, j, k)
  BY <1>1, FirstAndLast
<1>3. SUFFICES ASSUME NEW k \in DOMAIN raw, Hides(raw, k, j)
               PROVE  FALSE
  BY <1>2 DEF Outermost
<1>4. Hides(raw, k, i)
  <2>1. /\ raw[j].line = raw[i].line /\ raw[i].from < raw[j].to
        /\ raw[k].line = raw[j].line /\ raw[j].from < raw[k].to
        /\ Before(raw, j, i) /\ Before(raw, k, j)
    BY <1>2, <1>3 DEF Hides
  <2>2. /\ raw[i].from \in Nat /\ raw[j].from \in Nat /\ raw[k].from \in Nat
        /\ raw[j].to \in Nat /\ raw[k].to \in Nat
        /\ raw[i].line \in Nat
        /\ \/ raw[j].to <= raw[k].from \/ raw[k].to <= raw[j].from
           \/ raw[k].from <= raw[j].from /\ raw[j].to <= raw[k].to
           \/ raw[j].from <= raw[k].from /\ raw[k].to <= raw[j].to
    BY <1>2, <2>1 DEF Ranges, Nested
  <2>3. raw[k].from <= raw[j].from /\ (raw[k].from = raw[j].from => raw[k].to >= raw[j].to)
    BY <2>1, <2>2 DEF Before
  <2>4. raw[i].from < raw[k].to
    BY <2>1, <2>2, <2>3
  <2>5. Before(raw, k, i)
    BY <1>2, <2>1, BeforeOrders
  <2> QED
    BY <2>1, <2>4, <2>5 DEF Hides
<1>5. k = j \/ Before(raw, j, k)
  BY <1>2, <1>4
<1> QED
  BY <1>2, <1>3, <1>5, BeforeOrders DEF Hides

\* What a member of the chosen set is: one that the last before it does not hide.
Chosen(raw, S) ==
    \A i \in DOMAIN raw :
        i \in S <=> \A j \in S : LastBefore(raw, S, i, j) =>
                        ~ (raw[j].line = raw[i].line /\ raw[i].from < raw[j].to)

\* The outermost ranges are a set that the scan of the ranges keeps, ...
LEMMA OutermostChosen ==
    ASSUME NEW raw, Ranges(raw)
    PROVE  Chosen(raw, Outermost(raw))
<1> DEFINE O == Outermost(raw)
<1>1. O \subseteq DOMAIN raw
  BY DEF Outermost
<1>2. ASSUME NEW i \in O, NEW j \in O, LastBefore(raw, O, i, j)
      PROVE  ~ (raw[j].line = raw[i].line /\ raw[i].from < raw[j].to)
  BY <1>1, <1>2 DEF Outermost, LastBefore, Hides
<1>3. ASSUME NEW i \in DOMAIN raw, i \notin O
      PROVE  \E j \in O : /\ LastBefore(raw, O, i, j)
                          /\ raw[j].line = raw[i].line /\ raw[i].from < raw[j].to
  <2>1. PICK j \in O : Hides(raw, j, i)
    BY <1>3, HiddenByOutermost
  <2>2. ASSUME NEW k \in O, Before(raw, k, i), k # j
        PROVE  Before(raw, k, j)
    <3>1. SUFFICES ASSUME Before(raw, j, k)
                   PROVE  FALSE
      BY <1>1, <2>2, BeforeOrders
    <3>2. Hides(raw, j, k)
      BY <1>1, <1>3, <2>1, <2>2, <3>1 DEF Hides, Ranges, Nested, Before
    <3> QED
      BY <1>1, <2>2, <3>2 DEF Outermost
  <2>3. LastBefore(raw, O, i, j)
    BY <2>1, <2>2 DEF LastBefore, Hides
  <2> QED
    BY <2>1, <2>3 DEF Hides
<1> HIDE DEF O
<1>4. Chosen(raw, O)
  BY <1>1, <1>2, <1>3 DEF Chosen
<1> QED
  BY <1>4 DEF O

\* ... and the only one.
LEMMA KeptAreOutermost ==
    ASSUME NEW raw, Ranges(raw)
    PROVE  KeptIndices(raw) = Outermost(raw)
<1> DEFINE O == Outermost(raw)
           K == KeptIndices(raw)
<1>1. O \in SUBSET DOMAIN raw /\ Chosen(raw, O)
  BY OutermostChosen DEF Outermost
<1>2. K = CHOOSE S \in SUBSET DOMAIN raw : Chosen(raw, S)
  BY DEF KeptIndices, Chosen
<1>3. K \in SUBSET DOMAIN raw /\ Chosen(raw, K)
  <2> HIDE DEF K, O
  <2> QED  BY <1>1, <1>2
<1> HIDE DEF K, O
<1> DEFINE D == {i \in DOMAIN raw : ~ (i \in K <=> i \in O)}
<1>4. SUFFICES ASSUME D # {}
               PROVE  FALSE
  BY <1>1, <1>3 DEF K, O
<1>5. PICK i \in D : \A j \in D : j = i \/ Before(raw, i, j)
  <2>1. D \in SUBSET DOMAIN raw
    OBVIOUS
  <2> HIDE DEF D
  <2> QED  BY <1>4, <2>1, FirstAndLast
<1>6. \A j \in DOMAIN raw : Before(raw, j, i) => (j \in K <=> j \in O)
  BY <1>5, BeforeOrders
<1>7. \A j : LastBefore(raw, K, i, j) <=> LastBefore(raw, O, i, j)
  BY <1>1, <1>3, <1>6 DEF LastBefore
<1>8. i \in K <=> i \in O
  BY <1>1, <1>3, <1>5, <1>7 DEF Chosen, LastBefore
<1> QED
  BY <1>5, <1>8

-----------------------------------------------------------------------------
\* The ranges kept are the outermost ones in order, and none starts before the
\* one kept before it has ended.
LEMMA KeptRanges ==
    ASSUME NEW raw, Ranges(raw)
    PROVE  \E n \in Nat : \E o \in [1..n -> Outermost(raw)] :
              /\ Kept(raw) = [k \in 1..n |-> raw[o[k]]]
              /\ \A i \in Outermost(raw) : \E k \in 1..n : o[k] = i
              /\ \A k \in 1..n - 1 : /\ o[k + 1] \in DOMAIN raw /\ o[k] \in DOMAIN raw
                                     /\ Before(raw, o[k], o[k + 1])
                                     /\ ~ Hides(raw, o[k], o[k + 1])
<1> DEFINE O == Outermost(raw)
           n == Cardinality(O)
           o == [k \in 1..n |-> Placed(raw, O, k)]
<1>1. O \in SUBSET DOMAIN raw
  BY DEF Outermost
<1>2. n \in Nat
  BY <1>1, RankGrows
<1>3. /\ \A k \in 1..n : Placed(raw, O, k) \in O
      /\ \A i \in O : \E k \in 1..n : Placed(raw, O, k) = i
      /\ \A k, l \in 1..n :
            k < l => Before(raw, Placed(raw, O, k), Placed(raw, O, l))
  BY <1>1, PlacesOrder
<1>4. Kept(raw) = [k \in 1..n |-> raw[Placed(raw, O, k)]]
  BY KeptAreOutermost DEF Kept
<1> HIDE DEF O, n
<1>5. o \in [1..n -> O]
  BY <1>3
<1>6. Kept(raw) = [k \in 1..n |-> raw[o[k]]]
  BY <1>4
<1>7. \A i \in O : \E k \in 1..n : o[k] = i
  BY <1>3
<1>8. ASSUME NEW k \in 1..n - 1
      PROVE  /\ o[k + 1] \in DOMAIN raw /\ o[k] \in DOMAIN raw
             /\ Before(raw, o[k], o[k + 1]) /\ ~ Hides(raw, o[k], o[k + 1])
  <2>1. k \in 1..n /\ k + 1 \in 1..n /\ k < k + 1
    BY <1>2
  <2>2. Before(raw, o[k], o[k + 1]) /\ o[k + 1] \in O /\ o[k] \in O
    BY <1>3, <2>1
  <2> QED
    BY <1>1, <2>2 DEF O, Outermost
<1> HIDE DEF o
<1> QED
  BY <1>2, <1>5, <1>6, <1>7, <1>8 DEF O

\* What the editor's places satisfy.
PlacesOf(data, g) ==
    g = [k \in 0..Len(data) |->
            IF k = 0 THEN [line |-> 0, from |-> 0]
            ELSE [line |-> g[k - 1].line + data[k].deltaLine,
                  from |-> data[k].deltaStart
                           + IF data[k].deltaLine = 0 THEN g[k - 1].from ELSE 0]]

\* One function satisfies it at most.
LEMMA OnePlaces ==
    ASSUME NEW data, Len(data) \in Nat, NEW g, PlacesOf(data, g), NEW h, PlacesOf(data, h)
    PROVE  g = h
<1> DEFINE n == Len(data)
           D == {k \in 0..n : g[k] # h[k]}
<1>1. DOMAIN g = 0..n /\ DOMAIN h = 0..n
      /\ g = [k \in DOMAIN g |-> g[k]] /\ h = [k \in DOMAIN h |-> h[k]]
  BY DEF PlacesOf
<1>2. SUFFICES ASSUME D # {}
               PROVE  FALSE
  BY <1>1
<1> DEFINE Less == {ss \in Nat \X Nat : ss[1] < ss[2]}
<1>3. PICK k \in D : \A j \in D : <<j, k>> \notin Less
  <2>1. IsWellFoundedOn(Less, Nat)
    BY NatLessThanWellFounded DEF OpToRel
  <2>2. D \subseteq Nat
    OBVIOUS
  <2> HIDE DEF D, Less
  <2> QED
    BY <1>2, <2>1, <2>2, WFMin
<1>4. k \in 0..n /\ g[k] # h[k]
  OBVIOUS
<1>5. k # 0
  BY <1>4 DEF PlacesOf
<1>6. k - 1 \in 0..n /\ <<k - 1, k>> \in Less
  BY <1>4, <1>5
<1>7. g[k - 1] = h[k - 1]
  BY <1>3, <1>6
<1>8. g[k] = h[k]
  BY <1>4, <1>7 DEF PlacesOf
<1> QED
  BY <1>4, <1>8


\* The editor's starts are any that satisfy it.
LEMMA StartsAre ==
    ASSUME NEW data, Len(data) \in Nat, NEW g, PlacesOf(data, g)
    PROVE  Starts(data) = g
<1>1. Starts(data) = CHOOSE h : PlacesOf(data, h)
  BY DEF Starts, PlacesOf
<1>2. PlacesOf(data, CHOOSE h : PlacesOf(data, h))
  <2> HIDE DEF PlacesOf
  <2> QED  OBVIOUS
<1> QED
  BY <1>1, <1>2, OnePlaces


\* A function over 1..n is a sequence of length n.
LEMMA FunctionIsSeq ==
    ASSUME NEW n \in Nat, NEW f, f = [k \in 1..n |-> f[k]]
    PROVE  f \in Seq({f[k] : k \in 1..n}) /\ Len(f) = n
<1>1. f \in [1..n -> {f[k] : k \in 1..n}]
  OBVIOUS
<1>2. f \in Seq({f[k] : k \in 1..n})
  BY <1>1, SeqDef
<1>3. Len(f) \in Nat /\ DOMAIN f = 1..Len(f)
  BY <1>2, LenProperties
<1>4. DOMAIN f = 1..n
  BY <1>1
<1>5. Len(f) = n
  BY <1>3, <1>4
<1> QED
  BY <1>2, <1>5

\* A token starts after the one before it has ended.
Advances(data, k) ==
    /\ data[k].deltaLine >= 0 /\ data[k].deltaStart >= 0 /\ data[k].length > 0
    /\ k > 1 /\ data[k].deltaLine = 0 => data[k].deltaStart >= data[k - 1].length

\* The tokens of a text start where the ranges kept do.
LEMMA EncodedStarts ==
    ASSUME NEW raw, Ranges(raw)
    PROVE  \E n \in Nat : \E o \in [1..n -> Outermost(raw)] :
              /\ Encoded(raw) = [k \in 1..n |-> Encoded(raw)[k]]
              /\ Len(Encoded(raw)) = n
              /\ \A i \in Outermost(raw) : \E k \in 1..n : o[k] = i
              /\ \A k \in 1..n :
                    LET r == raw[o[k]] IN
                    /\ Starts(Encoded(raw))[k] = [line |-> r.line, from |-> r.from]
                    /\ Encoded(raw)[k].length = r.to - r.from
                    /\ Encoded(raw)[k].kind = r.kind
              /\ \A k \in 1..n : Advances(Encoded(raw), k)
<1>0. PICK n \in Nat : \E o \in [1..n -> Outermost(raw)] :
          /\ Kept(raw) = [k \in 1..n |-> raw[o[k]]]
          /\ \A i \in Outermost(raw) : \E k \in 1..n : o[k] = i
          /\ \A k \in 1..n - 1 : /\ Before(raw, o[k], o[k + 1])
                                 /\ ~ Hides(raw, o[k], o[k + 1])
  BY KeptRanges
<1>1. PICK o \in [1..n -> Outermost(raw)] :
          /\ Kept(raw) = [k \in 1..n |-> raw[o[k]]]
          /\ \A i \in Outermost(raw) : \E k \in 1..n : o[k] = i
          /\ \A k \in 1..n - 1 : /\ Before(raw, o[k], o[k + 1])
                                 /\ ~ Hides(raw, o[k], o[k + 1])
  BY <1>0
<1>2. \A k \in 1..n : o[k] \in DOMAIN raw
  BY DEF Outermost
<1>3. \A k \in 1..n : raw[o[k]].line \in Nat /\ raw[o[k]].from \in Nat /\ raw[o[k]].to \in Nat
  BY <1>2 DEF Ranges, Nested
<1> DEFINE E == Encoded(raw)
           Prev(k) == IF k = 1 THEN [line |-> 0, from |-> 0] ELSE raw[o[k - 1]]
<1>4. E = [k \in 1..n |->
              [deltaLine  |-> raw[o[k]].line - Prev(k).line,
               deltaStart |-> raw[o[k]].from
                                - (IF raw[o[k]].line = Prev(k).line THEN Prev(k).from ELSE 0),
               length     |-> raw[o[k]].to - raw[o[k]].from,
               kind       |-> raw[o[k]].kind]]
  <2> DEFINE kept == Kept(raw)
             P(k) == IF k = 1 THEN [line |-> 0, from |-> 0] ELSE kept[k - 1]
             B(k) == IF kept[k].line = P(k).line THEN P(k).from ELSE 0
  <2>1. E = [k \in DOMAIN kept |->
              [deltaLine  |-> kept[k].line - P(k).line,
               deltaStart |-> kept[k].from - B(k),
               length     |-> kept[k].to - kept[k].from,
               kind       |-> kept[k].kind]]
    BY DEF Encoded
  <2> HIDE DEF E
  <2>2. DOMAIN kept = 1..n /\ \A k \in 1..n : kept[k] = raw[o[k]]
    BY <1>1
  <2> HIDE DEF kept
  <2>3. \A k \in 1..n : P(k) = Prev(k)
    BY <2>2
  <2> HIDE DEF P, Prev
  <2> QED
    BY <2>1, <2>2, <2>3
<1> HIDE DEF E
<1>5. E = [k \in 1..n |-> E[k]] /\ Len(E) = n
  <2>1. E = [k \in 1..n |-> E[k]]
    BY <1>4
  <2> QED
    BY <2>1, FunctionIsSeq
<1> DEFINE g == [k \in 0..n |-> IF k = 0 THEN [line |-> 0, from |-> 0]
                               ELSE [line |-> raw[o[k]].line, from |-> raw[o[k]].from]]
<1>6. ASSUME NEW k \in 1..n
      PROVE  /\ E[k].deltaLine = raw[o[k]].line - g[k - 1].line
             /\ E[k].deltaStart = raw[o[k]].from
                   - (IF raw[o[k]].line = g[k - 1].line THEN g[k - 1].from ELSE 0)
             /\ g[k - 1].line \in Nat /\ g[k - 1].from \in Nat
             /\ g[k] = [line |-> raw[o[k]].line, from |-> raw[o[k]].from]
  <2>1. k - 1 \in 0..n /\ k \in 0..n /\ k # 0 /\ (k = 1 <=> k - 1 = 0)
        /\ (k # 1 => k - 1 \in 1..n)
    OBVIOUS
  <2>2. Prev(k).line = g[k - 1].line /\ Prev(k).from = g[k - 1].from
    BY <2>1
  <2>3. g[k - 1].line \in Nat /\ g[k - 1].from \in Nat
    BY <1>3, <2>1
  <2>4. g[k] = [line |-> raw[o[k]].line, from |-> raw[o[k]].from]
    BY <2>1
  <2> HIDE DEF Prev, g
  <2> QED
    BY <1>4, <2>2, <2>3, <2>4
<1>7. PlacesOf(E, g)
  <2>1. ASSUME NEW k \in 1..n
        PROVE  g[k] = [line |-> g[k - 1].line + E[k].deltaLine,
                       from |-> E[k].deltaStart
                                + IF E[k].deltaLine = 0 THEN g[k - 1].from ELSE 0]
    <3> HIDE DEF g
    <3>0. /\ raw[o[k]].line \in Nat /\ raw[o[k]].from \in Nat
          /\ g[k - 1].line \in Nat /\ g[k - 1].from \in Nat
          /\ E[k].deltaLine = raw[o[k]].line - g[k - 1].line
          /\ E[k].deltaStart = raw[o[k]].from
                - (IF raw[o[k]].line = g[k - 1].line THEN g[k - 1].from ELSE 0)
      BY <1>3, <1>6
    <3>1. g[k - 1].line + E[k].deltaLine = raw[o[k]].line
      BY ONLY <3>0
    <3>2. E[k].deltaStart + (IF E[k].deltaLine = 0 THEN g[k - 1].from ELSE 0) = raw[o[k]].from
      BY ONLY <3>0
    <3> QED
      BY <1>6, <3>1, <3>2
  <2>2. g[0] = [line |-> 0, from |-> 0] /\ DOMAIN g = 0..n /\ g = [k \in 0..n |-> g[k]]
    OBVIOUS
  <2> HIDE DEF g
  <2> DEFINE After(k) == [line |-> g[k - 1].line + E[k].deltaLine,
                         from |-> E[k].deltaStart
                                  + IF E[k].deltaLine = 0 THEN g[k - 1].from ELSE 0]
  <2>3. \A k \in 1..n : g[k] = After(k)
    BY <2>1
  <2> HIDE DEF After
  <2>4. g = [k \in 0..n |-> IF k = 0 THEN [line |-> 0, from |-> 0] ELSE After(k)]
    BY <2>2, <2>3
  <2> QED
    BY <1>5, <2>4 DEF PlacesOf, After
<1>8. Starts(E) = g
  BY <1>5, <1>7, StartsAre
<1>9. \A k \in 1..n : /\ Starts(E)[k] = [line |-> raw[o[k]].line, from |-> raw[o[k]].from]
                      /\ E[k].length = raw[o[k]].to - raw[o[k]].from
                      /\ E[k].kind = raw[o[k]].kind
  <2> HIDE DEF g
  <2>1. TAKE k \in 1..n
  <2>2. Starts(E)[k] = [line |-> raw[o[k]].line, from |-> raw[o[k]].from]
    BY <1>6, <1>8
  <2> HIDE DEF Prev
  <2> QED
    BY <1>4, <2>2
<1>10. ASSUME NEW k \in 1..n
       PROVE  Advances(E, k)
  <2>1. /\ E[k].deltaLine = raw[o[k]].line - Prev(k).line
        /\ E[k].deltaStart = raw[o[k]].from
              - (IF raw[o[k]].line = Prev(k).line THEN Prev(k).from ELSE 0)
        /\ E[k].length = raw[o[k]].to - raw[o[k]].from
    <3> HIDE DEF Prev
    <3> QED  BY <1>4
  <2>2. /\ raw[o[k]].line \in Nat /\ raw[o[k]].from \in Nat /\ raw[o[k]].to \in Nat
        /\ raw[o[k]].from < raw[o[k]].to
    BY <1>2, <1>3 DEF Ranges, Nested
  <2>3. CASE k = 1
    <3>1. Prev(k).line = 0 /\ Prev(k).from = 0
      BY <2>3
    <3> HIDE DEF Prev
    <3> QED
      BY <2>1, <2>2, <2>3, <3>1 DEF Advances
  <2>4. CASE k # 1
    <3> DEFINE j == k - 1
               p == o[j]
               q == o[k]
    <3>1. j \in 1..n /\ j \in 1..n - 1 /\ j + 1 = k
      BY <2>4
    <3>2. Prev(k) = raw[p]
      BY <2>4
    <3>3. Before(raw, p, q) /\ ~ Hides(raw, p, q)
      BY <1>1, <3>1
    <3>4. E[j].length = raw[p].to - raw[p].from
      <4> HIDE DEF Prev
      <4> QED  BY <1>4, <3>1
    <3>5. /\ raw[p].line \in Nat /\ raw[p].from \in Nat /\ raw[p].to \in Nat
          /\ raw[p].from < raw[p].to
      BY <1>2, <1>3, <3>1 DEF Ranges, Nested
    <3> HIDE DEF p, q, Prev
    <3>6. raw[p].line <= raw[q].line /\ (raw[p].line = raw[q].line => raw[p].to <= raw[q].from)
      BY <2>2, <3>3, <3>5 DEF Before, Hides, q
    <3>7. /\ E[k].deltaLine >= 0 /\ E[k].deltaStart >= 0 /\ E[k].length > 0
          /\ E[k].deltaLine = 0 => E[k].deltaStart >= E[j].length
      <4>1. /\ E[k].deltaLine = raw[q].line - raw[p].line
            /\ E[k].deltaStart = raw[q].from
                  - (IF raw[q].line = raw[p].line THEN raw[p].from ELSE 0)
            /\ E[k].length = raw[q].to - raw[q].from
        BY <2>1, <3>2 DEF q
      <4>2. /\ raw[q].line \in Nat /\ raw[q].from \in Nat /\ raw[q].to \in Nat
            /\ raw[q].from < raw[q].to
        BY <2>2 DEF q
      <4>3. E[k].deltaLine >= 0 /\ E[k].length > 0
        BY ONLY <3>5, <3>6, <4>1, <4>2
      <4>4. CASE raw[q].line = raw[p].line
        <5>1. E[k].deltaStart = raw[q].from - raw[p].from
          BY ONLY <4>1, <4>4
        <5> QED
          BY ONLY <3>4, <3>5, <3>6, <4>2, <4>3, <4>4, <5>1
      <4>5. CASE raw[q].line # raw[p].line
        <5>1. E[k].deltaStart = raw[q].from
          BY ONLY <4>1, <4>2, <4>5
        <5>2. E[k].deltaLine # 0
          BY ONLY <3>5, <4>1, <4>2, <4>5
        <5> QED
          BY ONLY <4>2, <4>3, <5>1, <5>2
      <4> QED
        BY ONLY <4>4, <4>5
    <3> QED
      BY <3>7 DEF Advances
  <2> QED
    BY <2>3, <2>4
<1> QED
  BY <1>1, <1>5, <1>9, <1>10 DEF E

\* What the ranges kept cover, and what they are to show, is the same: a place
\* inside some range is inside one outermost range, which is the widest there.
LEMMA ColoursOfOutermost ==
    ASSUME NEW raw, Ranges(raw), NEW i \in DOMAIN raw,
           NEW c \in raw[i].from..raw[i].to - 1
    PROVE  i \in Outermost(raw) <=>
              \A j \in DOMAIN raw :
                 raw[j].line = raw[i].line /\ raw[j].from <= c /\ c < raw[j].to =>
                    \/ raw[j].to - raw[j].from < raw[i].to - raw[i].from
                    \/ raw[j].to - raw[j].from = raw[i].to - raw[i].from /\ i <= j
<1>1. \A j \in DOMAIN raw : /\ j \in Nat /\ raw[j].line \in Nat
                            /\ raw[j].from \in Nat /\ raw[j].to \in Nat
                            /\ raw[j].from < raw[j].to
  BY DEF Ranges, Nested
<1>2. \A j \in DOMAIN raw : raw[j].line = raw[i].line =>
         \/ raw[i].to <= raw[j].from \/ raw[j].to <= raw[i].from
         \/ raw[i].from <= raw[j].from /\ raw[j].to <= raw[i].to
         \/ raw[j].from <= raw[i].from /\ raw[i].to <= raw[j].to
  BY DEF Ranges, Nested
<1>3. c \in Nat /\ raw[i].from <= c /\ c < raw[i].to
  BY <1>1
<1>4. ASSUME i \in Outermost(raw), NEW j \in DOMAIN raw,
             raw[j].line = raw[i].line /\ raw[j].from <= c /\ c < raw[j].to
      PROVE  \/ raw[j].to - raw[j].from < raw[i].to - raw[i].from
             \/ raw[j].to - raw[j].from = raw[i].to - raw[i].from /\ i <= j
  <2>1. ~ (Before(raw, j, i) /\ raw[i].from < raw[j].to)
    BY <1>4 DEF Outermost, Hides
  <2> QED
    BY <1>1, <1>2, <1>3, <1>4, <2>1 DEF Before
<1>5. ASSUME i \notin Outermost(raw)
      PROVE  \E j \in DOMAIN raw :
                /\ raw[j].line = raw[i].line /\ raw[j].from <= c /\ c < raw[j].to
                /\ ~ (raw[j].to - raw[j].from < raw[i].to - raw[i].from)
                /\ ~ (raw[j].to - raw[j].from = raw[i].to - raw[i].from /\ i <= j)
  <2>1. PICK j \in DOMAIN raw :
            Before(raw, j, i) /\ raw[j].line = raw[i].line /\ raw[i].from < raw[j].to
    BY <1>5 DEF Outermost, Hides
  <2> QED
    BY <1>1, <1>2, <1>3, <2>1 DEF Before
<1> QED
  BY <1>4, <1>5

\* What is painted is what the ranges say.
LEMMA EncodedPaints ==
    ASSUME NEW raw, Ranges(raw)
    PROVE  Painted(Encoded(raw)) = Colours(raw)
<1> DEFINE E == Encoded(raw)
           S == Starts(E)
<1>0. PICK n \in Nat : \E o \in [1..n -> Outermost(raw)] :
          /\ Len(E) = n
          /\ \A i \in Outermost(raw) : \E k \in 1..n : o[k] = i
          /\ \A k \in 1..n : /\ S[k] = [line |-> raw[o[k]].line, from |-> raw[o[k]].from]
                             /\ E[k].length = raw[o[k]].to - raw[o[k]].from
                             /\ E[k].kind = raw[o[k]].kind
  BY EncodedStarts
<1>1. PICK o \in [1..n -> Outermost(raw)] :
          /\ Len(E) = n
          /\ \A i \in Outermost(raw) : \E k \in 1..n : o[k] = i
          /\ \A k \in 1..n : /\ S[k] = [line |-> raw[o[k]].line, from |-> raw[o[k]].from]
                             /\ E[k].length = raw[o[k]].to - raw[o[k]].from
                             /\ E[k].kind = raw[o[k]].kind
  BY <1>0
<1>2. \A i \in DOMAIN raw : raw[i].from \in Nat /\ raw[i].to \in Nat /\ raw[i].from < raw[i].to
  BY DEF Ranges, Nested
<1>3. Outermost(raw) \subseteq DOMAIN raw
  BY DEF Outermost
<1>4. Painted(E) = UNION {{<<S[k].line, c, E[k].kind>> :
              c \in S[k].from..S[k].from + E[k].length - 1} : k \in 1..n}
  BY <1>1 DEF Painted, PaintedFrom
<1> HIDE DEF E, S
<1>5. \A k \in 1..n : /\ S[k].line = raw[o[k]].line /\ E[k].kind = raw[o[k]].kind
                      /\ S[k].from..S[k].from + E[k].length - 1
                            = raw[o[k]].from..raw[o[k]].to - 1
  <2>1. TAKE k \in 1..n
  <2>2. o[k] \in DOMAIN raw
    BY <1>3
  <2>5. /\ S[k] = [line |-> raw[o[k]].line, from |-> raw[o[k]].from]
        /\ E[k].length = raw[o[k]].to - raw[o[k]].from /\ E[k].kind = raw[o[k]].kind
    BY ONLY <1>1, k \in 1..n, Zenon
  <2>3. S[k].from = raw[o[k]].from /\ S[k].line = raw[o[k]].line
        /\ E[k].length = raw[o[k]].to - raw[o[k]].from /\ E[k].kind = raw[o[k]].kind
    BY ONLY <2>5
  <2>4. raw[o[k]].from + (raw[o[k]].to - raw[o[k]].from) - 1 = raw[o[k]].to - 1
    BY <1>2, <2>2
  <2> QED
    BY <2>3, <2>4
<1>6. \A x : x \in Painted(E) <=>
          \E i \in Outermost(raw) : \E c \in raw[i].from..raw[i].to - 1 :
              x = <<raw[i].line, c, raw[i].kind>>
  <2>1. TAKE x
  <2>2. x \in Painted(E) <=>
          \E k \in 1..n : \E c \in S[k].from..S[k].from + E[k].length - 1 :
              x = <<S[k].line, c, E[k].kind>>
    BY <1>4
  <2>3. x \in Painted(E) <=>
          \E k \in 1..n : \E c \in raw[o[k]].from..raw[o[k]].to - 1 :
              x = <<raw[o[k]].line, c, raw[o[k]].kind>>
    <3>1. ASSUME NEW k \in 1..n
          PROVE  (\E c \in S[k].from..S[k].from + E[k].length - 1 :
                      x = <<S[k].line, c, E[k].kind>>)
                 <=> \E c \in raw[o[k]].from..raw[o[k]].to - 1 :
                        x = <<raw[o[k]].line, c, raw[o[k]].kind>>
      BY <1>5, Zenon
    <3> QED
      BY <2>2, <3>1, Zenon
  <2>4. ASSUME NEW k \in 1..n, NEW c \in raw[o[k]].from..raw[o[k]].to - 1,
               x = <<raw[o[k]].line, c, raw[o[k]].kind>>
        PROVE  \E i \in Outermost(raw) : \E d \in raw[i].from..raw[i].to - 1 :
                  x = <<raw[i].line, d, raw[i].kind>>
    <3>1. o[k] \in Outermost(raw)
      OBVIOUS
    <3> QED
      BY <2>4, <3>1, Zenon
  <2>5. ASSUME NEW i \in Outermost(raw), NEW c \in raw[i].from..raw[i].to - 1,
               x = <<raw[i].line, c, raw[i].kind>>
        PROVE  \E k \in 1..n : \E d \in raw[o[k]].from..raw[o[k]].to - 1 :
                  x = <<raw[o[k]].line, d, raw[o[k]].kind>>
    <3>1. PICK k \in 1..n : o[k] = i
      BY <1>1
    <3> QED
      BY <2>5, <3>1, Zenon
  <2> QED
    BY <2>3, <2>4, <2>5, Zenon
<1> DEFINE Shown(i) == {k \in raw[i].from..raw[i].to - 1 :
                          \A j \in DOMAIN raw :
                             raw[j].line = raw[i].line /\ raw[j].from <= k /\ k < raw[j].to =>
                                \/ raw[j].to - raw[j].from < raw[i].to - raw[i].from
                                \/ raw[j].to - raw[j].from = raw[i].to - raw[i].from /\ i <= j}
<1>7. Colours(raw) = UNION {{<<raw[i].line, c, raw[i].kind>> : c \in Shown(i)} : i \in DOMAIN raw}
  BY DEF Colours
<1>8. \A i \in DOMAIN raw : Shown(i) =
          IF i \in Outermost(raw) THEN raw[i].from..raw[i].to - 1 ELSE {}
  BY ColoursOfOutermost
<1> HIDE DEF Shown
<1>9. \A x : x \in Colours(raw) <=>
          \E i \in Outermost(raw) : \E c \in raw[i].from..raw[i].to - 1 :
              x = <<raw[i].line, c, raw[i].kind>>
  <2>1. TAKE x
  <2>2. x \in Colours(raw) <=>
          \E i \in DOMAIN raw : \E c \in Shown(i) : x = <<raw[i].line, c, raw[i].kind>>
    BY <1>7
  <2> QED
    BY <1>3, <1>8, <2>2
<1>10. Painted(E) = Colours(raw)
  BY <1>6, <1>9
<1> QED
  BY <1>10 DEF E


-----------------------------------------------------------------------------
\* Bounded naturals have a greatest.
LEMMA GreatestIs ==
    ASSUME NEW m \in Nat, NEW T \in SUBSET (0..m), T # {}
    PROVE  Max(T) \in T
<1> DEFINE Less == {ss \in Nat \X Nat : ss[1] < ss[2]}
           U == {k \in 0..m : m - k \in T}
<1>1. PICK t \in T : TRUE
  OBVIOUS
<1>2. m - t \in U
  <2>1. t \in Nat /\ t <= m
    OBVIOUS
  <2>2. m - (m - t) = t /\ m - t \in 0..m
    BY <2>1
  <2> QED
    BY <2>2
<1>3. PICK k \in U : \A j \in U : <<j, k>> \notin Less
  <2>1. IsWellFoundedOn(Less, Nat)
    BY NatLessThanWellFounded DEF OpToRel
  <2>2. U \subseteq Nat /\ U # {}
    BY <1>2
  <2> HIDE DEF U, Less
  <2> QED
    BY <2>1, <2>2, WFMin
<1>4. m - k \in T /\ k \in 0..m
  OBVIOUS
<1>5. \A s \in T : m - k >= s
  <2>1. TAKE s \in T
  <2>2. s \in Nat /\ s <= m
    OBVIOUS
  <2>3. m - (m - s) = s /\ m - s \in 0..m
    BY <2>2
  <2>4. m - s \in U /\ m - s \in Nat /\ k \in Nat
    BY <2>3
  <2>5. ~ (m - s < k)
    BY <1>3, <2>4
  <2> QED
    BY <1>4, <2>2, <2>4, <2>5
<1> QED
  BY <1>4, <1>5 DEF Max

\* What two sequences have in common at the front and at the end.
LEMMA CommonFrontIs ==
    ASSUME NEW S, NEW s \in Seq(S), NEW t \in Seq(S)
    PROVE  /\ CommonFront(s, t) \in Nat
           /\ CommonFront(s, t) <= Len(s) /\ CommonFront(s, t) <= Len(t)
           /\ \A i \in 1..CommonFront(s, t) : s[i] = t[i]
<1> DEFINE m == Min({Len(s), Len(t)})
           T == {n \in 0..m : SubSeq(s, 1, n) = SubSeq(t, 1, n)}
<1>1. Len(s) \in Nat /\ Len(t) \in Nat
  OBVIOUS
<1>2. m \in Nat /\ m <= Len(s) /\ m <= Len(t)
  <2>1. \E x \in {Len(s), Len(t)} : \A y \in {Len(s), Len(t)} : x =< y
    BY <1>1
  <2>2. m \in {Len(s), Len(t)} /\ \A y \in {Len(s), Len(t)} : m =< y
    BY <2>1 DEF Min
  <2> QED
    BY <1>1, <2>2
<1> HIDE DEF m
<1>3. 0 \in T
  <2>1. SubSeq(s, 1, 0) = <<>> /\ SubSeq(t, 1, 0) = <<>>
    BY SubSeqEmpty
  <2> QED
    BY <1>2, <2>1
<1>4. CommonFront(s, t) = Max(T)
  BY DEF CommonFront, m
<1>5. T \in SUBSET (0..m) /\ T # {}
  BY <1>3
<1> DEFINE n == Max(T)
<1>6. n \in T
  <2> HIDE DEF T
  <2> QED  BY <1>2, <1>5, GreatestIs
<1> HIDE DEF n
<1>7. n \in 0..m /\ SubSeq(s, 1, n) = SubSeq(t, 1, n)
  BY <1>6
<1>8. n \in Nat /\ n <= Len(s) /\ n <= Len(t)
  BY <1>1, <1>2, <1>7
<1>9. \A i \in 1..n : SubSeq(s, 1, n)[i] = s[i] /\ SubSeq(t, 1, n)[i] = t[i]
  BY <1>1, <1>8, SubSeqProperties
<1> QED
  BY <1>4, <1>7, <1>8, <1>9 DEF n

LEMMA CommonBackIs ==
    ASSUME NEW S, NEW s \in Seq(S), NEW t \in Seq(S)
    PROVE  /\ CommonBack(s, t) \in Nat
           /\ CommonBack(s, t) <= Len(s) /\ CommonBack(s, t) <= Len(t)
           /\ \A i \in 1..CommonBack(s, t) : s[Len(s) - i + 1] = t[Len(t) - i + 1]
<1> DEFINE n == CommonFront(Reverse(s), Reverse(t))
<1>1. ASSUME NEW r \in Seq(S)
      PROVE  /\ Reverse(r) \in Seq(S) /\ Len(Reverse(r)) = Len(r)
             /\ \A i \in 1..Len(r) : Reverse(r)[i] = r[Len(r) - i + 1]
  <2>1. Len(r) \in Nat /\ \A i \in 1..Len(r) : Len(r) - i + 1 \in 1..Len(r) /\ r[i] \in S
    BY ElementOfSeq
  <2>2. Reverse(r) \in [1..Len(r) -> S]
    BY <2>1 DEF Reverse
  <2>3. Reverse(r) \in Seq(S)
    BY <2>1, <2>2, SeqDef
  <2>4. DOMAIN Reverse(r) = 1..Len(Reverse(r)) /\ Len(Reverse(r)) \in Nat
    BY <2>3, LenProperties
  <2>5. Len(Reverse(r)) = Len(r)
    BY <2>1, <2>2, <2>4
  <2> QED
    BY <2>3, <2>5 DEF Reverse
<1>2. /\ n \in Nat /\ n <= Len(s) /\ n <= Len(t)
      /\ \A i \in 1..n : Reverse(s)[i] = Reverse(t)[i]
  BY <1>1, CommonFrontIs
<1>3. Len(s) \in Nat /\ Len(t) \in Nat
  OBVIOUS
<1> HIDE DEF n
<1>4. \A i \in 1..n : i \in 1..Len(s) /\ i \in 1..Len(t)
  BY <1>2, <1>3
<1>5. \A i \in 1..n : s[Len(s) - i + 1] = t[Len(t) - i + 1]
  <2>1. TAKE i \in 1..n
  <2>2. Reverse(s)[i] = s[Len(s) - i + 1] /\ Reverse(t)[i] = t[Len(t) - i + 1]
    BY <1>1, <1>4
  <2> QED
    BY <1>2, <2>2
<1> QED
  BY <1>2, <1>5 DEF n, CommonBack

\* Five places to a token.
LEMMA FiveTimes == \A n \in Nat : (5 * n) \div 5 = n
  OBVIOUS


\* The part of a sequence from one position to another.
LEMMA PartIs ==
    ASSUME NEW S, NEW s \in Seq(S), NEW m \in 1..Len(s) + 1, NEW n \in m - 1..Len(s)
    PROVE  /\ SubSeq(s, m, n) \in Seq(S) /\ Len(SubSeq(s, m, n)) = n - m + 1
           /\ \A i \in 1..n - m + 1 : SubSeq(s, m, n)[i] = s[m + i - 1]
<1>1. Len(s) \in Nat /\ m \in Int /\ n \in Int
  OBVIOUS
<1>2. \A i \in m..n : s[i] \in S
  <2>1. TAKE i \in m..n
  <2>2. i \in 1..Len(s)
    BY <1>1
  <2> QED
    BY <2>2, ElementOfSeq
<1>3. /\ SubSeq(s, m, n) \in Seq(S)
      /\ Len(SubSeq(s, m, n)) = IF m <= n THEN n - m + 1 ELSE 0
      /\ \A i \in 1..n - m + 1 : SubSeq(s, m, n)[i] = s[m + i - 1]
  BY <1>1, <1>2, SubSeqProperties
<1>4. (IF m <= n THEN n - m + 1 ELSE 0) = n - m + 1
  BY <1>1
<1> QED
  BY <1>3, <1>4

\* A delta applied to the tokens it was computed against gives the new ones.
LEMMA DeltaGivesTheNew ==
    ASSUME NEW S, NEW old \in Seq(S), NEW new \in Seq(S)
    PROVE  Apply(diff_tokens(old, new), old) = new
<1> DEFINE f == CommonFront(old, new)
           Rest(s) == SubSeq(s, f + 1, Len(s))
           b == CommonBack(Rest(old), Rest(new))
           Mid(s) == SubSeq(s, f + 1, Len(s) - b)
<1>1. /\ f \in Nat /\ f <= Len(old) /\ f <= Len(new)
      /\ \A i \in 1..f : old[i] = new[i]
  BY CommonFrontIs
<1>2. diff_tokens(old, new) =
         IF Mid(old) = <<>> /\ Mid(new) = <<>> THEN <<>>
         ELSE <<[start |-> 5 * f, deleteCount |-> 5 * Len(Mid(old)), data |-> Mid(new)]>>
  BY DEF diff_tokens
<1> HIDE DEF f
<1>3. Len(old) \in Nat /\ Len(new) \in Nat
  OBVIOUS
<1>4. ASSUME NEW s \in Seq(S), f <= Len(s)
      PROVE  /\ Rest(s) \in Seq(S) /\ Len(Rest(s)) = Len(s) - f
             /\ \A i \in 1..Len(s) - f : Rest(s)[i] = s[f + i]
  <2>1. /\ Len(s) \in Nat /\ f + 1 \in 1..Len(s) + 1 /\ Len(s) \in (f + 1) - 1..Len(s)
        /\ Len(s) - (f + 1) + 1 = Len(s) - f
        /\ \A i \in 1..Len(s) - f : f + 1 + i - 1 = f + i
    BY <1>1, <1>4
  <2> QED
    BY <2>1, PartIs
<1>5. /\ b \in Nat /\ b <= Len(old) - f /\ b <= Len(new) - f
      /\ \A i \in 1..b : Rest(old)[Len(old) - f - i + 1] = Rest(new)[Len(new) - f - i + 1]
  <2>1. /\ Rest(old) \in Seq(S) /\ Len(Rest(old)) = Len(old) - f
        /\ Rest(new) \in Seq(S) /\ Len(Rest(new)) = Len(new) - f
    BY <1>1, <1>4
  <2> HIDE DEF Rest
  <2>2. /\ b \in Nat /\ b <= Len(Rest(old)) /\ b <= Len(Rest(new))
        /\ \A i \in 1..b : Rest(old)[Len(Rest(old)) - i + 1] = Rest(new)[Len(Rest(new)) - i + 1]
    BY <2>1, CommonBackIs
  <2> HIDE DEF b
  <2> QED
    BY <2>1, <2>2
<1> HIDE DEF b
<1>6. \A i \in 1..b : old[Len(old) - b + i] = new[Len(new) - b + i]
  <2>1. TAKE i \in 1..b
  <2>2. b - i + 1 \in 1..b
    BY <1>5
  <2>3. Rest(old)[Len(old) - f - (b - i + 1) + 1] = Rest(new)[Len(new) - f - (b - i + 1) + 1]
    BY <1>5, <2>2
  <2>4. /\ Len(old) - f - (b - i + 1) + 1 \in 1..Len(old) - f
        /\ Len(new) - f - (b - i + 1) + 1 \in 1..Len(new) - f
        /\ f + (Len(old) - f - (b - i + 1) + 1) = Len(old) - b + i
        /\ f + (Len(new) - f - (b - i + 1) + 1) = Len(new) - b + i
    BY <1>1, <1>3, <1>5
  <2>5. /\ Rest(old)[Len(old) - f - (b - i + 1) + 1] = old[Len(old) - b + i]
        /\ Rest(new)[Len(new) - f - (b - i + 1) + 1] = new[Len(new) - b + i]
    <3>1. /\ \A j \in 1..Len(old) - f : Rest(old)[j] = old[f + j]
          /\ \A j \in 1..Len(new) - f : Rest(new)[j] = new[f + j]
      BY <1>1, <1>4
    <3> HIDE DEF Rest
    <3>2. /\ Rest(old)[Len(old) - f - (b - i + 1) + 1]
               = old[f + (Len(old) - f - (b - i + 1) + 1)]
          /\ Rest(new)[Len(new) - f - (b - i + 1) + 1]
               = new[f + (Len(new) - f - (b - i + 1) + 1)]
      BY <2>4, <3>1
    <3> QED
      BY <2>4, <3>2
  <2> QED
    BY <2>3, <2>5
<1> DEFINE Begin(s) == SubSeq(s, 1, f)
           Back(s) == SubSeq(s, Len(s) - b + 1, Len(s))
<1>7. ASSUME NEW s \in Seq(S), f + b <= Len(s)
      PROVE  /\ s = Begin(s) \o Mid(s) \o Back(s)
             /\ Begin(s) \in Seq(S) /\ Len(Begin(s)) = f
             /\ \A i \in 1..f : Begin(s)[i] = s[i]
             /\ Back(s) \in Seq(S) /\ Len(Back(s)) = b
             /\ \A i \in 1..b : Back(s)[i] = s[Len(s) - b + i]
             /\ Len(Mid(s)) = Len(s) - b - f
  <2> DEFINE k == Len(s) - b
  <2>1. /\ Len(s) \in Nat /\ k \in Nat /\ f \in Nat /\ b \in Nat /\ f <= k /\ k <= Len(s)
    BY <1>1, <1>5, <1>7
  <2>2. /\ Begin(s) \in Seq(S) /\ Len(Begin(s)) = f
        /\ \A i \in 1..f : Begin(s)[i] = s[i]
    <3>1. 1 \in 1..Len(s) + 1 /\ f \in 1 - 1..Len(s) /\ f - 1 + 1 = f
          /\ \A i \in 1..f : 1 + i - 1 = i
      BY <2>1
    <3> QED
      BY <3>1, PartIs
  <2>3. /\ Back(s) \in Seq(S) /\ Len(Back(s)) = b
        /\ \A i \in 1..b : Back(s)[i] = s[Len(s) - b + i]
    <3>1. /\ k + 1 \in 1..Len(s) + 1 /\ Len(s) \in (k + 1) - 1..Len(s)
          /\ Len(s) - (k + 1) + 1 = b
          /\ \A i \in 1..b : k + 1 + i - 1 = k + i
      BY <2>1
    <3> QED
      BY <3>1, PartIs
  <2>4. Len(Mid(s)) = Len(s) - b - f
    <3>1. /\ f + 1 \in 1..Len(s) + 1 /\ k \in (f + 1) - 1..Len(s)
          /\ k - (f + 1) + 1 = k - f
      BY <2>1
    <3> QED
      BY <3>1, PartIs
  <2>5. Begin(s) \o Mid(s) = SubSeq(s, 1, k)
    <3>1. /\ 1 \in 1..Len(s) + 1 /\ f \in 1 - 1..Len(s) /\ k \in f..Len(s)
      BY <2>1
    <3> QED
      BY <3>1, ConcatAdjacentSubSeq
  <2>6. SubSeq(s, 1, k) \o Back(s) = SubSeq(s, 1, Len(s))
    <3>1. /\ 1 \in 1..Len(s) + 1 /\ k \in 1 - 1..Len(s) /\ Len(s) \in k..Len(s)
      BY <2>1
    <3> QED
      BY <3>1, ConcatAdjacentSubSeq
  <2>7. SubSeq(s, 1, Len(s)) = s
    BY SubSeqFull
  <2> HIDE DEF Begin, Mid, Back
  <2> QED
    BY <2>2, <2>3, <2>4, <2>5, <2>6, <2>7
<1>8. f + b <= Len(old) /\ f + b <= Len(new)
  BY <1>1, <1>3, <1>5
<1>9. Begin(old) = Begin(new) /\ Back(old) = Back(new)
  <2>1. /\ Begin(old) \in Seq(S) /\ Begin(new) \in Seq(S)
        /\ Len(Begin(old)) = f /\ Len(Begin(new)) = f
        /\ \A i \in 1..f : Begin(old)[i] = old[i] /\ Begin(new)[i] = new[i]
        /\ Back(old) \in Seq(S) /\ Back(new) \in Seq(S)
        /\ Len(Back(old)) = b /\ Len(Back(new)) = b
        /\ \A i \in 1..b : /\ Back(old)[i] = old[Len(old) - b + i]
                           /\ Back(new)[i] = new[Len(new) - b + i]
    BY <1>7, <1>8
  <2> HIDE DEF Begin, Back
  <2>2. \A i \in 1..f : Begin(old)[i] = Begin(new)[i]
    BY <1>1, <2>1
  <2>3. \A i \in 1..b : Back(old)[i] = Back(new)[i]
    BY <1>6, <2>1
  <2> QED
    BY <2>1, <2>2, <2>3, SeqEqual
<1>10. /\ old = Begin(old) \o Mid(old) \o Back(old)
       /\ new = Begin(old) \o Mid(new) \o Back(old)
       /\ Len(Mid(old)) = Len(old) - b - f
  BY <1>7, <1>8, <1>9
<1>11. CASE Mid(old) = <<>> /\ Mid(new) = <<>>
  <2>1. Apply(diff_tokens(old, new), old) = old
    BY <1>2, <1>11 DEF Apply
  <2> HIDE DEF Begin, Mid, Back
  <2> QED
    BY <1>10, <1>11, <2>1
<1>12. CASE ~ (Mid(old) = <<>> /\ Mid(new) = <<>>)
  <2> DEFINE e == [start |-> 5 * f, deleteCount |-> 5 * Len(Mid(old)), data |-> Mid(new)]
  <2>1. diff_tokens(old, new) = <<e>>
    BY <1>2, <1>12
  <2>2. e.start = 5 * f /\ e.deleteCount = 5 * Len(Mid(old)) /\ e.data = Mid(new)
    OBVIOUS
  <2> HIDE DEF e
  <2>3. Apply(<<e>>, old) = SubSeq(old, 1, e.start \div 5) \o e.data
             \o SubSeq(old, (e.start + e.deleteCount) \div 5 + 1, Len(old))
    BY DEF Apply
  <2> HIDE DEF Mid
  <2>4. e.start \div 5 = f
    BY <1>1, <2>2, FiveTimes
  <2>5. (e.start + e.deleteCount) \div 5 = Len(old) - b
    <3>1. Len(old) - b \in Nat
      BY <1>1, <1>3, <1>5
    <3>2. e.start + e.deleteCount = 5 * (Len(old) - b)
      BY <1>1, <1>3, <1>5, <1>10, <2>2
    <3> QED
      BY <3>1, <3>2, FiveTimes
  <2>6. Apply(diff_tokens(old, new), old) = Begin(old) \o Mid(new) \o Back(old)
    BY <2>1, <2>2, <2>3, <2>4, <2>5
  <2> HIDE DEF Begin, Back
  <2> QED
    BY <1>10, <2>6
<1> QED
  BY <1>11, <1>12

-----------------------------------------------------------------------------
\* The tokens of two texts are sequences over one set.
LEMMA EncodedAreSeqs ==
    ASSUME NEW raw, Ranges(raw), NEW raw2, Ranges(raw2)
    PROVE  \E S : Encoded(raw) \in Seq(S) /\ Encoded(raw2) \in Seq(S)
<1>1. ASSUME NEW r, Ranges(r) PROVE \E S : Encoded(r) \in Seq(S)
  <2>1. PICK n \in Nat : Encoded(r) = [k \in 1..n |-> Encoded(r)[k]]
    BY <1>1, EncodedStarts
  <2> QED
    BY <2>1, FunctionIsSeq
<1>2. PICK S : Encoded(raw) \in Seq(S)
  BY <1>1
<1>3. PICK T : Encoded(raw2) \in Seq(T)
  BY <1>1
<1>4. Encoded(raw) \in Seq(S \cup T) /\ Encoded(raw2) \in Seq(S \cup T)
  BY <1>2, <1>3, SeqMonotonic
<1> QED
  BY <1>4

\* The number of an answer is below the counter, and tells its tokens: those
\* the editor has are those of the ranges behind its answer, and those the
\* server remembers under the same number.
TokensInv ==
    /\ counter \in Nat
    /\ tokens = [u \in Uris |-> tokens[u]] /\ held = [u \in Uris |-> held[u]]
    /\ \A u \in Uris : tokens[u] # NoTokens => tokens[u].id \in Nat /\ tokens[u].id < counter
    /\ \A u \in Uris : held[u] # NoTokens =>
          /\ held[u].id \in Nat /\ held[u].id < counter
          /\ Ranges(held[u].shows) /\ held[u].data = Encoded(held[u].shows)
    /\ \A u \in Uris :
          tokens[u] # NoTokens /\ held[u] # NoTokens /\ tokens[u].id = held[u].id =>
             tokens[u].data = held[u].data

\* An answer that brings the tokens of its ranges preserves it, whether the
\* editor takes it or drops it.
LEMMA AnswerKeepsTokens ==
    ASSUME TokensInv, NEW u \in Uris, NEW raw, Ranges(raw), Answers(u, raw, Encoded(raw))
    PROVE  TokensInv'
<1> DEFINE answered == [id |-> counter, data |-> Encoded(raw)]
           taken == [id |-> counter, data |-> Encoded(raw), shows |-> raw]
<1>1. /\ counter \in Nat
      /\ tokens = [v \in Uris |-> tokens[v]] /\ held = [v \in Uris |-> held[v]]
  BY DEF TokensInv
<1>2. /\ tokens' = [tokens EXCEPT ![u] = answered] /\ counter' = counter + 1
      /\ held' = [held EXCEPT ![u] = taken] \/ held' = held
  BY DEF Answers
<1>3. /\ answered.id = counter /\ answered.data = Encoded(raw)
      /\ taken.id = counter /\ taken.data = Encoded(raw) /\ taken.shows = raw
  OBVIOUS
<1> HIDE DEF answered, taken
<1>4. /\ tokens' = [v \in Uris |-> tokens'[v]] /\ held' = [v \in Uris |-> held'[v]]
      /\ \A v \in Uris : tokens'[v] = IF v = u THEN answered ELSE tokens[v]
      /\ \A v \in Uris : held'[v] = held[v] \/ (v = u /\ held'[v] = taken)
  BY <1>1, <1>2
<1>5. ASSUME NEW v \in Uris, tokens'[v] # NoTokens
      PROVE  tokens'[v].id \in Nat /\ tokens'[v].id < counter'
  BY <1>1, <1>2, <1>3, <1>4, <1>5 DEF TokensInv
<1>6. ASSUME NEW v \in Uris, held'[v] # NoTokens
      PROVE  /\ held'[v].id \in Nat /\ held'[v].id < counter'
             /\ Ranges(held'[v].shows) /\ held'[v].data = Encoded(held'[v].shows)
  <2>1. CASE held'[v] = held[v]
    BY <1>1, <1>2, <1>6, <2>1 DEF TokensInv
  <2>2. CASE held'[v] = taken
    BY <1>1, <1>2, <1>3, <2>2
  <2> QED
    BY <1>4, <2>1, <2>2
<1>7. ASSUME NEW v \in Uris, tokens'[v] # NoTokens, held'[v] # NoTokens,
             tokens'[v].id = held'[v].id
      PROVE  tokens'[v].data = held'[v].data
  <2>1. CASE v # u
    BY <1>4, <1>7, <2>1 DEF TokensInv
  <2>2. CASE v = u /\ held'[v] = taken
    BY <1>3, <1>4, <2>2
  <2>3. CASE v = u /\ held'[v] = held[v]
    <3>1. held[v].id \in Nat /\ held[v].id < counter
      BY <1>7, <2>3 DEF TokensInv
    <3> QED
      BY <1>1, <1>3, <1>4, <1>7, <2>3, <3>1
  <2> QED
    BY <1>4, <2>1, <2>2, <2>3
<1> QED
  BY <1>1, <1>2, <1>4, <1>5, <1>6, <1>7 DEF TokensInv

\* The ranges found in a text of the file system.
LEMMA ColouringsAreRanges ==
    ASSUME TypeOK, NEW u \in Uris, files[u] # NoFile, NEW raw \in Colourings[files[u].text]
    PROVE  Ranges(raw)
<1>1. files[u].text \in Text
  BY EntryFacts DEF TypeOK
<1> QED
  BY <1>1, ColouringsAssumption

(* No tokens were given at the start, ...                                      *)
LEMMA TokensInit == InitTokens => TokensInv
  BY DEF InitTokens, TokensInv

\* ... and each request, close and edit leaves the editor with the tokens of its
\* last answer.
LEMMA TokensNext == TypeOK /\ TokensInv /\ [NextTokens]_allVars => TokensInv'
<1> SUFFICES ASSUME TypeOK, TokensInv, [NextTokens]_allVars
             PROVE  TokensInv'
  OBVIOUS
<1>1. ASSUME UNCHANGED tokenVars
      PROVE  TokensInv'
  BY <1>1 DEF tokenVars, TokensInv
<1>2. ASSUME NEW u \in Uris, handle_did_close(u)
      PROVE  TokensInv'
  <2>1. tokens' = [tokens EXCEPT ![u] = NoTokens] /\ UNCHANGED <<counter, held>>
    BY <1>2 DEF handle_did_close
  <2>2. /\ tokens' = [v \in Uris |-> tokens'[v]]
        /\ \A v \in Uris : tokens'[v] = NoTokens \/ tokens'[v] = tokens[v]
    BY <2>1 DEF TokensInv
  <2> QED
    BY <2>1, <2>2 DEF TokensInv
<1>3. ASSUME NEW u \in Uris, semantic_tokens_range(u)
      PROVE  TokensInv'
  <2>1. counter' = counter + 1 /\ UNCHANGED <<tokens, held>>
    BY <1>3 DEF semantic_tokens_range
  <2>2. counter \in Nat /\ counter' \in Nat /\ \A k \in Nat : k < counter => k < counter'
    BY <2>1 DEF TokensInv
  <2> QED
    BY <2>1, <2>2 DEF TokensInv
<1>4. ASSUME NEW u \in Uris, files[u] # NoFile, NEW raw \in Colourings[files[u].text],
             semantic_tokens_full(u, raw)
      PROVE  TokensInv'
  BY <1>4, ColouringsAreRanges, AnswerKeepsTokens DEF semantic_tokens_full
<1>5. ASSUME NEW u \in Uris, files[u] # NoFile, NEW raw \in Colourings[files[u].text],
             semantic_tokens_full_delta(u, raw)
      PROVE  TokensInv'
  <2>1. Ranges(raw)
    BY <1>5, ColouringsAreRanges
  <2>2. CASE tokens[u] # NoTokens /\ tokens[u].id = held[u].id
    <3>1. /\ held[u] # NoTokens
          /\ Answers(u, raw, Apply(diff_tokens(tokens[u].data, Encoded(raw)), held[u].data))
      BY <1>5, <2>2 DEF semantic_tokens_full_delta
    <3>2. /\ tokens[u].data = held[u].data
          /\ Ranges(held[u].shows) /\ held[u].data = Encoded(held[u].shows)
      BY <2>2, <3>1 DEF TokensInv
    <3>3. PICK S : held[u].data \in Seq(S) /\ Encoded(raw) \in Seq(S)
      BY <2>1, <3>2, EncodedAreSeqs
    <3>4. Apply(diff_tokens(tokens[u].data, Encoded(raw)), held[u].data) = Encoded(raw)
      BY <3>2, <3>3, DeltaGivesTheNew
    <3> QED
      BY <2>1, <3>1, <3>4, AnswerKeepsTokens
  <2>3. CASE ~ (tokens[u] # NoTokens /\ tokens[u].id = held[u].id)
    <3>1. Answers(u, raw, Encoded(raw))
      BY <1>5, <2>3 DEF semantic_tokens_full_delta
    <3> QED
      BY <2>1, <3>1, AnswerKeepsTokens
  <2> QED
    BY <2>2, <2>3
<1>6. CASE UNCHANGED allVars
  BY <1>1, <1>6 DEF allVars
<1> QED
  BY <1>1, <1>2, <1>3, <1>4, <1>5, <1>6 DEF NextTokens

\* What is asked about tokens does not disturb the file system.
LEMMA TokensStepIsVfsStep == [NextTokens]_allVars => [Next]_vars
<1> SUFFICES ASSUME [NextTokens]_allVars
             PROVE  [Next]_vars
  OBVIOUS
<1>1. CASE UNCHANGED allVars
  BY <1>1 DEF allVars
<1>2. CASE NextTokens
  <2>1. PICK u \in Uris :
          \/ handle_did_close(u)
          \/ read(u) \/ update_fs(u) \/ DiskChanges(u)
          \/ \E t \in Text : did_open(u, t) \/ did_change(u, t)
          \/ semantic_tokens_range(u)
          \/ \E raw \in Colourings[files[u].text] :
                semantic_tokens_full(u, raw) \/ semantic_tokens_full_delta(u, raw)
    BY <1>2 DEF NextTokens
  <2>2. handle_did_close(u) => did_close(u)
    BY DEF handle_did_close
  <2>3. semantic_tokens_range(u) => UNCHANGED vars
    BY DEF semantic_tokens_range
  <2>4. \A raw : semantic_tokens_full(u, raw) \/ semantic_tokens_full_delta(u, raw)
                    => UNCHANGED vars
    BY DEF semantic_tokens_full, semantic_tokens_full_delta, Answers
  <2> QED
    BY <2>1, <2>2, <2>3, <2>4 DEF Next
<1> QED
  BY <1>1, <1>2

\* Whatever was asked, answered, dropped, closed and reopened, the tokens an
\* editor has paint what the ranges behind its last answer call for
\* (SemanticTokensState::finish, handle_semantic_tokens_full_delta).
THEOREM EditorsPaintTheAnswer == TokensSpec => []HeldTokensPaintTheAnswer
<1>1. Init /\ InitTokens => IInv /\ TokensInv
  BY InvInit, TokensInit
<1>2. IInv /\ TokensInv /\ [NextTokens]_allVars => (IInv /\ TokensInv)'
  <2>1. IInv => TypeOK
    BY DEF IInv
  <2> QED
    BY <2>1, InvNext, TokensNext, TokensStepIsVfsStep
<1>3. IInv /\ TokensInv => HeldTokensPaintTheAnswer
  BY EncodedPaints DEF TokensInv, HeldTokensPaintTheAnswer
<1> QED
  BY <1>1, <1>2, <1>3, PTL DEF TokensSpec

\* No token an editor has starts before the one before it has ended, so that no
\* difference of positions wraps (the debug_assert of SemanticTokensState::finish).
THEOREM EditorsTokensAdvance == TokensSpec => []HeldTokensAdvance
<1>1. Init /\ InitTokens => IInv /\ TokensInv
  BY InvInit, TokensInit
<1>2. IInv /\ TokensInv /\ [NextTokens]_allVars => (IInv /\ TokensInv)'
  <2>1. IInv => TypeOK
    BY DEF IInv
  <2> QED
    BY <2>1, InvNext, TokensNext, TokensStepIsVfsStep
<1>3. IInv /\ TokensInv => HeldTokensAdvance
  <2>1. SUFFICES ASSUME TokensInv, NEW u \in Uris, held[u] # NoTokens,
                        NEW k \in 1..Len(held[u].data)
                 PROVE  Advances(held[u].data, k)
    BY DEF HeldTokensAdvance, Advances
  <2>2. Ranges(held[u].shows) /\ held[u].data = Encoded(held[u].shows)
    BY <2>1 DEF TokensInv
  <2>3. \A j \in 1..Len(Encoded(held[u].shows)) : Advances(Encoded(held[u].shows), j)
    BY <2>2, EncodedStarts
  <2> QED
    BY <2>1, <2>2, <2>3
<1> QED
  BY <1>1, <1>2, <1>3, PTL DEF TokensSpec

=============================================================================
