-------------------------- MODULE LspServer_proofs --------------------------
(***************************************************************************)
(* Two theorems about the whole language server, for every workspace, every  *)
(* environment and every bound: the notifications about a document, however  *)
(* they interleave with tasks, reads and the watcher, leave the server with  *)
(* the editor's document; and a server that stops has answered every reload  *)
(* request it took.                                                          *)
(***************************************************************************)
EXTENDS LspServer, TLAPS, SequenceTheorems

\* The i-th message of the queue q is about the document u.
About(q, i, u) ==
    /\ i \in 1..Len(q)
    /\ q[i].type \in {"open", "change", "close"}
    /\ q[i].uri = u

\* The document u that a server with the map v holds (Missing: none), and the
\* one it will hold once it has taken the first i messages of q, the last of
\* which is about u.
Held(v, u) == IF HoldsDocument(v, u) THEN v[u].text ELSE Missing

Says(q, v, i, u) ==
    IF i = 0 THEN Held(v, u)
    ELSE IF q[i].type = "close" THEN Missing ELSE q[i].text

\* Nothing between i and j changes what i says.
Lasts(q, i, j, u) ==
    /\ i = 0 \/ About(q, i, u)
    /\ \A k \in i+1..j-1 : ~About(q, k, u)

\* The i-th message of the queue q takes the document u to be open.
Presumes(q, i, u) == q[i].type \in {"change", "query"} /\ q[i].uri = u

\* What the editor has is what is said last, and neither a change nor a request
\* is the first thing said about a closed document: the server would drop the
\* one and panic at the other.
Fits(i, j, u) ==
    IF j = Len(inbox) + 1 THEN Says(inbox, vfs, i, u) = docs[u]
    ELSE Presumes(inbox, j, u) => Says(inbox, vfs, i, u) # Missing

MessagesTellTheStory ==
    \A u \in Uris : \A j \in 1..Len(inbox)+1 : \A i \in 0..j-1 :
        Lasts(inbox, i, j, u) => Fits(i, j, u)

DocTypes ==
    /\ disk \in Disk /\ docs \in Disk
    /\ vfs \in [Uris -> Entry]
    /\ \E T : inbox \in Seq(T)
    /\ \A i \in 1..Len(inbox) : \A u \in Uris :
          About(inbox, i, u) => inbox[i].type = "close" \/ inbox[i].text \in Text

IInv == DocTypes /\ MessagesTellTheStory

-----------------------------------------------------------------------------
\* The three kinds of entry, and what distinguishes them.
LEMMA EntryFacts ==
    /\ NoFile \in Entry /\ NoFile.kind = "none"
    /\ \A t : Fs(t).kind = "fs" /\ Lsp(t).kind = "lsp" /\ Lsp(t).text = t
    /\ \A t \in Text : Fs(t) \in Entry /\ Lsp(t) \in Entry
    /\ \A e \in Entry : \/ e = NoFile
                        \/ \E t \in Text : e = Fs(t)
                        \/ \E t \in Text : e = Lsp(t)
  BY DEF Entry, NoFile, Fs, Lsp

\* Reading leaves every document alone.
LEMMA ReadsKeepDocuments ==
    ASSUME NEW d \in Disk, NEW v \in [Uris -> Entry], NEW S
    PROVE  /\ ReadAll(v, d, S) \in [Uris -> Entry]
           /\ \A u \in Uris : Held(ReadAll(v, d, S), u) = Held(v, u)
  <1>1. \A u \in Uris : /\ v[u] \in Entry
                        /\ d[u] # Missing => d[u] \in Text
    BY DEF Disk
  <1>2. \A u \in Uris : ReadAll(v, d, S)[u] =
            IF u \in S /\ v[u] = NoFile /\ d[u] # Missing THEN Fs(d[u]) ELSE v[u]
    BY DEF ReadAll
  <1>3. ReadAll(v, d, S) \in [Uris -> Entry]
    BY <1>1, EntryFacts DEF ReadAll
  <1> QED  BY <1>1, <1>2, <1>3, EntryFacts DEF Held, HoldsDocument

\* The server's own work: no message is taken and no document changes.
LEMMA Works ==
    ASSUME IInv, UNCHANGED <<docs, inbox>>, disk' \in Disk, vfs' \in [Uris -> Entry],
           \A u \in Uris : Held(vfs', u) = Held(vfs, u)
    PROVE  IInv'
  <1>1. \A i : \A u \in Uris : Says(inbox', vfs', i, u) = Says(inbox, vfs, i, u)
    BY DEF Says
  <1>2. DocTypes'
    BY DEF IInv, DocTypes
  <1>3. MessagesTellTheStory'
    BY <1>1 DEF IInv, MessagesTellTheStory, Fits
  <1> QED  BY <1>2, <1>3 DEF IInv

\* A message is taken: the document becomes what the message says, and the
\* others stay as they are.
LEMMA Arrives ==
    ASSUME IInv, inbox # <<>>, inbox' = Tail(inbox), UNCHANGED <<docs, disk>>,
           vfs' \in [Uris -> Entry],
           \A u \in Uris : Held(vfs', u) = IF About(inbox, 1, u)
                                           THEN Says(inbox, vfs, 1, u)
                                           ELSE Held(vfs, u)
    PROVE  IInv'
  <1>1. PICK T : inbox \in Seq(T)
    BY DEF IInv, DocTypes
  <1>P. /\ inbox' \in Seq(T) /\ Len(inbox) \in Nat \ {0} /\ Len(inbox') = Len(inbox) - 1
        /\ \A i \in 1..Len(inbox') : inbox'[i] = inbox[i+1]
    BY <1>1, HeadTailProperties, EmptySeq, LenProperties
  <1>2. PICK n \in Nat \ {0} :
            /\ Len(inbox) = n /\ Len(inbox') = n - 1
            /\ \A i \in 1..n-1 : inbox'[i] = inbox[i+1]
    BY <1>P
  <1>3. \A i \in Nat \ {0} : \A u : About(inbox', i, u) <=> About(inbox, i+1, u)
    BY <1>2 DEF About
  <1>4. ASSUME NEW u \in Uris, NEW j \in 1..n, NEW i \in 0..j-1,
               Lasts(inbox', i, j, u)
        PROVE  Fits(i, j, u)'
    <2> DEFINE old == IF i = 0 /\ ~About(inbox, 1, u) THEN 0 ELSE i + 1
    <2>1. \A k \in i+2..j : ~About(inbox, k, u)
      <3> SUFFICES ASSUME NEW k \in i+2..j PROVE ~About(inbox, k, u)
        OBVIOUS
      <3>1. k-1 \in i+1..j-1 /\ (k-1)+1 = k /\ k-1 \in Nat \ {0}
        BY <1>2
      <3>2. ~About(inbox', k-1, u)
        BY <1>4, <3>1 DEF Lasts
      <3> QED  BY <1>3, <3>1, <3>2
    <2>2. /\ old \in 0..(j+1)-1 /\ Lasts(inbox, old, j+1, u)
          /\ Says(inbox', vfs', i, u) = Says(inbox, vfs, old, u)
      <3>1. CASE i = 0 /\ ~About(inbox, 1, u)
        <4>1. \A k \in 1..j : ~About(inbox, k, u)
          BY <2>1, <3>1
        <4> QED  BY <3>1, <4>1, <1>2 DEF Lasts, Says
      <3>2. CASE i = 0 /\ About(inbox, 1, u)
        <4>1. Says(inbox', vfs', 0, u) = Says(inbox, vfs, 1, u)
          BY <3>2 DEF Says
        <4> QED  BY <2>1, <3>2, <4>1, <1>2 DEF Lasts
      <3>3. CASE i # 0
        <4>1. i \in Nat \ {0} /\ i \in 1..n-1 /\ i + 1 # 0 /\ old = i + 1
          BY <1>2, <3>3
        <4>2. About(inbox, i+1, u)
          BY <1>3, <1>4, <4>1 DEF Lasts
        <4>3. Says(inbox', vfs', i, u) = Says(inbox, vfs, i+1, u)
          BY <1>2, <4>1 DEF Says
        <4>4. i + 1 \in 0..(j+1)-1 /\ \A k \in (i+1)+1..(j+1)-1 : ~About(inbox, k, u)
          BY <1>2, <2>1
        <4> QED  BY <4>1, <4>2, <4>3, <4>4 DEF Lasts
      <3> QED  BY <3>1, <3>2, <3>3
    <2> HIDE DEF old
    <2>3. j+1 \in 1..Len(inbox)+1
      BY <1>2
    <2>4. Fits(old, j+1, u)
      BY <2>2, <2>3 DEF IInv, MessagesTellTheStory
    <2>5. /\ j = Len(inbox') + 1 <=> j + 1 = Len(inbox) + 1
          /\ j # Len(inbox') + 1 => inbox'[j] = inbox[j+1]
          /\ j # Len(inbox') + 1 => (Presumes(inbox', j, u) <=> Presumes(inbox, j+1, u))
      <3>1. j \in Nat \ {0} /\ (j # n => j \in 1..n-1)
        OBVIOUS
      <3>2. j = Len(inbox') + 1 <=> j = n
        BY <1>2
      <3> QED  BY <1>2, <3>1, <3>2 DEF Presumes
    <2> QED  BY <2>2, <2>4, <2>5 DEF Fits
  <1>5. DocTypes'
    <2>1. \A i \in 1..Len(inbox') : \A u \in Uris : About(inbox', i, u) =>
             inbox'[i].type = "close" \/ inbox'[i].text \in Text
      BY <1>2, <1>3 DEF IInv, DocTypes
    <2> QED  BY <1>P, <2>1 DEF IInv, DocTypes
  <1>6. 1..Len(inbox')+1 = 1..n
    BY <1>2
  <1> QED  BY <1>4, <1>5, <1>6 DEF IInv, MessagesTellTheStory

\* A message is sent: about a document, it says what the editor now has; else
\* the editor's documents stay as they are.
LEMMA Sent ==
    ASSUME IInv, NEW m, inbox' = Append(inbox, m), vfs' = vfs,
           disk' \in Disk, docs' \in Disk,
           \A u \in Uris :
               /\ IF m.type \in {"open", "change", "close"} /\ m.uri = u
                  THEN /\ docs'[u] = IF m.type = "close" THEN Missing ELSE m.text
                       /\ m.type = "close" \/ m.text \in Text
                  ELSE docs'[u] = docs[u]
               /\ (m.type \in {"change", "query"} /\ m.uri = u) => docs[u] # Missing
    PROVE  IInv'
  <1>1. PICK T : inbox \in Seq(T)
    BY DEF IInv, DocTypes
  <1> DEFINE n == Len(inbox)
             AboutM(u) == m.type \in {"open", "change", "close"} /\ m.uri = u
  <1>2. /\ inbox' \in Seq(T \cup {m}) /\ n \in Nat /\ Len(inbox') = n + 1
        /\ \A i \in 1..n : inbox'[i] = inbox[i]
        /\ inbox'[n+1] = m
    BY <1>1
  <1>3. /\ \A i \in 1..n : \A u : About(inbox', i, u) <=> About(inbox, i, u)
        /\ \A u : About(inbox', n+1, u) <=> AboutM(u)
    BY <1>2 DEF About
  <1>4. \A i \in 0..n : \A u : Says(inbox', vfs', i, u) = Says(inbox, vfs, i, u)
    BY <1>2 DEF Says
  <1>5. ASSUME NEW u \in Uris, NEW j \in 1..n+1, NEW i \in 0..j-1,
               Lasts(inbox', i, j, u)
        PROVE  Lasts(inbox, i, j, u) /\ Fits(i, j, u)
    <2>1. i = 0 \/ About(inbox, i, u)
      <3>1. i # 0 => i \in 1..n
        BY <1>2
      <3> QED  BY <1>3, <1>5, <3>1 DEF Lasts
    <2>2. ASSUME NEW k \in i+1..j-1 PROVE ~About(inbox, k, u)
      <3>1. k \in 1..n
        BY <1>2
      <3> QED  BY <1>3, <1>5, <3>1 DEF Lasts
    <2>3. Lasts(inbox, i, j, u)
      BY <2>1, <2>2 DEF Lasts
    <2> QED  BY <2>3 DEF IInv, MessagesTellTheStory
  <1>6. ASSUME NEW u \in Uris, NEW j \in 1..Len(inbox')+1, NEW i \in 0..j-1,
               Lasts(inbox', i, j, u)
        PROVE  Fits(i, j, u)'
    <2>1. CASE j \in 1..n
      <3>1. j # n + 1 /\ j # Len(inbox') + 1 /\ j \in 1..n+1 /\ i \in 0..n
        BY <1>2, <2>1
      <3>2. Fits(i, j, u)
        BY <1>5, <1>6, <3>1
      <3> QED  BY <1>2, <1>4, <2>1, <3>1, <3>2 DEF Fits, Presumes
    <2>2. CASE j = n + 1
      <3>1. j # Len(inbox') + 1 /\ j \in 1..n+1 /\ i \in 0..n
        BY <1>2, <2>2
      <3>2. Says(inbox, vfs, i, u) = docs[u]
        BY <1>5, <1>6, <2>2, <3>1 DEF Fits
      <3>3. Says(inbox', vfs', i, u) = docs[u]
        BY <1>4, <3>1, <3>2
      <3>4. Presumes(inbox', j, u) => docs[u] # Missing
        BY <1>2, <2>2 DEF Presumes
      <3> QED  BY <3>1, <3>3, <3>4 DEF Fits
    <2>3. CASE j = n + 2 /\ i = n + 1
      <3>1. AboutM(u) /\ i # 0
        BY <1>2, <1>3, <1>6, <2>3 DEF Lasts
      <3>2. Says(inbox', vfs', i, u) = docs'[u]
        BY <1>2, <2>3, <3>1 DEF Says
      <3> QED  BY <1>2, <2>3, <3>2 DEF Fits
    <2>4. CASE j = n + 2 /\ i \in 0..n
      <3>1. ~About(inbox', n+1, u)
        <4>1. n + 1 \in i+1..j-1
          BY <1>2, <2>4
        <4> QED  BY <1>6, <4>1 DEF Lasts
      <3>2. docs'[u] = docs[u]
        BY <1>3, <3>1
      <3>3. Lasts(inbox', i, n+1, u)
        <4>1. \A k \in i+1..(n+1)-1 : k \in i+1..j-1
          BY <1>2, <2>4
        <4> QED  BY <1>6, <4>1 DEF Lasts
      <3>4. n + 1 \in 1..n+1 /\ i \in 0..(n+1)-1
        BY <1>2, <2>4
      <3>5. Fits(i, n+1, u)
        BY <1>5, <3>3, <3>4
      <3>6. Says(inbox', vfs', i, u) = docs'[u]
        BY <1>4, <2>4, <3>2, <3>5 DEF Fits
      <3>7. j = Len(inbox') + 1
        BY <1>2, <2>4
      <3> QED  BY <3>6, <3>7 DEF Fits
    <2>5. j \in 1..n \/ j = n + 1 \/ (j = n + 2 /\ (i = n + 1 \/ i \in 0..n))
      BY <1>2
    <2> QED  BY <2>1, <2>2, <2>3, <2>4, <2>5
  <1>7. DocTypes'
    <2>1. ASSUME NEW i \in 1..Len(inbox'), NEW u \in Uris, About(inbox', i, u)
          PROVE  inbox'[i].type = "close" \/ inbox'[i].text \in Text
      <3>1. CASE i \in 1..n
        BY <1>2, <1>3, <2>1, <3>1 DEF IInv, DocTypes
      <3>2. CASE i = n + 1
        BY <1>2, <1>3, <2>1, <3>2
      <3> QED  BY <1>2, <3>1, <3>2
    <2> QED  BY <1>2, <2>1 DEF IInv, DocTypes
  <1> QED  BY <1>6, <1>7 DEF IInv, MessagesTellTheStory

-----------------------------------------------------------------------------

(* No document is held at the start, and no message is queued.                *)
LEMMA InvInit == Init => IInv
  <1> SUFFICES ASSUME Init PROVE IInv
    OBVIOUS
  <1>1. inbox = <<>> /\ Len(inbox) = 0 /\ inbox \in Seq({})
    BY DEF Init
  <1>2. DocTypes
    BY <1>1, EntryFacts, EnvironmentAssumption DEF Init, DocTypes, Disk, EmptyVfs, About
  <1>3. \A u \in Uris : Says(inbox, vfs, 0, u) = docs[u]
    BY EntryFacts DEF Init, Says, Held, HoldsDocument, EmptyVfs
  <1> QED  BY <1>1, <1>2, <1>3 DEF IInv, MessagesTellTheStory, Fits

\* The tasks, whether they panic or not: at most files are read.
LEMMA TasksWork ==
    ASSUME IInv, ReloadWorkspace \/ LoadFullWorkspace \/ LoadLocsFile \/ Response
                 \/ Update \/ Reprocess \/ Analysis \/ AnalysisTimer
    PROVE  IInv'
  <1>1. UNCHANGED <<disk, docs, inbox>>
    BY DEF ReloadWorkspace, LoadFullWorkspace, LoadLocsFile, Load, Response, Update,
           Reprocess, ReprocessUnit, Analysis, AnalysisTimer, Analyse, Panic, world
  <1>2. vfs' = vfs \/ \E S : vfs' = ReadAll(vfs, disk, S)
    <2>1. ASSUME NEW kind, NEW roots, NEW m, NEW released, NEW loose, NEW read,
                 Load(kind, roots, m, released, loose, read)
          PROVE  \E S : vfs' = ReadAll(vfs, disk, S)
      BY <2>1 DEF Load
    <2>2. CASE LoadFullWorkspace
      BY <2>1, <2>2 DEF LoadFullWorkspace
    <2>3. CASE LoadLocsFile
      BY <2>1, <2>3 DEF LoadLocsFile
    <2>4. CASE Reprocess
      <3>1. (\E h : ReprocessUnit(h)) \/ Panic("task")
        BY <2>4 DEF Reprocess
      <3>2. ASSUME NEW h, ReprocessUnit(h)
            PROVE  vfs' = vfs \/ \E S : vfs' = ReadAll(vfs, disk, S)
        BY <3>2 DEF ReprocessUnit
      <3> QED  BY <3>1, <3>2 DEF Panic
    <2>5. CASE ReloadWorkspace \/ Response \/ Update \/ Analysis \/ AnalysisTimer
      BY <2>5 DEF ReloadWorkspace, Response, Update, Analysis, AnalysisTimer, Analyse, Panic
    <2> QED  BY <2>2, <2>3, <2>4, <2>5
  <1>3. disk \in Disk /\ vfs \in [Uris -> Entry]
    BY DEF IInv, DocTypes
  <1> QED  BY <1>1, <1>2, <1>3, ReadsKeepDocuments, Works

\* The handlers of the notifications about documents.
LEMMA DocumentsArrive ==
    ASSUME IInv, \/ handle_did_open_text_document \/ handle_did_change_text_document
                 \/ handle_did_close_text_document
    PROVE  IInv'
  <1> DEFINE msg == Head(inbox)
             x   == msg.uri
  <1>1. inbox # <<>> /\ inbox' = Tail(inbox) /\ UNCHANGED <<docs, disk>>
    BY DEF handle_did_open_text_document, handle_did_change_text_document,
           handle_did_close_text_document, Receives, world
  <1>2. msg = inbox[1] /\ 1 \in 1..Len(inbox)
    BY <1>1, EmptySeq, LenProperties DEF IInv, DocTypes
  <1>3. \A u : About(inbox, 1, u) <=>
               msg.type \in {"open", "change", "close"} /\ x = u
    BY <1>2 DEF About
  <1>4. vfs \in [Uris -> Entry] /\ disk \in Disk
    BY DEF IInv, DocTypes
  <1>5. (x \in Uris /\ msg.type \in {"open", "change"}) => msg.text \in Text
    BY <1>2, <1>3 DEF IInv, DocTypes
  <1>6. \A u \in Uris : About(inbox, 1, u) =>
            Says(inbox, vfs, 1, u) = IF msg.type = "close" THEN Missing ELSE msg.text
    BY <1>2 DEF Says
  <1>7. CASE handle_did_open_text_document
    <2>1. msg.type = "open" /\ vfs' = [vfs EXCEPT ![x] = Lsp(msg.text)]
      BY <1>7 DEF handle_did_open_text_document, Receives, DidOpen
    <2>2. vfs' \in [Uris -> Entry]
      BY <2>1, <1>4, <1>5, EntryFacts
    <2>3. \A u \in Uris : Held(vfs', u) = IF x = u THEN msg.text ELSE Held(vfs, u)
      BY <2>1, <1>4, EntryFacts DEF Held, HoldsDocument
    <2> QED  BY <1>1, <1>3, <1>6, <2>1, <2>2, <2>3, Arrives
  <1>8. CASE handle_did_change_text_document
    <2>1. msg.type = "change" /\ vfs' = DidChange(vfs, x, msg.text)
      BY <1>8 DEF handle_did_change_text_document, Receives
    <2>2. x \in Uris => HoldsDocument(vfs, x)
      <3> SUFFICES ASSUME x \in Uris PROVE HoldsDocument(vfs, x)
        OBVIOUS
      <3>1. Lasts(inbox, 0, 1, x) /\ About(inbox, 1, x) /\ 1 # Len(inbox) + 1
        BY <1>2, <1>3, <2>1 DEF Lasts
      <3>2. Fits(0, 1, x)
        BY <1>2, <3>1 DEF IInv, MessagesTellTheStory
      <3> QED  BY <1>2, <2>1, <3>1, <3>2 DEF Fits, Presumes, Says, Held
    <2>3. vfs' = [vfs EXCEPT ![x] = Lsp(msg.text)] \/ (x \notin Uris /\ vfs' = vfs)
      BY <2>1, <2>2 DEF DidChange
    <2>4. vfs' \in [Uris -> Entry]
      BY <2>1, <2>3, <1>4, <1>5, EntryFacts
    <2>5. \A u \in Uris : Held(vfs', u) = IF x = u THEN msg.text ELSE Held(vfs, u)
      BY <2>3, <1>4, EntryFacts DEF Held, HoldsDocument
    <2> QED  BY <1>1, <1>3, <1>6, <2>1, <2>4, <2>5, Arrives
  <1>9. CASE handle_did_close_text_document
    <2> DEFINE closed == [vfs EXCEPT ![x] = NoFile]
    <2>1. msg.type = "close" /\ vfs' = DidClose(vfs, disk, x)
      BY <1>9 DEF handle_did_close_text_document, Receives
    <2>2. closed \in [Uris -> Entry]
      BY <1>4, EntryFacts
    <2>3. \A u \in Uris : Held(closed, u) = IF x = u THEN Missing ELSE Held(vfs, u)
      BY <1>4, EntryFacts DEF Held, HoldsDocument
    <2> HIDE DEF closed
    <2>4. vfs' = IF HoldsDocument(vfs, x) THEN ReadAll(closed, disk, {x}) ELSE vfs
      BY <2>1 DEF DidClose, Read, closed
    <2>5. /\ vfs' \in [Uris -> Entry]
          /\ \A u \in Uris : Held(vfs', u) = IF x = u THEN Missing ELSE Held(vfs, u)
      BY <1>4, <2>2, <2>3, <2>4, ReadsKeepDocuments DEF Held
    <2> QED  BY <1>1, <1>3, <1>6, <2>1, <2>5, Arrives
  <1> QED  BY <1>7, <1>8, <1>9

\* The other messages: whatever the watcher reports, documents stay.
LEMMA OthersArrive ==
    ASSUME IInv, handle_did_change_watched_file \/ query \/ reload_request \/ shutdown
    PROVE  IInv'
  <1>1. CASE Panic("query") \/ Panic("node")
    BY <1>1, Works DEF Panic, world, IInv, DocTypes
  <1>2. CASE ~Panic("query") /\ ~Panic("node")
    <2>1. /\ inbox # <<>> /\ inbox' = Tail(inbox) /\ UNCHANGED <<docs, disk>>
          /\ Head(inbox).type \in {"watched", "query", "reload", "shutdown"}
      BY <1>2 DEF handle_did_change_watched_file, query, reload_request, shutdown,
                  Receives, world
    <2>2. Head(inbox) = inbox[1]
      BY <2>1 DEF IInv, DocTypes
    <2>3. \A u : ~About(inbox, 1, u)
      BY <2>1, <2>2 DEF About
    <2>4. vfs \in [Uris -> Entry] /\ disk \in Disk
      BY DEF IInv, DocTypes
    <2>5. vfs' = vfs \/ \E S : vfs' = [u \in Uris |-> IF u \in S
                                       THEN UpdateFs(vfs, disk, u)[u] ELSE vfs[u]]
      BY <1>2 DEF handle_did_change_watched_file, query, reload_request, shutdown
    <2>6. \A u \in Uris :
             /\ UpdateFs(vfs, disk, u)[u] \in Entry
             /\ Held([vfs EXCEPT ![u] = UpdateFs(vfs, disk, u)[u]], u) = Held(vfs, u)
      BY <2>4, EntryFacts DEF UpdateFs, Held, HoldsDocument, Disk
    <2>7. /\ vfs' \in [Uris -> Entry]
          /\ \A u \in Uris : Held(vfs', u) = Held(vfs, u)
      <3>1. CASE vfs' = vfs
        BY <2>4, <3>1
      <3>2. ASSUME NEW S, vfs' = [u \in Uris |-> IF u \in S
                                       THEN UpdateFs(vfs, disk, u)[u] ELSE vfs[u]]
            PROVE  /\ vfs' \in [Uris -> Entry]
                   /\ \A u \in Uris : Held(vfs', u) = Held(vfs, u)
        <4>1. \A u \in Uris : vfs'[u] = vfs[u] \/ vfs'[u] = UpdateFs(vfs, disk, u)[u]
          BY <3>2
        <4>2. \A u \in Uris : Held(vfs', u) = Held(vfs, u)
          BY <2>4, <2>6, <4>1 DEF Held, HoldsDocument
        <4> QED  BY <2>4, <2>6, <3>2, <4>2
      <3> QED  BY <2>5, <3>1, <3>2
    <2> QED  BY <2>1, <2>3, <2>7, Arrives
  <1> QED  BY <1>1, <1>2

\* The editor, its user, the disk and the watcher.
LEMMA EnvironmentActs == IInv /\ (EditorStep \/ Watcher) => IInv'
  <1> USE DEF Acts, Sends, Edits, server, units, client, loop
  <1> SUFFICES ASSUME IInv, EditorStep \/ Watcher PROVE IInv'
    OBVIOUS
  <1>T. /\ docs \in [Uris -> Text \cup {Missing}] /\ disk \in [Uris -> Text \cup {Missing}]
        /\ vfs \in [Uris -> Entry]
    BY DEF IInv, DocTypes, Disk
  <1>C. \A u \in Uris : \A t \in TextsOf[u] : t \in Text /\ t # Missing
    BY EnvironmentAssumption, UrisAssumption
  <1>1. ASSUME NEW u \in Uris, NEW t \in TextsOf[u], EditorOpens(u, t) PROVE IInv'
    <2> DEFINE m == [type |-> "open", uri |-> u, text |-> t]
    <2>1. /\ inbox' = Append(inbox, m) /\ docs' = [docs EXCEPT ![u] = t]
          /\ vfs' = vfs /\ disk' = disk
      BY <1>1 DEF EditorOpens
    <2>2. docs' \in Disk /\ disk' \in Disk
      BY <2>1, <1>T, <1>C DEF Disk
    <2>3. \A v \in Uris : IF m.uri = v THEN docs'[v] = m.text ELSE docs'[v] = docs[v]
      BY <2>1, <1>T
    <2>4. m.type = "open" /\ m.text \in Text
      BY <1>C
    <2> HIDE DEF m
    <2> QED  BY <2>1, <2>2, <2>3, <2>4, Sent
  <1>2. ASSUME NEW u \in Uris, NEW t \in TextsOf[u], EditorChanges(u, t) PROVE IInv'
    <2> DEFINE m == [type |-> "change", uri |-> u, text |-> t]
    <2>1. /\ inbox' = Append(inbox, m) /\ docs' = [docs EXCEPT ![u] = t]
          /\ vfs' = vfs /\ disk' = disk /\ docs[u] # Missing
      BY <1>2 DEF EditorChanges
    <2>2. docs' \in Disk /\ disk' \in Disk
      BY <2>1, <1>T, <1>C DEF Disk
    <2>3. \A v \in Uris : IF m.uri = v THEN docs'[v] = m.text /\ docs[v] # Missing
                                       ELSE docs'[v] = docs[v]
      BY <2>1, <1>T
    <2>4. m.type = "change" /\ m.text \in Text
      BY <1>C
    <2> HIDE DEF m
    <2> QED  BY <2>1, <2>2, <2>3, <2>4, Sent
  <1>3. ASSUME NEW u \in Uris, EditorCloses(u) PROVE IInv'
    <2> DEFINE m == [type |-> "close", uri |-> u]
    <2>1. /\ inbox' = Append(inbox, m) /\ docs' = [docs EXCEPT ![u] = Missing]
          /\ vfs' = vfs /\ disk' = disk
      BY <1>3 DEF EditorCloses
    <2>2. docs' \in Disk /\ disk' \in Disk
      BY <2>1, <1>T DEF Disk
    <2>3. \A v \in Uris : IF m.uri = v THEN docs'[v] = Missing ELSE docs'[v] = docs[v]
      BY <2>1, <1>T
    <2>4. m.type = "close"
      OBVIOUS
    <2> HIDE DEF m
    <2> QED  BY <2>1, <2>2, <2>3, <2>4, Sent
  <1>4. ASSUME NEW m, inbox' = Append(inbox, m), UNCHANGED <<docs, disk, vfs>>,
               m.type \in {"query", "reload", "shutdown", "watched"},
               m.type = "query" => \A u \in Uris : m.uri = u => docs[u] # Missing
        PROVE  IInv'
    <2>1. docs' \in Disk /\ disk' \in Disk
      BY <1>4 DEF IInv, DocTypes
    <2> QED  BY <1>4, <2>1, Sent
  <1>5. ASSUME NEW u \in Uris, EditorAsks(u) PROVE IInv'
    <2> DEFINE m == [type |-> "query", uri |-> u]
    <2>1. /\ inbox' = Append(inbox, m) /\ UNCHANGED <<docs, disk, vfs>>
          /\ docs[u] # Missing
      BY <1>5 DEF EditorAsks
    <2>2. m.type = "query" /\ m.uri = u
      OBVIOUS
    <2> HIDE DEF m
    <2> QED  BY <1>4, <2>1, <2>2
  <1>6. CASE EditorReloads
    BY <1>4, <1>6 DEF EditorReloads
  <1>7. CASE EditorShutsDown
    BY <1>4, <1>7 DEF EditorShutsDown
  <1>8. CASE Watcher
    BY <1>4, <1>8 DEF Watcher, WatcherReports
  <1>9. ASSUME UNCHANGED <<docs, inbox, vfs>>, disk' \in Disk PROVE IInv'
    BY <1>9, <1>T, Works
  <1>10. ASSUME NEW u \in Uris, NEW t \in TextsOf[u], DiskChanges(u, t) PROVE IInv'
    BY <1>9, <1>10, <1>T, <1>C DEF DiskChanges, Disk
  <1>11. ASSUME NEW u \in Uris, DiskDeletes(u) PROVE IInv'
    BY <1>9, <1>11, <1>T DEF DiskDeletes, Disk
  <1>12. ASSUME NEW c \in Configs, ConfigChanges(c) PROVE IInv'
    BY <1>9, <1>12 DEF ConfigChanges, IInv, DocTypes
  <1> QED  BY <1>1, <1>2, <1>3, <1>5, <1>6, <1>7, <1>8, <1>10, <1>11, <1>12 DEF EditorStep

(* Every step keeps the documents and the messages they came by in line.      *)
LEMMA InvNext == IInv /\ [Next]_vars => IInv'
  <1>1. ASSUME IInv, UNCHANGED vars PROVE IInv'
    BY <1>1, Works DEF vars, world, IInv, DocTypes
  <1> QED  BY <1>1, TasksWork, DocumentsArrive, OthersArrive, EnvironmentActs
           DEF Next, ServerStep

\* Once the notifications about a document have arrived, the server holds the
\* editor's text of it, or no document if the editor has closed it: no task, no
\* read, no report of the watcher, and no order of theirs, makes it lose one.
THEOREM DocumentsReachTheServer == Spec => []OpenDocumentsReachTheServer
  <1>1. IInv => OpenDocumentsReachTheServer
    <2> SUFFICES ASSUME IInv, NEW u \in Uris,
                        \A i \in 1..Len(inbox) : inbox[i].type \in {"open", "change", "close"}
                                                   => inbox[i].uri # u
                 PROVE  IF docs[u] = Missing THEN ~HoldsDocument(vfs, u)
                                             ELSE vfs[u] = Lsp(docs[u])
      BY DEF OpenDocumentsReachTheServer
    <2>1. Len(inbox) \in Nat
      BY LenProperties DEF IInv, DocTypes
    <2>2. Lasts(inbox, 0, Len(inbox) + 1, u)
      BY DEF Lasts, About
    <2>3. Fits(0, Len(inbox) + 1, u)
      BY <2>1, <2>2 DEF IInv, MessagesTellTheStory
    <2>4. Held(vfs, u) = docs[u]
      BY <2>3 DEF Fits, Says
    <2> QED  BY <2>4, EntryFacts, UrisAssumption DEF Held, HoldsDocument, IInv, DocTypes
  <1> QED  BY <1>1, InvInit, InvNext, PTL DEF Spec

-----------------------------------------------------------------------------
\* What a reload request leads to: the tasks that are in the queue with an
\* answer that is still to be given.  Update and Reprocess are none of them.
ReloadTask ==
    [type : {"ReloadWorkspace", "LoadLocsFile", "LoadFullWorkspace", "Analysis", "Response"},
     arg : Nat, reply : Nat]

Owed(q, id) ==
    \E i \in 1..Len(q) : q[i].reply = id \/ (q[i].type = "Response" /\ q[i].arg = id)

RequestTypes ==
    /\ config \in Configs /\ events \in Nat
    /\ \E T : inbox \in Seq(T)
    /\ \A i \in 1..Len(inbox) : inbox[i].type = "reload" => inbox[i].id \in Nat \ {NoReply}

DebtsAreQueued ==
    /\ incoming \subseteq Nat \ {NoReply}
    /\ incoming # {} => /\ tasks \in Seq(ReloadTask)
                        /\ \A id \in incoming : Owed(tasks, id)
    /\ status = "stopped" => incoming = {}

Debts == RequestTypes /\ DebtsAreQueued

\* A task that leaves the requests alone, or answers the one it is the answer
\* to, passes on what it owes.
LEMMA TaskPassesOn ==
    ASSUME DebtsAreQueued, tasks # <<>>, NEW more \in Seq(ReloadTask), Requeue(more),
           incoming' \subseteq incoming, status' = status,
           Head(tasks).type = "Response" => Head(tasks).arg \notin incoming'
    PROVE  DebtsAreQueued'
  <1>1. CASE incoming' = {}
    BY <1>1 DEF DebtsAreQueued
  <1>2. CASE incoming' # {}
    <2> DEFINE t == Head(tasks)
               answer == IF t.reply = NoReply THEN <<>> ELSE <<Task("Response", t.reply)>>
               front == Tail(tasks) \o more
    <2>1. tasks \in Seq(ReloadTask) /\ incoming \subseteq Nat \ {NoReply}
      BY <1>2 DEF DebtsAreQueued
    <2>2. /\ Tail(tasks) \in Seq(ReloadTask) /\ Len(tasks) \in Nat \ {0}
          /\ Len(Tail(tasks)) = Len(tasks) - 1
          /\ \A i \in 1..Len(tasks) - 1 : Tail(tasks)[i] = tasks[i + 1]
          /\ t = tasks[1] /\ t \in ReloadTask
      BY <2>1, EmptySeq, LenProperties, HeadTailProperties, ElementOfSeq
    <2>3. answer \in Seq(ReloadTask)
      <3>1. Task("Response", t.reply) \in ReloadTask
        BY <2>2 DEF Task, ReloadTask, NoReply
      <3> HIDE DEF t
      <3>2. <<Task("Response", t.reply)>> \in Seq(ReloadTask)
        BY <3>1
      <3> QED  BY <3>2, EmptySeq
    <2>4. /\ front \in Seq(ReloadTask) /\ Len(front) = Len(Tail(tasks)) + Len(more)
          /\ \A i \in 1..Len(Tail(tasks)) : front[i] = Tail(tasks)[i]
      BY <2>2, ConcatProperties
    <2>5. tasks' = front \o answer
      BY DEF Requeue
    <2>6. Len(more) \in Nat
      BY LenProperties
    <2> HIDE DEF answer, front
    <2>7. /\ tasks' \in Seq(ReloadTask) /\ Len(tasks') = Len(front) + Len(answer)
          /\ \A i \in 1..Len(front) : tasks'[i] = front[i]
          /\ \A i \in Len(front) + 1 .. Len(front) + Len(answer) :
                tasks'[i] = answer[i - Len(front)]
      <3> DEFINE all == front \o answer
      <3>1. /\ all \in Seq(ReloadTask) /\ Len(all) = Len(front) + Len(answer)
            /\ \A i \in 1..Len(front) : all[i] = front[i]
            /\ \A i \in Len(front) + 1 .. Len(front) + Len(answer) :
                  all[i] = answer[i - Len(front)]
        <4>1. /\ all \in Seq(ReloadTask) /\ Len(all) = Len(front) + Len(answer)
              /\ \A i \in 1..Len(front) + Len(answer) :
                    all[i] = IF i <= Len(front) THEN front[i] ELSE answer[i - Len(front)]
          BY <2>3, <2>4, ConcatProperties
        <4>2. Len(front) \in Nat /\ Len(answer) \in Nat
          BY <2>3, <2>4, LenProperties
        <4> HIDE DEF all
        <4> QED  BY <4>1, <4>2
      <3>2. tasks' = all
        BY <2>5
      <3> HIDE DEF all
      <3> QED  BY <3>1, <3>2
    <2>8. Len(front) \in Nat /\ Len(answer) \in Nat
      BY <2>3, <2>4, LenProperties
    <2>9. ASSUME NEW id \in incoming' PROVE Owed(tasks', id)
      <3>1. id \in Nat \ {NoReply}
        BY <2>1
      <3>2. PICK i \in 1..Len(tasks) :
               tasks[i].reply = id \/ (tasks[i].type = "Response" /\ tasks[i].arg = id)
        BY <1>2 DEF DebtsAreQueued, Owed
      <3>3. CASE i = 1
        <4>1. t.reply = id
          BY <2>2, <3>2, <3>3
        <4>2. answer = <<Task("Response", id)>>
          BY <3>1, <4>1 DEF answer
        <4>3. Len(answer) = 1 /\ answer[1] = Task("Response", id)
          BY <4>2
        <4>4. tasks'[Len(front) + 1] = Task("Response", id) /\ Len(front) + 1 \in 1..Len(tasks')
          BY <2>7, <2>8, <4>3
        <4> QED  BY <4>4 DEF Owed, Task
      <3>4. CASE i # 1
        <4>1. i - 1 \in 1..Len(Tail(tasks)) /\ Tail(tasks)[i - 1] = tasks[i]
          BY <2>2, <3>4
        <4>2. i - 1 \in 1..Len(tasks') /\ i - 1 \in 1..Len(front)
          BY <2>2, <2>4, <2>6, <2>7, <2>8, <4>1
        <4>3. tasks'[i - 1] = tasks[i]
          BY <2>4, <2>7, <4>1, <4>2
        <4> QED  BY <3>2, <4>2, <4>3 DEF Owed
      <3> QED  BY <3>3, <3>4
    <2> QED  BY <1>2, <2>1, <2>7, <2>9 DEF DebtsAreQueued
  <1> QED  BY <1>1, <1>2

\* Where nothing is owed, and nothing new comes to be, the queue does not matter.
LEMMA NothingOwed ==
    ASSUME incoming' = {} PROVE DebtsAreQueued'
  BY DEF DebtsAreQueued

\* Nothing is owed when the queue is empty, or its head is not of a reload.
LEMMA OwesNothing ==
    ASSUME DebtsAreQueued, tasks = <<>> \/ RunsTask("Update") \/ RunsTask("Reprocess")
    PROVE  incoming = {}
  <1> SUFFICES ASSUME incoming # {} PROVE FALSE
    OBVIOUS
  <1>1. tasks \in Seq(ReloadTask) /\ \E id \in incoming : Owed(tasks, id)
    BY DEF DebtsAreQueued
  <1>2. tasks # <<>>
    BY <1>1, EmptySeq DEF Owed
  <1>3. Head(tasks) \in ReloadTask
    BY <1>1, <1>2, HeadTailProperties
  <1> QED  BY <1>2, <1>3 DEF RunsTask, ReloadTask

(* A task answers what it owes, or leaves it to another task.                 *)
LEMMA TasksPassOn ==
    ASSUME RequestTypes, DebtsAreQueued,
           ReloadWorkspace \/ LoadFullWorkspace \/ LoadLocsFile \/ Response
           \/ Update \/ Reprocess \/ Analysis \/ AnalysisTimer
    PROVE  DebtsAreQueued'
  <1>1. <<>> \in Seq(ReloadTask)
    BY EmptySeq
  <1>2. ASSUME NEW type \in {"LoadLocsFile", "LoadFullWorkspace", "Analysis"}
        PROVE  <<Task(type, 0)>> \in Seq(ReloadTask)
    <2>1. Task(type, 0) \in ReloadTask
      BY DEF Task, ReloadTask, NoReply
    <2> QED  BY <2>1
  <1>3. ASSUME NEW where \in {"query", "task", "node"}, Panic(where) PROVE DebtsAreQueued'
    BY <1>3 DEF Panic, DebtsAreQueued, Owed
  <1>4. ASSUME NEW more \in Seq(ReloadTask), Requeue(more), tasks # <<>>,
               Head(tasks).type # "Response", UNCHANGED <<incoming, status>>
        PROVE  DebtsAreQueued'
    BY <1>4, TaskPassesOn
  <1>5. CASE ReloadWorkspace
    <2>1. /\ UNCHANGED <<incoming, status>> /\ tasks # <<>>
          /\ Head(tasks).type # "Response"
      BY <1>5 DEF ReloadWorkspace, RunsTask
    <2>2. config \in {"none", "locs", "full"}
      BY EnvironmentAssumption DEF RequestTypes
    <2>3. CASE config = "none"
      <3>1. Requeue(<<>>)
        BY <1>5, <2>3 DEF ReloadWorkspace
      <3> QED  BY <1>1, <1>4, <2>1, <3>1
    <2>4. CASE config = "locs"
      <3>1. Requeue(<<Task("LoadLocsFile", 0)>>)
        BY <1>5, <2>4 DEF ReloadWorkspace
      <3> QED  BY <1>2, <1>4, <2>1, <3>1
    <2>5. CASE config = "full"
      <3>1. Requeue(<<Task("LoadFullWorkspace", 0)>>)
        BY <1>5, <2>5 DEF ReloadWorkspace
      <3> QED  BY <1>2, <1>4, <2>1, <3>1
    <2> QED  BY <2>2, <2>3, <2>4, <2>5
  <1>6. ASSUME NEW kind, NEW roots, NEW m, NEW released, NEW loose, NEW read,
               Load(kind, roots, m, released, loose, read), tasks # <<>>,
               Head(tasks).type # "Response"
        PROVE  DebtsAreQueued'
    <2>1. Requeue(<<Task("Analysis", 0)>>) /\ UNCHANGED <<incoming, status>>
      BY <1>6 DEF Load
    <2> QED  BY <1>2, <1>4, <1>6, <2>1
  <1>7. CASE LoadFullWorkspace
    BY <1>6, <1>7 DEF LoadFullWorkspace, RunsTask
  <1>8. CASE LoadLocsFile
    <2>1. tasks # <<>> /\ Head(tasks).type # "Response"
      BY <1>8 DEF LoadLocsFile, RunsTask
    <2>2. CASE Readable(vfs, disk, LocsUri)
      BY <1>6, <1>8, <2>1, <2>2 DEF LoadLocsFile
    <2>3. CASE ~Readable(vfs, disk, LocsUri)
      <3>1. Requeue(<<>>) /\ UNCHANGED <<incoming, status>>
        BY <1>8, <2>3 DEF LoadLocsFile
      <3> QED  BY <1>1, <1>4, <2>1, <3>1
    <2> QED  BY <2>2, <2>3
  <1>9. CASE Response
    <2>1. /\ Requeue(<<>>) /\ status' = status /\ tasks # <<>>
          /\ incoming' = incoming \ {Head(tasks).arg}
      BY <1>9 DEF Response, RunsTask
    <2> QED  BY <1>1, <2>1, TaskPassesOn
  <1>10. CASE Update \/ Reprocess
    <2>1. incoming = {}
      BY <1>10, OwesNothing DEF Update, Reprocess
    <2>2. incoming' = incoming
      BY <1>10 DEF Update, Reprocess, Panic
    <2> QED  BY <2>1, <2>2, NothingOwed
  <1>11. CASE Analysis
    <2>1. CASE CachedFiles \subseteq Live(ctx)
      <3>1. /\ Requeue(<<>>) /\ UNCHANGED <<incoming, status>> /\ tasks # <<>>
            /\ Head(tasks).type # "Response"
        BY <1>11, <2>1 DEF Analysis, Analyse, RunsTask
      <3> QED  BY <1>1, <1>4, <3>1
    <2>2. CASE ~(CachedFiles \subseteq Live(ctx))
      BY <1>3, <1>11, <2>2 DEF Analysis
    <2> QED  BY <2>1, <2>2
  <1>12. CASE AnalysisTimer
    <2>1. incoming = {}
      BY <1>12, OwesNothing DEF AnalysisTimer
    <2>2. incoming' = incoming
      BY <1>12 DEF AnalysisTimer, Analyse, Panic
    <2> QED  BY <2>1, <2>2, NothingOwed
  <1> QED  BY <1>5, <1>7, <1>8, <1>9, <1>10, <1>11, <1>12

(* So does the handler of a notification or a request.                        *)
LEMMA HandlersPassOn ==
    ASSUME RequestTypes, DebtsAreQueued,
           handle_did_open_text_document \/ handle_did_change_text_document
           \/ handle_did_close_text_document \/ handle_did_change_watched_file
           \/ query \/ reload_request \/ shutdown
    PROVE  DebtsAreQueued'
  <1>1. tasks = <<>>
    BY DEF handle_did_open_text_document, handle_did_change_text_document,
           handle_did_close_text_document, handle_did_change_watched_file,
           query, reload_request, shutdown, Receives
  <1>2. incoming = {}
    BY <1>1, OwesNothing
  <1>3. CASE reload_request
    <2>1. PICK id : /\ id = Head(inbox).id
                    /\ incoming' = incoming \cup {id}
                    /\ tasks' = <<[Task("ReloadWorkspace", 0) EXCEPT !.reply = id]>>
                    /\ status' = status
      BY <1>3 DEF reload_request
    <2>2. id \in Nat \ {NoReply}
      <3>1. PICK T : inbox \in Seq(T)
        BY DEF RequestTypes
      <3>2. inbox # <<>> /\ Head(inbox).type = "reload"
        BY <1>3 DEF reload_request, Receives
      <3>3. Head(inbox) = inbox[1] /\ 1 \in 1..Len(inbox)
        BY <3>1, <3>2, EmptySeq, LenProperties, HeadTailProperties
      <3> QED  BY <2>1, <3>2, <3>3 DEF RequestTypes
    <2>3. [Task("ReloadWorkspace", 0) EXCEPT !.reply = id] \in ReloadTask
      BY <2>2 DEF Task, ReloadTask, NoReply
    <2>4. tasks' \in Seq(ReloadTask) /\ Len(tasks') = 1 /\ tasks'[1].reply = id
      BY <2>1, <2>3 DEF Task
    <2>5. incoming' = {id}
      BY <1>2, <2>1
    <2>6. Owed(tasks', id)
      BY <2>4 DEF Owed
    <2>7. status' # "stopped"
      BY <1>3 DEF reload_request, Receives
    <2> QED  BY <2>2, <2>4, <2>5, <2>6, <2>7 DEF DebtsAreQueued
  <1>4. CASE ~reload_request
    <2>1. incoming' = incoming
      BY <1>4 DEF handle_did_open_text_document, handle_did_change_text_document,
           handle_did_close_text_document, handle_did_change_watched_file,
           query, shutdown, Panic
    <2> QED  BY <1>2, <2>1, NothingOwed
  <1> QED  BY <1>3, <1>4

(* The editor and the files owe no answer.                                    *)
LEMMA EnvironmentOwesNothing ==
    ASSUME DebtsAreQueued, EditorStep \/ Watcher \/ UNCHANGED vars
    PROVE  DebtsAreQueued'
  <1>1. UNCHANGED loop
    BY DEF EditorStep, Watcher, EditorOpens, EditorChanges, EditorCloses, EditorAsks,
           EditorReloads, EditorShutsDown, DiskChanges, DiskDeletes, ConfigChanges,
           WatcherReports, server, vars
  <1> QED  BY <1>1 DEF loop, DebtsAreQueued, Owed

-----------------------------------------------------------------------------

(* Every step keeps the types of requests and answers.                        *)
LEMMA RequestsKeepTypes == RequestTypes /\ [Next]_vars => RequestTypes'
  <1> SUFFICES ASSUME RequestTypes, [Next]_vars PROVE RequestTypes'
    OBVIOUS
  <1>1. PICK T : inbox \in Seq(T)
    BY DEF RequestTypes
  <1>2. ASSUME UNCHANGED <<config, events, inbox>> PROVE RequestTypes'
    BY <1>2 DEF RequestTypes
  <1>3. ASSUME UNCHANGED <<config, events>>, inbox # <<>>, inbox' = Tail(inbox)
        PROVE  RequestTypes'
    <2>1. /\ inbox' \in Seq(T) /\ Len(inbox) \in Nat \ {0} /\ Len(inbox') = Len(inbox) - 1
          /\ \A i \in 1..Len(inbox') : inbox'[i] = inbox[i + 1]
      BY <1>1, <1>3, HeadTailProperties, EmptySeq, LenProperties
    <2>2. ASSUME NEW i \in 1..Len(inbox'), inbox'[i].type = "reload"
          PROVE  inbox'[i].id \in Nat \ {NoReply}
      <3>1. i + 1 \in 1..Len(inbox) /\ inbox'[i] = inbox[i + 1]
        BY <2>1
      <3> QED  BY <2>2, <3>1 DEF RequestTypes
    <2> QED  BY <1>3, <2>1, <2>2 DEF RequestTypes
  <1>4. ASSUME NEW m, inbox' = Append(inbox, m), config' = config, events' \in Nat,
               m.type = "reload" => m.id \in Nat \ {NoReply}
        PROVE  RequestTypes'
    <2>1. /\ inbox' \in Seq(T \cup {m}) /\ Len(inbox) \in Nat /\ Len(inbox') = Len(inbox) + 1
          /\ \A i \in 1..Len(inbox) : inbox'[i] = inbox[i]
          /\ inbox'[Len(inbox) + 1] = m
      BY <1>1, <1>4
    <2>2. ASSUME NEW i \in 1..Len(inbox'), inbox'[i].type = "reload"
          PROVE  inbox'[i].id \in Nat \ {NoReply}
      <3>1. CASE i \in 1..Len(inbox)
        BY <2>1, <2>2, <3>1 DEF RequestTypes
      <3>2. CASE i = Len(inbox) + 1
        BY <1>4, <2>1, <2>2, <3>2
      <3> QED  BY <2>1, <3>1, <3>2
    <2> QED  BY <1>4, <2>1, <2>2 DEF RequestTypes
  <1>5. CASE ReloadWorkspace \/ LoadFullWorkspace \/ LoadLocsFile \/ Response
             \/ Update \/ Reprocess \/ Analysis \/ AnalysisTimer
    <2>1. UNCHANGED <<world, inbox>>
      BY <1>5 DEF ReloadWorkspace, LoadFullWorkspace, LoadLocsFile, Load, Response, Update,
             Reprocess, ReprocessUnit, Analysis, AnalysisTimer, Analyse, Panic
    <2> QED  BY <1>2, <2>1 DEF world
  <1>6. CASE handle_did_open_text_document \/ handle_did_change_text_document
             \/ handle_did_close_text_document \/ handle_did_change_watched_file
             \/ query \/ reload_request \/ shutdown
    <2>1. /\ inbox # <<>> /\ UNCHANGED world
          /\ inbox' = Tail(inbox) \/ inbox' = inbox
      BY <1>6 DEF handle_did_open_text_document, handle_did_change_text_document,
           handle_did_close_text_document, handle_did_change_watched_file,
           query, reload_request, shutdown, Receives, Panic
    <2> QED  BY <1>2, <1>3, <2>1 DEF world
  <1>7. CASE EditorStep
    <2> USE DEF Acts, Sends
    <2>1. events \in Nat /\ events + 1 \in Nat \ {NoReply} /\ config \in Configs
      BY DEF RequestTypes, NoReply
    <2>2. ASSUME NEW u \in Uris, NEW t \in TextsOf[u],
                 EditorOpens(u, t) \/ EditorChanges(u, t)
          PROVE  RequestTypes'
      BY <1>4, <2>1, <2>2 DEF EditorOpens, EditorChanges
    <2>3. ASSUME NEW u \in Uris, EditorCloses(u) \/ EditorAsks(u) PROVE RequestTypes'
      BY <1>4, <2>1, <2>3 DEF EditorCloses, EditorAsks
    <2>4. CASE EditorReloads
      <3> DEFINE m == [type |-> "reload", id |-> events']
      <3>1. /\ inbox' = Append(inbox, m) /\ config' = config
            /\ events' \in Nat \ {NoReply}
        BY <2>1, <2>4 DEF EditorReloads
      <3>2. m.id = events'
        OBVIOUS
      <3> HIDE DEF m
      <3> QED  BY <1>4, <3>1, <3>2
    <2>5. CASE EditorShutsDown
      BY <1>4, <2>1, <2>5 DEF EditorShutsDown
    <2>6. ASSUME UNCHANGED inbox, config' \in Configs, events' \in Nat
          PROVE  RequestTypes'
      BY <2>6 DEF RequestTypes
    <2>7. ASSUME NEW u \in Uris, NEW t \in TextsOf[u], DiskChanges(u, t)
          PROVE  RequestTypes'
      BY <2>1, <2>6, <2>7 DEF DiskChanges
    <2>8. ASSUME NEW u \in Uris, DiskDeletes(u) PROVE RequestTypes'
      BY <2>1, <2>6, <2>8 DEF DiskDeletes
    <2>9. ASSUME NEW c \in Configs, ConfigChanges(c) PROVE RequestTypes'
      BY <2>1, <2>6, <2>9 DEF ConfigChanges
    <2> QED  BY <1>7, <2>2, <2>3, <2>4, <2>5, <2>7, <2>8, <2>9 DEF EditorStep
  <1>8. CASE Watcher
    <2>1. \E order : inbox' = Append(inbox, [type |-> "watched", uris |-> order])
      BY <1>8 DEF Watcher, WatcherReports, Sends
    <2>2. UNCHANGED <<config, events>>
      BY <1>8 DEF Watcher, WatcherReports
    <2> QED  BY <1>4, <2>1, <2>2 DEF RequestTypes
  <1>9. CASE UNCHANGED vars
    BY <1>2, <1>9 DEF vars, world
  <1> QED  BY <1>5, <1>6, <1>7, <1>8, <1>9 DEF Next, ServerStep

\* Whatever the editor, the disk and the watcher do, and however long requests
\* queue behind tasks: every request that was taken and not answered has its answer
\* in the queue, or a task that carries it; so a server that stops owes nothing.
THEOREM NothingIsOwedAtTheEnd == Spec => []StopsWithNothingOwed
  <1>1. Init => Debts
    <2> SUFFICES ASSUME Init PROVE Debts
      OBVIOUS
    <2>1. inbox \in Seq({}) /\ Len(inbox) = 0
      BY EmptySeq DEF Init
    <2> QED  BY <2>1 DEF Init, Debts, RequestTypes, DebtsAreQueued
  <1>2. Debts /\ [Next]_vars => Debts'
    <2> SUFFICES ASSUME Debts, [Next]_vars PROVE Debts'
      OBVIOUS
    <2>1. RequestTypes'
      BY RequestsKeepTypes DEF Debts
    <2>2. DebtsAreQueued'
      BY TasksPassOn, HandlersPassOn, EnvironmentOwesNothing DEF Debts, Next, ServerStep
    <2> QED  BY <2>1, <2>2 DEF Debts
  <1>3. Debts => StopsWithNothingOwed
    BY DEF Debts, DebtsAreQueued, StopsWithNothingOwed
  <1> QED  BY <1>1, <1>2, <1>3, PTL DEF Spec

=============================================================================
