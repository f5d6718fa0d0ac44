----------------------------- MODULE VfsService -----------------------------
(***************************************************************************)
(* The virtual file system in use: the reads that parsing makes, the         *)
(* editor's document notifications, the watcher's change events, and a disk  *)
(* that changes underneath.  The notifications come in any order, also the   *)
(* ones no editor should send (a change or a close of a document that is not *)
(* open, an open of one that is): the methods warn and carry on.             *)
(***************************************************************************)
EXTENDS Vfs

VARIABLES
    files,  \* Vfs.files
    disk,   \* the files behind it
    answer, \* what the last read returned, or Missing for an Err
    editor, \* history: the editor's own buffers, Missing for a closed one
    onDisk  \* history: every text a file has had

vars == <<files, disk, answer, editor, onDisk>>

Init ==
    /\ files = EmptyVfs
    /\ disk \in Disk
    /\ answer = Missing
    /\ editor = [u \in Uris |-> Missing]
    /\ onDisk = [u \in Uris |-> {disk[u]}]

read(u) ==
    /\ files' = Read(files, disk, u)
    /\ answer' = Contents(files, disk, u)
    /\ UNCHANGED <<disk, editor, onDisk>>

update_fs(u) ==
    /\ files' = UpdateFs(files, disk, u)
    /\ UNCHANGED <<disk, answer, editor, onDisk>>

did_open(u, t) ==
    /\ files' = DidOpen(files, u, t)
    /\ editor' = [editor EXCEPT ![u] = t]
    /\ UNCHANGED <<disk, answer, onDisk>>

did_change(u, t) ==
    /\ files' = DidChange(files, u, t)
    /\ editor' = IF editor[u] = Missing THEN editor
                 ELSE [editor EXCEPT ![u] = t]
    /\ UNCHANGED <<disk, answer, onDisk>>

did_close(u) ==
    /\ files' = DidClose(files, disk, u)
    /\ editor' = [editor EXCEPT ![u] = Missing]
    /\ UNCHANGED <<disk, answer, onDisk>>

DiskChanges(u) ==
    /\ \E t \in Text \cup {Missing} :
          /\ disk' = [disk EXCEPT ![u] = t]
          /\ onDisk' = [onDisk EXCEPT ![u] = @ \cup {t}]
    /\ UNCHANGED <<files, answer, editor>>

Next ==
    \E u \in Uris :
        \/ read(u) \/ update_fs(u) \/ did_close(u) \/ DiskChanges(u)
        \/ \E t \in Text : did_open(u, t) \/ did_change(u, t)

Spec == Init /\ [][Next]_vars

-----------------------------------------------------------------------------
TypeOK ==
    /\ files \in [Uris -> Entry]
    /\ disk \in Disk
    /\ answer \in Text \cup {Missing}
    /\ editor \in Disk
    /\ onDisk \in [Uris -> SUBSET (Text \cup {Missing})]

\* The server's idea of which documents are open, and with what text, is the
\* editor's, whatever the disk, the watcher and the readers did in between.
OpenDocumentsAreTheEditors ==
    \A u \in Uris :
        IF editor[u] = Missing THEN ~HoldsDocument(files, u)
                               ELSE files[u] = Lsp(editor[u])

\* A text the server holds as the file's (Fs) was at some time the file's: an
\* editor's unsaved text never survives the close of its document.
FsTextWasOnDisk ==
    \A u \in Uris : files[u].kind = "fs" => files[u].text \in onDisk[u]

\* The map of entries, seen as the editor's buffers and the looked-at files.
Store == INSTANCE DocumentStore WITH
    buffer <- editor,
    seen   <- [u \in Uris |->
                 IF files[u].kind = "fs" THEN files[u].text ELSE Missing]

\* Every step of the virtual file system is a step of the store it promises.
ImplementsStore == Store!Spec

=============================================================================
