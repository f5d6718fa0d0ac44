-------------------------------- MODULE Vfs --------------------------------
(***************************************************************************)
(* `fpp_lsp_server::vfs::Vfs`: the texts the server works from.  An entry   *)
(* is either a file read from disk (Fs) or a document the editor has open   *)
(* (Lsp), whose text replaces the one on disk.  The map is a value here: its *)
(* methods are operators from the map (and the disk) to the new map.        *)
(***************************************************************************)

CONSTANTS
    Uris,   \* the documents
    Text,   \* what a document may hold
    Missing \* no such file on disk

ASSUME MissingAssumption == Missing \notin Text

NoFile == [kind |-> "none"]
Fs(t)  == [kind |-> "fs",  text |-> t]
Lsp(t) == [kind |-> "lsp", text |-> t]

Entry == {NoFile} \cup {Fs(t) : t \in Text} \cup {Lsp(t) : t \in Text}
Disk  == [Uris -> Text \cup {Missing}]

EmptyVfs == [u \in Uris |-> NoFile]

\* read returns an Err exactly when the text is neither held nor on disk.
Readable(vfs, disk, u) == vfs[u] # NoFile \/ disk[u] # Missing
Contents(vfs, disk, u) == IF vfs[u] # NoFile THEN vfs[u].text ELSE disk[u]

\* read caches what it takes from the disk; ReadAll is a run of reads.
ReadAll(vfs, disk, S) ==
    [u \in Uris |-> IF u \in S /\ vfs[u] = NoFile /\ disk[u] # Missing
                    THEN Fs(disk[u]) ELSE vfs[u]]

Read(vfs, disk, u) == ReadAll(vfs, disk, {u})

\* update_fs leaves an open document alone (Ok(false)), fails when the file is
\* gone (Err), and takes the new text otherwise (Ok(true)).
HoldsDocument(vfs, u) == vfs[u].kind = "lsp"
UpdateFails(vfs, disk, u) == ~HoldsDocument(vfs, u) /\ disk[u] = Missing
\* Faulty: a change on disk replaces the text of an open document.
UpdateFs_OverDocuments(vfs, disk, u) ==
    IF disk[u] = Missing THEN vfs ELSE [vfs EXCEPT ![u] = Fs(disk[u])]
UpdateFs(vfs, disk, u) ==
    IF HoldsDocument(vfs, u) \/ disk[u] = Missing
    THEN vfs ELSE [vfs EXCEPT ![u] = Fs(disk[u])]

\* did_open takes the editor's text over whatever is there.
DidOpen(vfs, u, t) == [vfs EXCEPT ![u] = Lsp(t)]

\* did_change is dropped for a document that is not open.
DidChange(vfs, u, t) ==
    IF HoldsDocument(vfs, u) THEN [vfs EXCEPT ![u] = Lsp(t)] ELSE vfs

\* Faulty: the editor's text stays, as if it were the file's.
DidClose_KeepsText(vfs, disk, u) ==
    IF HoldsDocument(vfs, u) THEN [vfs EXCEPT ![u] = Fs(@.text)] ELSE vfs

\* Faulty: the file is not read again.
DidClose_WithoutRead(vfs, disk, u) ==
    IF HoldsDocument(vfs, u) THEN [vfs EXCEPT ![u] = NoFile] ELSE vfs

\* Faulty: the outcome of reading the file again is not looked at.
DidClose_IgnoresFailure(vfs, disk, u) ==
    IF HoldsDocument(vfs, u) THEN [vfs EXCEPT ![u] = Fs(disk[u])] ELSE vfs

\* did_close forgets the editor's text and reads the file again; closing what
\* is not open changes nothing.
DidClose(vfs, disk, u) ==
    IF HoldsDocument(vfs, u)
    THEN Read([vfs EXCEPT ![u] = NoFile], disk, u) ELSE vfs

=============================================================================
