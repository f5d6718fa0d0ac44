--------------------------- MODULE DocumentStore ---------------------------
(***************************************************************************)
(* What the virtual file system promises to the rest of the server, without  *)
(* saying how: while the editor has a document open, its text is what a      *)
(* reader gets; otherwise a reader gets the text the file had when the       *)
(* server last looked at it, and the server looks again when it is told to   *)
(* or when the editor lets the document go.                                  *)
(***************************************************************************)
CONSTANTS Uris, Text, Missing

VARIABLES
    buffer, \* the open documents: the editor's text, or Missing when closed
    seen,   \* the text last taken from the file, or Missing
    answer, \* what the last reader got, or Missing
    disk    \* the files

vars == <<buffer, seen, answer, disk>>

Init ==
    /\ buffer = [u \in Uris |-> Missing]
    /\ seen = [u \in Uris |-> Missing]
    /\ answer = Missing
    /\ disk \in [Uris -> Text \cup {Missing}]

DiskChanges(u) ==
    /\ \E t \in Text \cup {Missing} : disk' = [disk EXCEPT ![u] = t]
    /\ UNCHANGED <<buffer, seen, answer>>

ReadBuffer(u) ==
    /\ buffer[u] # Missing
    /\ answer' = buffer[u]
    /\ UNCHANGED <<buffer, seen, disk>>

ReadFile(u) ==
    /\ buffer[u] = Missing
    /\ answer' = IF seen[u] # Missing THEN seen[u] ELSE disk[u]
    /\ seen' = [seen EXCEPT ![u] = answer']
    /\ UNCHANGED <<buffer, disk>>

\* The server looks at the file of a document that is not open.
Look(u) ==
    /\ buffer[u] = Missing
    /\ disk[u] # Missing
    /\ seen' = [seen EXCEPT ![u] = disk[u]]
    /\ UNCHANGED <<buffer, answer, disk>>

\* The editor opens or edits a document: what was seen of the file is void.
Edit(u, t) ==
    /\ buffer' = [buffer EXCEPT ![u] = t]
    /\ seen' = [seen EXCEPT ![u] = Missing]
    /\ UNCHANGED <<answer, disk>>

\* The editor lets go: the file is looked at again, if there is one.
Close(u) ==
    /\ buffer[u] # Missing
    /\ buffer' = [buffer EXCEPT ![u] = Missing]
    /\ seen' = [seen EXCEPT ![u] = disk[u]]
    /\ UNCHANGED <<answer, disk>>

Next ==
    \E u \in Uris :
        \/ DiskChanges(u) \/ ReadBuffer(u) \/ ReadFile(u) \/ Look(u) \/ Close(u)
        \/ \E t \in Text : Edit(u, t)

Spec == Init /\ [][Next]_vars

=============================================================================
