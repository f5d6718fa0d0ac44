----------------------------- MODULE Workspace -----------------------------
(***************************************************************************)
(* What a workspace is made of: translation units, the include files they    *)
(* pull in, and the diagnostics they give rise to.  Everything here is a     *)
(* function of the texts that are read, so the same operators say what the   *)
(* server computes from its virtual file system and what it should have      *)
(* computed from the editor's buffers and the disk.                          *)
(*                                                                         *)
(* A text is abstracted to the documents it includes (for a locs file: the   *)
(* documents it lists) and to what the checks find in it: a syntax error, a  *)
(* use of a symbol, the definition of that symbol.                           *)
(***************************************************************************)
EXTENDS Naturals, Sequences, FiniteSets, SequencesExt

CONSTANTS
    Uris,     \* the documents of the workspace
    LocsUri,  \* the one that is the locs file
    FppUris,  \* those with the .fpp extension, which a scan takes as roots
    Missing   \* no such file

Text == [inc : SUBSET Uris, bad : BOOLEAN, uses : BOOLEAN, defines : BOOLEAN]

ASSUME UrisAssumption ==
    /\ LocsUri \in Uris
    /\ FppUris \subseteq Uris
    /\ Missing \notin Text
    /\ IsFiniteSet(Uris)

-----------------------------------------------------------------------------
\* A file of a translation unit is named by the path of includes that leads to
\* it.  check_for_cycle refuses to close a cycle, so no path meets a document
\* twice.
Paths == UNION {{p \in [1..n -> Uris] : IsInjective(p)} : n \in 1..Cardinality(Uris)}

\* The files of the units with these roots, for texts : [Uris -> Text or
\* Missing].  An include whose file cannot be read is left out.
IncludeForest(roots, texts) ==
    {p \in Paths :
        /\ p[1] \in roots
        /\ \A i \in 1..Len(p) : texts[p[i]] # Missing
        /\ \A i \in 1..(Len(p) - 1) : p[i + 1] \in texts[p[i]].inc}

\* The files are made depth first, a file before what it includes: the orders
\* in which that can happen, whatever the order of the include specifiers.
DepthFirst(forest) ==
    {o \in SetToSeqs(forest) :
        \A j, k \in 1..Len(o) :
            IsPrefix(o[j], o[k]) =>
                /\ j <= k
                /\ \A i \in j..k : IsPrefix(o[j], o[i])}

\* What the parser and the include resolution report for the file p.
UnitErrors(p, texts) ==
    LET t == texts[Last(p)]
    IN  (IF t.bad THEN {[uri |-> Last(p), error |-> "syntax"]} ELSE {})
        \cup
        {[uri |-> Last(p), error |-> "include"] :
            v \in {w \in t.inc : w \in ToSet(p) \/ texts[w] = Missing}}

\* What the semantic analysis reports for a set of files [uri, text]: a use of
\* a symbol that none of them defines.
SemanticErrors(fs) ==
    IF \E f \in fs : f.text.defines THEN {}
    ELSE {[uri |-> f.uri, error |-> "semantic"] : f \in {g \in fs : g.text.uses}}

\* What loading the locs file reports at its own text.
LocsErrors(texts) ==
    (IF texts[LocsUri].bad THEN {[uri |-> LocsUri, error |-> "syntax"]} ELSE {})
    \cup
    {[uri |-> LocsUri, error |-> "locs"] :
        v \in {w \in texts[LocsUri].inc : texts[w] = Missing}}

-----------------------------------------------------------------------------
\* All diagnostics of a workspace of the given kind: from the texts, and the
\* files on disk, which is where a scan looks for roots.
Roots(kind, texts, disk) ==
    IF kind = "locs" THEN texts[LocsUri].inc
                     ELSE {u \in FppUris : disk[u] # Missing}

Diagnosis(kind, texts, disk) ==
    LET forest == IncludeForest(Roots(kind, texts, disk), texts)
    IN  (UNION {UnitErrors(p, texts) : p \in forest})
        \cup SemanticErrors({[uri |-> Last(p), text |-> texts[Last(p)]] : p \in forest})
        \cup (IF kind = "locs" THEN LocsErrors(texts) ELSE {})

=============================================================================
