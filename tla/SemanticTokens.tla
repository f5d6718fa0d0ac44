--------------------------- MODULE SemanticTokens ---------------------------
(***************************************************************************)
(* The server's semantic tokens: how the ranges found in a text become the   *)
(* tokens of an answer (`SemanticTokensState::finish`), what the server      *)
(* remembers of its last answer about a document, and the deltas it sends to *)
(* an editor that names the answer it has.  The editor asks at any time,     *)
(* also about a document that is closed, and drops an answer it no longer     *)
(* wants: the server remembers that answer, the editor does not have it.      *)
(*                                                                         *)
(* Which ranges a text gives depends on the last analysis as well as on the   *)
(* text, so it is a choice.  A range is [line, from, to, kind] and stays on   *)
(* one line: the pieces of a longer one come from the line index, which is    *)
(* not part of this code.  The lookups behind the ranges that can end the     *)
(* server (the unit of a file that an edit took out) are those of LspServer.  *)
(***************************************************************************)
EXTENDS VfsService, SequencesExt

CONSTANTS
    Colourings, \* [Text -> sets of sequences of ranges, as the visitor finds them]
    MaxResults, \* bound: answers given
    NoTokens    \* nothing remembered, or nothing had

VARIABLES
    tokens,  \* GlobalState.semantic_tokens: the last answer about each document
    counter, \* TOKEN_RESULT_COUNTER
    held     \* the editor's: the tokens it has, and the ranges they are to show

tokenVars == <<tokens, counter, held>>
allVars == <<vars, tokenVars>>

\* No range is empty, and of two that meet one lies within the other: they are
\* the ranges of words, and of names that words make up.
Nested(raw) ==
    /\ \A i \in DOMAIN raw :
          raw[i].line \in Nat /\ raw[i].from \in Nat /\ raw[i].to \in Nat
          /\ raw[i].from < raw[i].to
    /\ \A i, j \in DOMAIN raw :
          raw[i].line = raw[j].line =>
             \/ raw[i].to <= raw[j].from \/ raw[j].to <= raw[i].from
             \/ raw[i].from <= raw[j].from /\ raw[j].to <= raw[i].to
             \/ raw[j].from <= raw[i].from /\ raw[i].to <= raw[j].to

Ranges(raw) == DOMAIN raw = 1..Len(raw) /\ Len(raw) \in Nat /\ Nested(raw)

ASSUME ColouringsAssumption == \A t \in Text : \A raw \in Colourings[t] : Ranges(raw)

-----------------------------------------------------------------------------
(* From ranges to tokens.                                                  *)

\* The order of the sort, which is stable: by start, and the longest first.
Before(raw, i, j) ==
    LET r == raw[i]  s == raw[j] IN
    \/ r.line < s.line
    \/ r.line = s.line /\ r.from < s.from
    \/ r.line = s.line /\ r.from = s.from /\ r.to > s.to
    \/ r.line = s.line /\ r.from = s.from /\ r.to = s.to /\ i < j

\* j is the last member of S before i.
LastBefore(raw, S, i, j) ==
    /\ j \in S /\ Before(raw, j, i)
    /\ \A k \in S : Before(raw, k, i) => k = j \/ Before(raw, k, j)

\* A range that starts inside the last one kept before it is dropped.
KeptIndices(raw) ==
    CHOOSE S \in SUBSET DOMAIN raw :
        \A i \in DOMAIN raw :
            i \in S <=> \A j \in S : LastBefore(raw, S, i, j) =>
                            ~ (raw[j].line = raw[i].line /\ raw[i].from < raw[j].to)

\* How many of S come before i, and the one of S in the place k of the order.
Rank(raw, S, i) == Cardinality({j \in S : Before(raw, j, i)})
Placed(raw, S, k) == CHOOSE i \in S : Rank(raw, S, i) = k - 1

Kept(raw) ==
    LET S == KeptIndices(raw)
    IN  [k \in 1..Cardinality(S) |-> raw[Placed(raw, S, k)]]

\* Each token is placed relative to the one before it: its column to that
\* token's when they share a line, to the line's start otherwise.
Encoded(raw) ==
    LET kept == Kept(raw)
        Prev(k) == IF k = 1 THEN [line |-> 0, from |-> 0] ELSE kept[k - 1]
        Base(k) == IF kept[k].line = Prev(k).line THEN Prev(k).from ELSE 0
    IN  [k \in DOMAIN kept |->
           [deltaLine  |-> kept[k].line - Prev(k).line,
            deltaStart |-> kept[k].from - Base(k),
            length     |-> kept[k].to - kept[k].from,
            kind       |-> kept[k].kind]]

-----------------------------------------------------------------------------
(* Deltas.                                                                 *)

\* How many elements two sequences have in common at the front, and at the end.
CommonFront(s, t) ==
    Max({n \in 0..Min({Len(s), Len(t)}) : SubSeq(s, 1, n) = SubSeq(t, 1, n)})
CommonBack(s, t) == CommonFront(Reverse(s), Reverse(t))

\* What lies between the common front and the common end of the rest is
\* replaced.  A token takes five places of the array it travels in.
diff_tokens(old, new) ==
    LET front == CommonFront(old, new)
        AfterFront(s) == SubSeq(s, front + 1, Len(s))
        back  == CommonBack(AfterFront(old), AfterFront(new))
        Between(s) == SubSeq(s, front + 1, Len(s) - back)
    IN  IF Between(old) = <<>> /\ Between(new) = <<>> THEN <<>>
        ELSE <<[start |-> 5 * front, deleteCount |-> 5 * Len(Between(old)),
                data |-> Between(new)]>>

\* The editor's part of the protocol; there is one edit at most.
Apply(edits, data) ==
    IF edits = <<>> THEN data
    ELSE LET e == edits[1]
         IN  SubSeq(data, 1, e.start \div 5) \o e.data
             \o SubSeq(data, (e.start + e.deleteCount) \div 5 + 1, Len(data))

-----------------------------------------------------------------------------
(* Requests.                                                               *)

InitTokens ==
    /\ tokens = [u \in Uris |-> NoTokens]
    /\ counter = 1
    /\ held = [u \in Uris |-> NoTokens]

\* Both handlers compute the tokens of the text the file system holds, and
\* answer an error when it holds none.  The answer `data` reaches the editor, or
\* is dropped there.
Answers(u, raw, data) ==
    /\ files[u] # NoFile /\ counter <= MaxResults
    /\ tokens' = [tokens EXCEPT ![u] = [id |-> counter, data |-> Encoded(raw)]]
    /\ counter' = counter + 1
    /\ \/ held' = [held EXCEPT ![u] =
                     [id |-> counter, data |-> data, shows |-> raw]]
       \/ held' = held
    /\ UNCHANGED vars

semantic_tokens_full(u, raw) == Answers(u, raw, Encoded(raw))

\* Faulty: the delta is against the last answer, whichever the editor has.
semantic_tokens_full_delta_AnyResult(u, raw) ==
    /\ held[u] # NoTokens
    /\ Answers(u, raw,
         IF tokens[u] # NoTokens
         THEN Apply(diff_tokens(tokens[u].data, Encoded(raw)), held[u].data)
         ELSE Encoded(raw))

\* A delta is answered only when the result the editor names is the one
\* remembered; all tokens are otherwise.
semantic_tokens_full_delta(u, raw) ==
    /\ held[u] # NoTokens
    /\ Answers(u, raw,
         IF tokens[u] # NoTokens /\ tokens[u].id = held[u].id
         THEN Apply(diff_tokens(tokens[u].data, Encoded(raw)), held[u].data)
         ELSE Encoded(raw))

\* The tokens of a range are not remembered, but take a number.
semantic_tokens_range(u) ==
    /\ files[u] # NoFile /\ counter <= MaxResults
    /\ counter' = counter + 1
    /\ UNCHANGED <<vars, tokens, held>>

\* The handler of a close forgets the answer, then closes the document.
handle_did_close(u) ==
    /\ did_close(u)
    /\ tokens' = [tokens EXCEPT ![u] = NoTokens]
    /\ UNCHANGED <<counter, held>>

NextTokens ==
    \E u \in Uris :
        \/ handle_did_close(u)
        \/ /\ \/ read(u) \/ update_fs(u) \/ DiskChanges(u)
              \/ \E t \in Text : did_open(u, t) \/ did_change(u, t)
           /\ UNCHANGED tokenVars
        \/ semantic_tokens_range(u)
        \/ /\ files[u] # NoFile
           /\ \E raw \in Colourings[files[u].text] :
                 semantic_tokens_full(u, raw) \/ semantic_tokens_full_delta(u, raw)

TokensSpec == Init /\ InitTokens /\ [][NextTokens]_allVars

-----------------------------------------------------------------------------
\* Where an editor finds the start of each token, after the start of the text.
Starts(data) ==
    LET start[k \in 0..Len(data)] ==
            IF k = 0 THEN [line |-> 0, from |-> 0]
            ELSE [line |-> start[k - 1].line + data[k].deltaLine,
                  from |-> data[k].deltaStart
                           + IF data[k].deltaLine = 0 THEN start[k - 1].from ELSE 0]
    IN  start

\* What an editor paints of tokens, by line and column.
PaintedFrom(start, data) ==
    UNION {{<<start[k].line, c, data[k].kind>> :
              c \in start[k].from..start[k].from + data[k].length - 1} : k \in 1..Len(data)}
Painted(data) == PaintedFrom(Starts(data), data)

\* What the ranges say: every place has the kind of the outermost range around
\* it, the one found first where several are equally wide.
Colours(raw) ==
    LET Around(i, l, c) == raw[i].line = l /\ raw[i].from <= c /\ c < raw[i].to
        Wide(i) == raw[i].to - raw[i].from
    IN  UNION {{<<raw[i].line, c, raw[i].kind>> :
                  c \in {k \in raw[i].from..raw[i].to - 1 :
                           \A j \in DOMAIN raw :
                              Around(j, raw[i].line, k) =>
                                 \/ Wide(j) < Wide(i)
                                 \/ Wide(j) = Wide(i) /\ i <= j}} :
               i \in DOMAIN raw}

\* Whatever was asked, answered, dropped, closed and reopened in between, the
\* tokens the editor has after an answer -- all of them, or what it had with a
\* delta applied -- paint exactly what the ranges behind that answer call for.
HeldTokensPaintTheAnswer ==
    \A u \in Uris :
        held[u] # NoTokens => Painted(held[u].data) = Colours(held[u].shows)

\* No token of an answer, whole or put together from deltas, starts before the
\* one before it has ended: the differences of positions never wrap, and the
\* server's own assertion on the order of the tokens cannot fail.
HeldTokensAdvance ==
    \A u \in Uris : held[u] # NoTokens =>
        LET data == held[u].data IN
        \A k \in 1..Len(data) :
            /\ data[k].deltaLine >= 0 /\ data[k].deltaStart >= 0 /\ data[k].length > 0
            /\ k > 1 /\ data[k].deltaLine = 0 => data[k].deltaStart >= data[k - 1].length

=============================================================================
