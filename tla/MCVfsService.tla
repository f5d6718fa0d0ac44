---------------------------- MODULE MCVfsService ----------------------------
(* Two documents, two texts: enough for a text on disk, another in the       *)
(* editor, and a neighbour that must not be disturbed.  Either the disk       *)
(* changes and no tokens are asked for, or the disk stays as it is, with one  *)
(* of the documents on it, and they are.                                     *)
EXTENDS SemanticTokens

CONSTANTS a, b, x, y, noun, verb
const_Uris == {a, b}
const_Text == {x, y}

On(l, f, t, k) == [line |-> l, from |-> f, to |-> t, kind |-> k]

\* x repeats a token at even distances, so that what two of its colourings share
\* at the front and at the end overlaps; its ranges nest and coincide.  y has two lines.
const_Colourings ==
    x :> {<<On(0, 0, 1, noun), On(0, 2, 3, noun)>>,
          <<On(0, 0, 1, noun), On(0, 2, 3, noun), On(0, 4, 5, noun)>>,
          <<On(0, 4, 5, noun), On(0, 0, 3, verb), On(0, 0, 3, noun), On(0, 2, 3, noun)>>} @@
    y :> {<<On(0, 2, 4, verb), On(1, 1, 3, noun)>>, <<>>}

\* No tokens were ever given, and none will be.
NoTokensAsked ==
    /\ counter > MaxResults
    /\ tokens = [u \in Uris |-> NoTokens] /\ held = tokens

Start ==
    /\ Init
    /\ \/ InitTokens /\ disk = [u \in Uris |-> IF u = a THEN x ELSE Missing]
       \/ /\ counter = MaxResults + 1
          /\ tokens = [u \in Uris |-> NoTokens] /\ held = tokens

Step == NextTokens /\ (NoTokensAsked \/ disk' = disk)

FullSpec == Start /\ [][Step]_allVars

=============================================================================
