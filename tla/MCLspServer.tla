---------------------------- MODULE MCLspServer ----------------------------
(***************************************************************************)
(* A workspace with one root `a` that may include `b`, and a locs file `l`   *)
(* that lists `a`.  A text of `b` may define the symbol that `a` uses.        *)
(***************************************************************************)
EXTENDS LspServer

CONSTANTS a, b, l, cfg

const_Uris == {a, b, l}
const_FppUris == {a, b}

T(inc, bad, uses, defines) ==
    [inc |-> inc, bad |-> bad, uses |-> uses, defines |-> defines]

UsesAndIncludes == T({b}, FALSE, TRUE, FALSE)
UsesAlone       == T({}, FALSE, TRUE, FALSE)
Defines         == T({}, FALSE, FALSE, TRUE)
BrokenDefs      == T({}, TRUE, FALSE, FALSE)
LocsOfA         == T({a}, FALSE, FALSE, FALSE)

const_TextsOf ==
    a :> {UsesAndIncludes, UsesAlone} @@ b :> {Defines, BrokenDefs} @@ l :> {LocsOfA}
const_InitDisk == a :> UsesAndIncludes @@ b :> Defines @@ l :> LocsOfA

full_AndLocs == {"full", "locs"}
all_Configs == {"none", "full", "locs"}

\* A run of insertions is the insertions one after the other.
SampleMaps ==
    {[store |-> [k \in {0, 1} |-> a], current |-> 4, dropped |-> <<2, 3>>],
     [store |-> [k \in {1} |-> a], current |-> 2, dropped |-> <<0>>], EmptyMap}
ASSUME PushAllAssumption ==
    \A m \in SampleMaps :
        PushAll(m, <<a, b, a>>) = Push(Push(Push(m, a), b), a)

=============================================================================
