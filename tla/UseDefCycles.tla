--------------------------- MODULE UseDefCycles ---------------------------
(* The check that no definition uses itself (CheckUseDefCycles). Later passes *)
(* evaluate constants and types by recursion over the uses with nothing to    *)
(* stop them, so the whole analysis relies on this check stopping it.         *)
(*                                                                            *)
(* The check is a depth-first walk of the translation units. Every call in    *)
(* progress is a frame; what a definition still has to visit is a set, as the *)
(* order of its parts is that of the text. A use that does not resolve is not *)
(* in the use-def map and is skipped: it is no part of usesOf. Containers      *)
(* (modules, components) are never on the path: their uses belong to Root.    *)
EXTENDS Naturals, Sequences

CONSTANTS
    Definitions,   \* the symbols the check follows: types, constants, ...
    Root           \* the list of translation units

ASSUME RootAssumption == Root \notin Definitions

VARIABLES
    usesOf,        \* what a definition, or the root, names (input)
    memberOf,      \* the enum an enum constant is defined in, or Root (input)
    frames,        \* the calls in progress, outermost first
    matchings,     \* use_def_matching_list: the uses on the path
    visited,       \* visited_symbol_set
    outcome        \* "running", "passed" or "cycle" (the walk broke off)

udVars == <<usesOf, memberOf, frames, matchings, visited, outcome>>

Owners == Definitions \cup {Root}

(* What the walk of a definition meets: uses, and the definitions inside it.  *)
Part == [kind : {"use", "def"}, of : Definitions]
Parts(o) ==
    [kind : {"use"}, of : usesOf[o]]
        \cup [kind : {"def"}, of : {d \in Definitions : memberOf[d] = o}]

Frame(o, len) == [owner |-> o, todo |-> Parts(o), kept |-> len]

Depth == Len(frames)
Top == frames[Depth]

(* Faulty: a definition stays in use_def_symbol_set when it has been visited. *)
InProgress_Ever(d) == (\E i \in 2..Depth : frames[i].owner = d) \/ d \in visited

(* use_def_symbol_set: the definitions being visited.                         *)
InProgress(d) == \E i \in 2..Depth : frames[i].owner = d

(* The walk of the given definitions starts.  Only an enum has members, which *)
(* have none themselves.                                                      *)
UseDefStart(uses, members) ==
    /\ usesOf = uses
    /\ memberOf = members
    /\ frames = <<Frame(Root, 0)>>
    /\ matchings = <<>>
    /\ visited = {}
    /\ outcome = "running"

UseDefInputs ==
    [uses : [Owners -> SUBSET Definitions],
     members : {f \in [Definitions -> Owners] :
                  \A d \in Definitions : f[d] = Root \/ f[f[d]] = Root}]

UseDefInit == \E in \in UseDefInputs : UseDefStart(in.uses, in.members)

(* The part is done with: `kept` is the length the matching list is cut to.   *)
Took(part) == [Top EXCEPT !.todo = @ \ {part}]

(* A use is noted in the matching list for as long as its visit lasts.        *)
Noted(part) ==
    IF part.kind = "use"
    THEN Append(matchings, [user |-> Top.owner, used |-> part.of])
    ELSE matchings

(* Faulty: the walk of the owner stops at a part visited before.              *)
Skip_TheRest(part) ==
    /\ outcome = "running"
    /\ part \in Top.todo
    /\ ~InProgress(part.of)
    /\ part.of \in visited
    /\ frames' = [frames EXCEPT ![Depth].todo = {}]
    /\ UNCHANGED <<usesOf, memberOf, matchings, visited, outcome>>

(* Faulty: the visitor does not move on from a part visited before.           *)
Skip_AndStay(part) ==
    /\ outcome = "running"
    /\ part \in Top.todo
    /\ ~InProgress(part.of)
    /\ part.of \in visited
    /\ UNCHANGED udVars

(* visit_def_post on a definition visited before.                             *)
Skip(part) ==
    /\ outcome = "running"
    /\ part \in Top.todo
    /\ ~InProgress(part.of)
    /\ part.of \in visited
    /\ frames' = [frames EXCEPT ![Depth] = Took(part)]
    /\ UNCHANGED <<usesOf, memberOf, matchings, visited, outcome>>

(* visit_use and visit_def_post: go into a definition not visited before.     *)
Enter(part) ==
    /\ outcome = "running"
    /\ part \in Top.todo
    /\ ~InProgress(part.of)
    /\ part.of \notin visited
    /\ frames' = Append([frames EXCEPT ![Depth] = Took(part)],
                        Frame(part.of, Len(matchings)))
    /\ matchings' = Noted(part)
    /\ UNCHANGED <<usesOf, memberOf, visited, outcome>>

(* visit_def_post on a definition on the path: report, and break off.         *)
Report(part) ==
    /\ outcome = "running"
    /\ part \in Top.todo
    /\ InProgress(part.of)
    /\ frames' = [frames EXCEPT ![Depth] = Took(part)]
    /\ matchings' = Noted(part)
    /\ outcome' = "cycle"
    /\ UNCHANGED <<usesOf, memberOf, visited>>

(* Faulty: the matching list is not cut back.                                 *)
Leave_KeepsMatching ==
    /\ outcome = "running"
    /\ Depth > 1
    /\ Top.todo = {}
    /\ frames' = SubSeq(frames, 1, Depth - 1)
    /\ visited' = visited \cup {Top.owner}
    /\ UNCHANGED <<usesOf, memberOf, matchings, outcome>>

(* The definition has been visited: off the path, and the list is cut back.   *)
Leave ==
    /\ outcome = "running"
    /\ Depth > 1
    /\ Top.todo = {}
    /\ frames' = SubSeq(frames, 1, Depth - 1)
    /\ matchings' = SubSeq(matchings, 1, Top.kept)
    /\ visited' = visited \cup {Top.owner}
    /\ UNCHANGED <<usesOf, memberOf, outcome>>

(* All translation units are walked: the analysis goes on.                    *)
Pass ==
    /\ outcome = "running"
    /\ Depth = 1
    /\ Top.todo = {}
    /\ outcome' = "passed"
    /\ UNCHANGED <<usesOf, memberOf, frames, matchings, visited>>

UseDefNext ==
    \/ \E part \in Part : Skip(part) \/ Enter(part) \/ Report(part)
    \/ Leave
    \/ Pass

UseDefSpec == UseDefInit /\ [][UseDefNext]_udVars /\ WF_udVars(UseDefNext)
-----------------------------------------------------------------------------
(* What evaluating d evaluates: its uses and its members.                     *)
Feeds(d) == usesOf[d] \cup {e \in Definitions : memberOf[e] = d}

(* Every set of definitions has one that feeds on none of the set: recursion  *)
(* over the uses always comes to an end.                                      *)
GroundedIn(S) ==
    \A T \in (SUBSET S) \ {{}} : \E d \in T : Feeds(d) \cap T = {}

(* The analysis only goes on to the passes that evaluate by recursion when    *)
(* that recursion ends, on every definition and not only on those that one    *)
(* translation unit names.                                                    *)
PassedMeansGrounded == outcome = "passed" => GroundedIn(Definitions)

(* It only breaks off for a cycle there is; the definitions shared by several *)
(* users, which are met again and again, are no cycle.                        *)
StoppedMeansCycle == outcome = "cycle" => ~GroundedIn(Definitions)

(* The list that explains the error is one path of uses: each is made by the  *)
(* definition named before, or by a member of it, whatever was walked and     *)
(* finished between them.                                                     *)
ErrorShowsAPath ==
    outcome = "cycle" =>
        /\ matchings # <<>>
        /\ \A i \in DOMAIN matchings : matchings[i].used \in usesOf[matchings[i].user]
        /\ \A i \in 2..Len(matchings) :
              matchings[i - 1].used \in {matchings[i].user, memberOf[matchings[i].user]}
=============================================================================
