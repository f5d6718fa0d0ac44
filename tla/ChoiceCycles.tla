---------------------------- MODULE ChoiceCycles ----------------------------
(***************************************************************************)
(* The search for cycles of choices in the transition graph of a state       *)
(* machine (CheckChoiceCycles).  Each choice is searched from with an empty  *)
(* path; nothing is remembered between two searches but the cycles reported. *)
(* The path is a set, restored on the way back, and a list of the arcs       *)
(* taken, which is not: arcs of finished branches stay in it, and a cycle    *)
(* has to be picked out of it.  The order in which choices and arcs were     *)
(* added to the graph is abstracted: they are taken in any order.            *)
(***************************************************************************)
EXTENDS StateMachineNodes, Naturals, Sequences

VARIABLES
    arcs,      \* the arcs of the graph from choice to choice (input)
    starts,    \* the choices still to search from
    path,      \* the calls of `visit` in progress, outermost first
    path_list, \* the arcs taken in this search, latest first
    reported,  \* reported_cycles
    cyclic,    \* some search has found a cycle: sets blocking_error
    acyclic    \* history: the choices from which a visit has come back

ccVars == <<arcs, starts, path, path_list, reported, cyclic, acyclic>>

(* A choice has two arcs, told apart by the branch they belong to.            *)
Arc == [from : ChoiceDefs, branch : {"if", "else"}, to : ChoiceDefs]

ArcsFrom(c) == {a \in arcs : a.from = c}

(* Faulty: the graph keeps one arc of a choice.                               *)
Visit_OneArc(c) == [choice |-> c, rest |-> {a \in ArcsFrom(c) : a.branch = "if"}]

Visit(c) == [choice |-> c, rest |-> ArcsFrom(c)]

Innermost == path[Len(path)]
OnThePath(c) == \E i \in 1..Len(path) : path[i].choice = c

-----------------------------------------------------------------------------
(* Faulty: every arc of the list, those of finished branches too.             *)
CycleArcs_Unfiltered(list, c) == {list[i] : i \in 1..Len(list)}

(* Cycle::arcs: follow the list, latest arc first, backwards from choice c;   *)
(* `end` is the choice the next arc has to end at, or the search is `done`.    *)
CycleArcs(list, c) ==
    LET walk[i \in 0..Len(list)] ==
          IF i = 0 THEN [end |-> c, taken |-> {}, done |-> FALSE]
          ELSE LET w == walk[i - 1]
                   a == list[i]
               IN  IF w.done \/ a.to # w.end THEN w
                   ELSE [end   |-> a.from,
                         taken |-> w.taken \cup {a},
                         done  |-> a.from = c]
    IN  walk[Len(list)].taken

-----------------------------------------------------------------------------
(* The state before the search of a graph.                                    *)
Searching(A, from) ==
    /\ arcs = A
    /\ starts = from
    /\ path = <<>>
    /\ path_list = <<>>
    /\ reported = {}
    /\ cyclic = FALSE
    /\ acyclic = {}

ChoiceCyclesInit == \E A \in SUBSET Arc : Searching(A, ChoiceDefs)

SearchFrom(c) ==
    /\ path = <<>>
    /\ c \in starts
    /\ starts' = starts \ {c}
    /\ path' = <<Visit(c)>>
    /\ path_list' = <<>>
    /\ UNCHANGED <<arcs, reported, cyclic, acyclic>>

(* The arc leads to a choice that is not on the path: visit it.               *)
Follow(a) ==
    /\ path # <<>>
    /\ a \in Innermost.rest
    /\ ~OnThePath(a.to)
    /\ path' = Append([path EXCEPT ![Len(path)].rest = @ \ {a}], Visit(a.to))
    /\ path_list' = <<a>> \o path_list
    /\ UNCHANGED <<arcs, starts, reported, cyclic, acyclic>>

(* The arc returns to the path: the search ends with the error of the cycle,  *)
(* which is not emitted again if it has been before.                          *)
Close(a) ==
    /\ path # <<>>
    /\ a \in Innermost.rest
    /\ OnThePath(a.to)
    /\ path' = <<>>
    /\ path_list' = <<a>> \o path_list
    /\ reported' = reported \cup {CycleArcs(path_list', a.to)}
    /\ cyclic' = TRUE
    /\ UNCHANGED <<arcs, starts, acyclic>>

(* All arcs of the choice have been followed: path_set is restored.           *)
Return ==
    /\ path # <<>>
    /\ Innermost.rest = {}
    /\ path' = SubSeq(path, 1, Len(path) - 1)
    /\ acyclic' = acyclic \cup {Innermost.choice}
    /\ UNCHANGED <<arcs, starts, path_list, reported, cyclic>>

Searched == path = <<>> /\ starts = {}

ChoiceCyclesNext ==
    \/ \E c \in ChoiceDefs : SearchFrom(c)
    \/ \E a \in arcs : Follow(a) \/ Close(a)
    \/ Return

ChoiceCyclesSpec == ChoiceCyclesInit /\ [][ChoiceCyclesNext]_ccVars

-----------------------------------------------------------------------------
(* No non-empty set of choices in S has, for each of its members, an arc that  *)
(* stays in the set: following arcs from S always comes to an end.            *)
WellFounded(S) ==
    \A T \in (SUBSET S) \ {{}} :
        \E c \in T : \A a \in ArcsFrom(c) : a.to \notin T

(* What the passes after this one rely on when they recurse over the choices: *)
(* if no search has found a cycle, there is none.  And a machine is only      *)
(* rejected for a cycle it has.                                               *)
BlockedIffCyclic == Searched => (cyclic <=> ~WellFounded(ChoiceDefs))

(* The arcs of one reported cycle lead round one cycle, each once: no arc of  *)
(* a branch that was finished before, or of the way to the cycle, among them. *)
IsCycle(A) ==
    /\ A # {} /\ A \subseteq arcs
    /\ \A a, b \in A : (a.from = b.from) => (a = b)
    /\ {a.to : a \in A} = {a.from : a \in A}
    /\ \A B \in (SUBSET A) \ {{}, A} :
          {a.to : a \in B} # {a.from : a \in B}
ReportedCyclesAreCycles == \A A \in reported : IsCycle(A)
=============================================================================
