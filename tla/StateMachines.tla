--------------------------- MODULE StateMachines ---------------------------
(***************************************************************************)
(* State machine definitions and what the analysis computes of them: the     *)
(* checks of initial transitions and signals, the transition graph and its   *)
(* reachable nodes, the types at choices, and the flattened transitions.     *)
(* Actions, guards and the entry and exit actions of a state stand for what  *)
(* the definition lists; a transition's `sites` are the types its actions    *)
(* (and a choice's its guard) want to be called with.                        *)
(***************************************************************************)
EXTENDS StateMachineNodes, Naturals, Sequences, SequencesExt

NoType == [kind |-> "none", width |-> 0]
TypeOption == Types \cup {NoType}

(* Types have a width; among the strings is the one whose size is not given.  *)
ASSUME TypesAssumption ==
    /\ Types \subseteq [kind : STRING, width : Nat]
    /\ \A t \in Types : t.kind = "string" => [kind |-> "string", width |-> 0] \in Types

(* A machine:                                                                 *)
(*   parent[n]   the state that contains n, or TopLevel                       *)
(*   initial[p]  the initial transitions of a scope, in the order of the text *)
(*   on[s]       the transitions of a state, in the order of the text         *)
(*   choice[c]   the two branches, and the sites of the guard                 *)
(*   carries[g]  the type of a signal                                         *)
(*   text        the nodes, in the order of their definitions                 *)
(*   resolved    every use names a definition                                 *)
NodesIn(m) == ToSet(m.text)
StatesIn(m) == States \cap NodesIn(m)
ChoicesIn(m) == ChoiceDefs \cap NodesIn(m)
ScopesIn(m) == StatesIn(m) \cup {TopLevel}
Substates(m, p) == {s \in StatesIn(m) : m.parent[s] = p}
Leaf(m, s) == Substates(m, s) = {}

(* What the syntax tree and the resolution of names give: definitions nest in *)
(* states, and where every use is resolved it names a node of the machine.    *)
Sites == SUBSET TypeOption
Enters == [to : Nodes, sites : Sites]
LegalMachine(m) ==
    /\ m.text \in Seq(Nodes)
    /\ \A n \in NodesIn(m) : m.parent[n] \in ScopesIn(m)
    /\ \A T \in (SUBSET NodesIn(m)) \ {{}} : \E n \in T : m.parent[n] \notin T
    /\ \A p \in ScopesIn(m) : m.initial[p] \in Seq(Enters)
    /\ \A s \in StatesIn(m) :
          m.on[s] \in Seq([signal : Signals, to : Nodes \cup {Stay}, sites : Sites])
    /\ \A c \in ChoicesIn(m) :
          m.choice[c] \in [if : Enters, else : Enters, guard : Sites]
    /\ m.carries \in [Signals -> TypeOption]
    /\ m.resolved =>
          /\ \A p \in ScopesIn(m) : \A i \in DOMAIN m.initial[p] :
                m.initial[p][i].to \in NodesIn(m)
          /\ \A s \in StatesIn(m) : \A i \in DOMAIN m.on[s] :
                m.on[s][i].to \in NodesIn(m) \cup {Stay}
          /\ \A c \in ChoicesIn(m) : \A b \in {"if", "else"} :
                m.choice[c][b].to \in NodesIn(m)

-----------------------------------------------------------------------------
(* check_one_initial_transition, for the machine and for each state that has  *)
(* substates or an initial transition.                                        *)
OneInitial(m) ==
    /\ Len(m.initial[TopLevel]) = 1
    /\ \A s \in StatesIn(m) :
          ~Leaf(m, s) \/ m.initial[s] # <<>> => Len(m.initial[s]) = 1

(* check_for_dest_outside_parent: the target of an initial transition of p is  *)
(* defined in p, and so is all that the choices defined in p lead it to.      *)
BranchTargets(m, c) == {m.choice[c].if.to, m.choice[c].else.to}

(* Faulty: the branches of a choice are not looked at.                        *)
StaysInside_Shallow(m, p, target) == m.parent[target] = p

StaysInside(m, p, target) ==
    \E S \in SUBSET {n \in NodesIn(m) : m.parent[n] = p} :
        /\ target \in S
        /\ \A c \in S \cap ChoiceDefs : BranchTargets(m, c) \subseteq S

InitialStaysInside(m) ==
    \A p \in ScopesIn(m) : \A i \in DOMAIN m.initial[p] :
        StaysInside(m, p, m.initial[p][i].to)

(* CheckSignalUses: a state handles a signal once.                            *)
SignalsOnce(m) ==
    \A s \in StatesIn(m) : \A i, j \in DOMAIN m.on[s] :
        m.on[s][i].signal = m.on[s][j].signal => i = j

-----------------------------------------------------------------------------
(* ConstructTransitionGraph: the arcs, in the order they are added.  An arc   *)
(* knows the element it stands for: the initial transition of a state, a      *)
(* transition of a state on a signal, or a branch of a choice.  The machine's *)
(* own initial transition is no arc; it sets initial_node.  The initial       *)
(* transition of a state is taken to come before its other transitions; the   *)
(* code takes them as written, and the other order can only refuse more: a    *)
(* mismatch of types at a choice, never accept it.                            *)
ArcOf(n, kind, i, target) == [from |-> n, by |-> kind, label |-> i, to |-> target]
StateArcs(m, s) ==
    [i \in DOMAIN m.initial[s] |-> ArcOf(s, "initial", i, m.initial[s][i].to)] \o
    [i \in DOMAIN m.on[s] |-> ArcOf(s, "signal", i, m.on[s][i].to)]
ChoiceArcs(m, c) ==
    <<ArcOf(c, "choice", "if", m.choice[c].if.to),
      ArcOf(c, "choice", "else", m.choice[c].else.to)>>
ArcsOf(m, n) == IF n \in States THEN StateArcs(m, n) ELSE ChoiceArcs(m, n)

(* The arcs of a list that lead to one of the targets, in their order.        *)
ArcsTo(list, targets) ==
    LET upTo[i \in 0..Len(list)] ==
          IF i = 0 THEN <<>>
          ELSE IF list[i].to \in targets THEN Append(upTo[i - 1], list[i]) ELSE upTo[i - 1]
    IN  upTo[Len(list)]

TransitionGraph(m) ==
    ArcsTo(FlattenSeq([i \in DOMAIN m.text |-> ArcsOf(m, m.text[i])]), Nodes)

InitialNode(m) == m.initial[TopLevel][Len(m.initial[TopLevel])].to

(* ReachableNodes: what is in every set that holds the initial node and all   *)
(* that the arcs from it lead to.                                             *)
ReachableNodes(graph, start) ==
    {n \in Nodes :
        \A S \in SUBSET Nodes :
            /\ start \in S
            /\ \A i \in DOMAIN graph : graph[i].from \in S => graph[i].to \in S
            => n \in S}

-----------------------------------------------------------------------------
(* TypeOption::common_type: the set of the common type, empty on a mismatch.  *)
Ordered == {"signed", "unsigned", "float"}

(* Faulty: the narrower of two types is taken.                                *)
CommonType_Narrower(t1, t2) ==
    IF NoType \in {t1, t2} THEN {NoType}
    ELSE IF t1 = t2 THEN {t1}
    ELSE IF t1.kind # t2.kind THEN {}
    ELSE IF t1.kind \in Ordered THEN {IF t2.width < t1.width THEN t2 ELSE t1}
    ELSE IF t1.kind = "string" THEN {[kind |-> "string", width |-> 0]}
    ELSE {}

CommonType(t1, t2) ==
    IF NoType \in {t1, t2} THEN {NoType}
    ELSE IF t1 = t2 THEN {t1}
    ELSE IF t1.kind # t2.kind THEN {}
    ELSE IF t1.kind \in Ordered THEN {IF t2.width > t1.width THEN t2 ELSE t1}
    ELSE IF t1.kind = "string" THEN {[kind |-> "string", width |-> 0]}
    ELSE {}

(* TypeOption::is_convertible_to                                              *)
Convertible(t1, t2) ==
    \/ t2 = NoType
    \/ /\ t1 # NoType
       /\ \/ t1 = t2
          \/ /\ t1.kind = t2.kind
             /\ \/ t1.kind \in Ordered /\ t2.width >= t1.width
                \/ t1.kind = "string"

(* get_reverse_graph: the arcs into a choice, in the order of the graph.      *)
ArcsInto(graph, c) == ArcsTo(graph, {c})

(* common_type_at_choice: a mismatch is reported and leaves no type.          *)
AtChoice == [type : TypeOption, mismatch : BOOLEAN]
Accumulate ==
    [acc \in AtChoice |-> [t \in TypeOption |->
        IF CommonType(acc.type, t) = {} THEN [type |-> NoType, mismatch |-> TRUE]
        ELSE [type     |-> CHOOSE u \in CommonType(acc.type, t) : TRUE,
              mismatch |-> acc.mismatch]]]

(* choice_typed_element: the types behind the arcs into a choice, in turn.    *)
TypeOfAll(list) ==
    LET upTo[i \in 1..Len(list)] ==
          IF i = 1 THEN [type |-> list[1], mismatch |-> FALSE]
          ELSE Accumulate[upTo[i - 1]][list[i]]
    IN  IF list = <<>> THEN [type |-> NoType, mismatch |-> FALSE] ELSE upTo[Len(list)]

(* ComputeTypeOptionMap: the types at the choices.  The type behind an arc is *)
(* that of its element; both branches of a choice are the choice.             *)
ElementType(m, at, a) ==
    CASE a.by = "initial" -> NoType
      [] a.by = "signal"  -> m.carries[m.on[a.from][a.label].signal]
      [] a.by = "choice"  -> at[a.from].type
TypeOptionMap(m, graph) ==
    LET at[c \in ChoiceDefs] ==
          LET into == ArcsInto(graph, c)
          IN  TypeOfAll([i \in DOMAIN into |-> ElementType(m, at, into[i])])
    IN  at

(* CheckActionAndGuardTypes; the entry and exit actions of states, which are  *)
(* checked like those of initial transitions, are left out.                   *)
SitesOf(m, c) ==
    m.choice[c].guard \cup m.choice[c].if.sites \cup m.choice[c].else.sites
CallSitesFit(m, typeAt) ==
    /\ \A p \in ScopesIn(m) : \A i \in DOMAIN m.initial[p] :
          \A t \in m.initial[p][i].sites : Convertible(NoType, t)
    /\ \A s \in StatesIn(m) : \A i \in DOMAIN m.on[s] :
          \A t \in m.on[s][i].sites : Convertible(m.carries[m.on[s][i].signal], t)
    /\ \A c \in ChoicesIn(m) : \A t \in SitesOf(m, c) : Convertible(typeAt[c].type, t)

-----------------------------------------------------------------------------
(* get_parent_state_list: the states around a node, outermost first.          *)
ParentStates(m, n) ==
    LET up[x \in NodesIn(m)] ==
          IF m.parent[x] = TopLevel THEN <<>>
          ELSE Append(up[m.parent[x]], m.parent[x])
    IN  up[n]

(* The states to exit from a source: a state is in itself, a choice is not.   *)
SourceStates(m, n) ==
    IF n \in States THEN Append(ParentStates(m, n), n) ELSE ParentStates(m, n)

(* ConstructFlattenedTransition: exit actions innermost first, the actions of *)
(* the transition, entry actions outermost first; the target's own are left   *)
(* to whoever enters it.                                                      *)
Exits(list) == [i \in 1..Len(list) |-> [do |-> "exit", state |-> list[Len(list) + 1 - i]]]
Entries(list) == [i \in 1..Len(list) |-> [do |-> "entry", state |-> list[i]]]

(* Faulty: the source's parents are exited, but not the source itself.        *)
Flatten_SourceKept(m, source, target) ==
    LET from == ParentStates(m, source)
        into == ParentStates(m, target)
        k    == Len(LongestCommonPrefix({from, into}))
    IN  [actions |-> Exits(SubSeq(from, k + 1, Len(from)))
                        \o Entries(SubSeq(into, k + 1, Len(into))),
         to |-> target]

Flatten(m, source, target) ==
    LET from == SourceStates(m, source)
        into == ParentStates(m, target)
        k    == Len(LongestCommonPrefix({from, into}))
    IN  [actions |-> Exits(SubSeq(from, k + 1, Len(from)))
                        \o Entries(SubSeq(into, k + 1, Len(into))),
         to |-> target]

(* The signal map of a state: its own transitions override those of the       *)
(* states around it, and of two for one signal the last one is kept.          *)
Own(m, s, g) == {i \in DOMAIN m.on[s] : m.on[s][i].signal = g}
Handler(m, s, g) ==
    LET by[x \in StatesIn(m)] ==
          IF Own(m, x, g) # {}
          THEN {m.on[x][CHOOSE i \in Own(m, x, g) : \A j \in Own(m, x, g) : j <= i]}
          ELSE IF m.parent[x] = TopLevel THEN {} ELSE by[m.parent[x]]
    IN  by[s]

(* ComputeFlattenedStateTransitionMap: what each leaf does on each signal it  *)
(* handles.                                                                   *)
FlattenedStates(m) ==
    [s \in {s \in StatesIn(m) : Leaf(m, s)} |->
        [g \in {g \in Signals : Handler(m, s, g) # {}} |->
            LET t == CHOOSE t \in Handler(m, s, g) : TRUE
            IN  IF t.to = Stay THEN [actions |-> <<>>, to |-> Stay]
                ELSE Flatten(m, s, t.to)]]

(* ComputeFlattenedChoiceTransitionMap                                        *)
FlattenedChoices(m) ==
    [c \in ChoicesIn(m) |-> [b \in {"if", "else"} |-> Flatten(m, c, m.choice[c][b].to)]]
=============================================================================
