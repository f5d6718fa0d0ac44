------------------------- MODULE StateMachinePasses -------------------------
(***************************************************************************)
(* The passes over one state machine, in their order and with their gates    *)
(* (CheckStateMachineSemantics), and what the result is for: a machine that  *)
(* was accepted is run by its flattened transitions.                         *)
(***************************************************************************)
EXTENDS StateMachines, ChoiceCycles

VARIABLES
    machine,   \* the definition
    pass,      \* the pass to run next, "blocked", or "analysed"
    errors,    \* the kinds of errors emitted
    graph,     \* transition_graph
    types,     \* type_option_map at the choices
    onSignal,  \* flattened_state_transition_map
    onBranch,  \* flattened_choice_transition_map
    active,    \* the states the running machine is in, outermost first
    agenda,    \* the exit and entry actions still to run
    goal,      \* the node to enter then, or Stay
    value      \* the type of the value that came with the signal

smTables == <<graph, types, onSignal, onBranch>>
smRun    == <<active, agenda, goal, value>>
smVars   == <<machine, pass, errors, smTables, smRun, ccVars>>

Untyped == [c \in ChoiceDefs |-> [type |-> NoType, mismatch |-> FALSE]]

(* The analysis of machine m is about to start.                               *)
StateMachineStart(m) ==
    /\ machine = m
    /\ pass = "uses"
    /\ errors = {}
    /\ graph = <<>>
    /\ types = Untyped
    /\ onSignal = [s \in {} |-> {}]
    /\ onBranch = [c \in {} |-> {}]
    /\ active = <<>> /\ agenda = <<>> /\ goal = Stay /\ value = NoType
    /\ Searching({}, {})

(* The pass emits the errors, of which the blocking ones stop the passes.     *)
Emits(found, blocking, next) ==
    /\ errors' = errors \cup found
    /\ pass' = IF blocking THEN "blocked" ELSE next

(* EnterStateMachineSymbols and CheckStateMachineUses                         *)
CheckUses ==
    /\ pass = "uses"
    /\ Emits(IF machine.resolved THEN {} ELSE {"unresolved"},
             ~machine.resolved, "initial")
    /\ UNCHANGED <<machine, smTables, smRun, ccVars>>

(* CheckInitialTransitions and CheckSignalUses: the gate is after both.       *)
CheckInitialAndSignals ==
    /\ pass = "initial"
    /\ Emits((IF OneInitial(machine) THEN {} ELSE {"initial count"})
               \cup (IF InitialStaysInside(machine) THEN {} ELSE {"initial outside"})
               \cup (IF SignalsOnce(machine) THEN {} ELSE {"duplicate signal"}),
             ~OneInitial(machine), "graph")
    /\ UNCHANGED <<machine, smTables, smRun, ccVars>>

(* ConstructTransitionGraph                                                   *)
BuildGraph ==
    /\ pass = "graph"
    /\ graph' = TransitionGraph(machine)
    /\ pass' = "reachability"
    /\ UNCHANGED <<machine, errors, types, onSignal, onBranch, smRun, ccVars>>

(* CheckTGReachability; the search for cycles of choices starts then, on the  *)
(* arcs between choices.                                                      *)
CheckReachability ==
    /\ pass = "reachability"
    /\ Emits(IF NodesIn(machine) \subseteq ReachableNodes(graph, InitialNode(machine))
             THEN {} ELSE {"unreachable"},
             FALSE, "cycles")
    /\ arcs' = {a \in Arc : /\ a.from \in ChoicesIn(machine)
                            /\ machine.choice[a.from][a.branch].to = a.to}
    /\ starts' = ChoicesIn(machine)
    /\ UNCHANGED <<path, path_list, reported, cyclic, acyclic>>
    /\ UNCHANGED <<machine, smTables, smRun>>

SearchCycles ==
    /\ pass = "cycles"
    /\ ChoiceCyclesNext
    /\ UNCHANGED <<machine, pass, errors, smTables, smRun>>

(* Faulty: a cycle is reported and the passes go on.                          *)
CyclesGate_Open ==
    /\ pass = "cycles"
    /\ Searched
    /\ Emits(IF cyclic THEN {"choice cycle"} ELSE {}, FALSE, "types")
    /\ UNCHANGED <<machine, smTables, smRun, ccVars>>

CyclesGate ==
    /\ pass = "cycles"
    /\ Searched
    /\ Emits(IF cyclic THEN {"choice cycle"} ELSE {}, cyclic, "types")
    /\ UNCHANGED <<machine, smTables, smRun, ccVars>>

(* CheckTypedElements                                                         *)
CheckTypes ==
    /\ pass = "types"
    /\ types' = TypeOptionMap(machine, graph)
    /\ Emits((IF \E c \in ChoiceDefs : types'[c].mismatch THEN {"choice type"} ELSE {})
               \cup (IF CallSitesFit(machine, types') THEN {} ELSE {"call site type"}),
             FALSE, "flatten")
    /\ UNCHANGED <<machine, graph, onSignal, onBranch, smRun, ccVars>>

(* ComputeFlattenedStateTransitionMap, ComputeFlattenedChoiceTransitionMap    *)
FlattenTransitions ==
    /\ pass = "flatten"
    /\ onSignal' = FlattenedStates(machine)
    /\ onBranch' = FlattenedChoices(machine)
    /\ pass' = "analysed"
    /\ goal' = InitialNode(machine)
    /\ UNCHANGED <<machine, errors, graph, types, active, agenda, value, ccVars>>

-----------------------------------------------------------------------------
(* The machine the flattened transitions describe.  Code is generated from    *)
(* an analysis without errors only.                                           *)
Accepted == pass = "analysed" /\ errors = {}
Running == Accepted /\ goal # Stay

(* The next exit or entry action is run.                                      *)
Act ==
    /\ Running
    /\ agenda # <<>>
    /\ active' = IF Head(agenda).do = "exit"
                 THEN SubSeq(active, 1, Len(active) - 1)
                 ELSE Append(active, Head(agenda).state)
    /\ agenda' = Tail(agenda)
    /\ UNCHANGED <<machine, pass, errors, smTables, goal, value, ccVars>>

(* A choice is reached: its guard picks the branch, on the value as the type  *)
(* of the choice.                                                             *)
Choose ==
    /\ Running
    /\ agenda = <<>>
    /\ goal \in ChoiceDefs
    /\ value' = types[goal].type
    /\ \E b \in {"if", "else"} :
          /\ agenda' = onBranch[goal][b].actions
          /\ goal' = onBranch[goal][b].to
    /\ UNCHANGED <<machine, pass, errors, smTables, active, ccVars>>

(* A state is entered, and its initial transition taken if it has one.        *)
EnterState ==
    /\ Running
    /\ agenda = <<>>
    /\ goal \in States
    /\ active' = Append(active, goal)
    /\ value' = NoType
    /\ goal' = IF machine.initial[goal] = <<>> THEN Stay
               ELSE machine.initial[goal][1].to
    /\ UNCHANGED <<machine, pass, errors, smTables, agenda, ccVars>>

RunStep == Act \/ Choose \/ EnterState

(* A signal arrives at rest; the innermost state decides.                     *)
Dispatch(g) ==
    /\ Accepted
    /\ goal = Stay
    /\ LET leaf == active[Len(active)]
       IN  /\ leaf \in DOMAIN onSignal
           /\ g \in DOMAIN onSignal[leaf]
           /\ agenda' = onSignal[leaf][g].actions
           /\ goal' = onSignal[leaf][g].to
    /\ value' = machine.carries[g]
    /\ UNCHANGED <<machine, pass, errors, smTables, active, ccVars>>

PassStep ==
    \/ CheckUses \/ CheckInitialAndSignals \/ BuildGraph \/ CheckReachability
    \/ SearchCycles \/ CyclesGate \/ CheckTypes \/ FlattenTransitions

-----------------------------------------------------------------------------
(* The passes that recurse over choices only see graphs where that ends.      *)
RecursionEnds == pass \in {"types", "flatten", "analysed"} => WellFounded(ChoiceDefs)

(* A state is exited as the innermost active one, and entered directly into   *)
(* its parent; a choice is reached with exactly the states around it active;  *)
(* at rest the machine is in a leaf.  Whatever chain of choices, initial      *)
(* transitions and inherited handlers led there.                              *)
ContextOf(n) == active = ParentStates(machine, n)
ActionsRunInContext ==
    Accepted =>
        /\ agenda # <<>> =>
              IF Head(agenda).do = "exit"
              THEN active = SourceStates(machine, Head(agenda).state)
              ELSE ContextOf(Head(agenda).state)
        /\ agenda = <<>> /\ goal # Stay => ContextOf(goal)
        /\ goal = Stay =>
              /\ active # <<>>
              /\ Leaf(machine, active[Len(active)])
              /\ active = SourceStates(machine, active[Len(active)])

(* A choice that the machine's initial transition enters and others too: the  *)
(* arcs into it leave out the initial transition.                             *)
EnteredBare(c) ==
    c = InitialNode(machine) /\ \E i \in DOMAIN graph : graph[i].to = c

(* Whatever path leads to a choice, the value that came with the signal, or   *)
(* none, suits the guard and the actions of the choice.                       *)
Suits(c) == \A t \in SitesOf(machine, c) : Convertible(value, t)
ValuesSuitTheirSites ==
    Accepted /\ agenda = <<>> /\ goal \in ChoiceDefs
        /\ ~(\E c \in ChoicesIn(machine) : EnteredBare(c)) => Suits(goal)

(* ... also where the machine starts.                                         *)
InitialTransitionsAreTyped ==
    Accepted /\ agenda = <<>> /\ goal \in ChoiceDefs => Suits(goal)

=============================================================================
