--------------------------- MODULE AnalysisPasses ---------------------------
(***************************************************************************)
(* The passes of an analysis that have a state of their own, in their order  *)
(* (CheckSemantics): the check for use-def cycles, which ends the analysis   *)
(* when it breaks off, the passes over a state machine, which leave the rest *)
(* of the analysis alone, and those over topologies.                         *)
(***************************************************************************)
EXTENDS UseDefCycles, StateMachinePasses, Topologies

analysisVars == <<udVars, smVars, topVars, pnVars>>

(* The analysis of definitions, a state machine and topologies is to start.   *)
AnalysisStart(uses, members, m, ts) ==
    /\ UseDefStart(uses, members)
    /\ StateMachineStart(m)
    /\ TopologiesStart(ts)

CheckUseDefCyclesStep == UseDefNext /\ UNCHANGED <<smVars, topVars, pnVars>>
CheckStateMachineStep ==
    /\ outcome = "passed"
    /\ PassStep
    /\ UNCHANGED <<udVars, topVars, pnVars>>
ResolveTopologiesStep ==
    /\ pass \in {"blocked", "analysed"}
    /\ TopologyStep
    /\ UNCHANGED <<udVars, smVars>>

(* What a machine does is looked at when the analysis is over.                *)
RunStateMachineStep ==
    /\ TopologiesDone
    /\ RunStep
    /\ UNCHANGED <<udVars, topVars, pnVars>>
DispatchStep ==
    /\ TopologiesDone
    /\ \E g \in Signals : Dispatch(g)
    /\ UNCHANGED <<udVars, topVars, pnVars>>

AnalysisNext ==
    \/ CheckUseDefCyclesStep
    \/ CheckStateMachineStep
    \/ ResolveTopologiesStep
    \/ RunStateMachineStep
    \/ DispatchStep

(* The analysis is one thread that runs to its end, and so is the reaction of *)
(* a machine to a signal, for which the analysis has ended; nobody says that  *)
(* signals come.                                                              *)
AnalysisFairness ==
    WF_analysisVars(\/ CheckUseDefCyclesStep \/ CheckStateMachineStep
                    \/ ResolveTopologiesStep \/ RunStateMachineStep)

-----------------------------------------------------------------------------
(* Every analysis comes to an end, though its passes walk graphs of           *)
(* definitions and of choices that may have cycles, and every topology is     *)
(* entered, whatever errors those it imports had.                             *)
AnalysisEnds ==
    <>(\/ outcome = "cycle"
       \/ pass \in {"blocked", "analysed"} /\ TopologiesDone)

(* An accepted machine reacts to every signal, and starts, in finitely many   *)
(* steps: no chain of choices and initial transitions leads round.            *)
ReactionsEnd == [](Running /\ TopologiesDone => <>~Running)
=============================================================================
