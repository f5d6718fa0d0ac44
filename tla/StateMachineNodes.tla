------------------------- MODULE StateMachineNodes -------------------------
(***************************************************************************)
(* What a state machine is made of.                                          *)
(***************************************************************************)
EXTENDS FiniteSets

CONSTANTS
    States, ChoiceDefs, Signals,
    TopLevel,   \* the parent of what no state contains
    Stay,       \* the target of an internal transition
    Types       \* the types of signals and parameters

ASSUME NodesAssumption ==
    /\ States \cap ChoiceDefs = {}
    /\ {TopLevel, Stay} \cap (States \cup ChoiceDefs) = {}
    /\ TopLevel # Stay
    /\ IsFiniteSet(States \cup ChoiceDefs)

Nodes == States \cup ChoiceDefs
=============================================================================
