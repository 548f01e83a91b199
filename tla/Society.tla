------------------------------ MODULE Society ------------------------------
(* The agents of a simulation: what the modules about its rounds share.     *)
EXTENDS FiniteSets

CONSTANTS
    Agents,         \* society.agents
    None            \* no agent, no shift

ASSUME AgentsAssumption == IsFiniteSet(Agents) /\ None \notin Agents
=============================================================================
