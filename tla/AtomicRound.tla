---------------------------- MODULE AtomicRound ----------------------------
(***************************************************************************)
(* What a round is to the job that runs it: it is persisted for all agents *)
(* at once, or not at all, and ends once.  After its end nothing that is   *)
(* still running changes the status or the rows.                           *)
(***************************************************************************)
CONSTANT Agents

VARIABLES
    outcome,    \* "running", or how the round ended
    responses,  \* agents with a row of the round
    status      \* of the simulation

vars == <<outcome, responses, status>>

Init == outcome = "running" /\ responses = {} /\ status = "simulating"

Persist ==
    /\ outcome = "running" /\ responses' = Agents
    /\ UNCHANGED <<outcome, status>>

Finish ==
    /\ outcome = "running" /\ responses = Agents
    /\ outcome' = "done"
    /\ UNCHANGED <<responses, status>>

\* The failure and the status are written together.
Fail ==
    /\ outcome = "running"
    /\ outcome' = "failed" /\ status' = "failed"
    /\ UNCHANGED responses

Cancel ==
    /\ outcome = "running"
    /\ outcome' = "cancelled"
    /\ UNCHANGED <<responses, status>>

Next == Persist \/ Finish \/ Fail \/ Cancel

Spec == Init /\ [][Next]_vars
=============================================================================
