--------------------------- MODULE SimulationRow ---------------------------
(***************************************************************************)
(* What a client of the API may rely on when it polls a simulation, and    *)
(* all that the pipeline promises of its row: the products are made once,  *)
(* in order, each while the status names its stage, and a failure is put   *)
(* down to the stage that was shown.  Jobs, retries, crashes and the work  *)
(* itself are hidden.                                                      *)
(***************************************************************************)
EXTENDS Integers, Sequences

CONSTANTS
    NumRounds,  \* rounds of a simulation
    Allowed     \* of a status: the ones it may change to

VARIABLES status, failedStage,
    pio, evidence, graphBuilt, society, rounds, completed, outputs

products == <<pio, evidence, graphBuilt, society, rounds, completed, outputs>>
vars == <<status, failedStage, products>>

Init ==
    /\ status = "pending" /\ failedStage = "none"
    /\ pio = FALSE /\ evidence = 0 /\ graphBuilt = FALSE /\ society = 0
    /\ rounds = <<>> /\ completed = FALSE /\ outputs = 0

-----------------------------------------------------------------------------
\* What there is before a status is shown.
Ready(next) ==
    /\ next = "evidence_building" => pio
    /\ next = "evidence_graph_building" => evidence = 1
    /\ next = "society_building" => graphBuilt
    /\ next = "simulating" => society = 1
    /\ next \in {"simulation_completed", "aggregating", "reported"} => completed
    /\ next = "reported" => outputs = 1

Enter(next) ==
    /\ next \in Allowed[status] \ {"failed"} /\ Ready(next)
    /\ status' = next
    /\ UNCHANGED <<failedStage, products>>

Fail ==
    /\ "failed" \in Allowed[status]
    /\ status' = "failed" /\ failedStage' = status
    /\ UNCHANGED products

Parse ==
    /\ status = "parsing" /\ ~pio
    /\ pio' = TRUE
    /\ UNCHANGED <<status, failedStage, evidence, graphBuilt, society, rounds,
                   completed, outputs>>

GatherEvidence ==
    /\ status = "evidence_building" /\ pio /\ evidence = 0
    /\ evidence' = 1
    /\ UNCHANGED <<status, failedStage, pio, graphBuilt, society, rounds,
                   completed, outputs>>

BuildGraph ==
    /\ status = "evidence_graph_building" /\ evidence = 1 /\ ~graphBuilt
    /\ graphBuilt' = TRUE
    /\ UNCHANGED <<status, failedStage, pio, evidence, society, rounds,
                   completed, outputs>>

BuildSociety ==
    /\ status = "society_building" /\ graphBuilt /\ society = 0
    /\ society' = 1
    /\ UNCHANGED <<status, failedStage, pio, evidence, graphBuilt, rounds,
                   completed, outputs>>

Simulate ==
    /\ status = "simulating" /\ society = 1
    /\ Len(rounds) < NumRounds /\ rounds' = Append(rounds, Len(rounds) + 1)
    /\ UNCHANGED <<status, failedStage, pio, evidence, graphBuilt, society,
                   completed, outputs>>

Complete ==
    /\ status = "simulating" /\ Len(rounds) = NumRounds /\ ~completed
    /\ completed' = TRUE
    /\ UNCHANGED <<status, failedStage, pio, evidence, graphBuilt, society,
                   rounds, outputs>>

Report ==
    /\ status = "aggregating" /\ completed /\ outputs = 0
    /\ outputs' = 1
    /\ UNCHANGED <<status, failedStage, pio, evidence, graphBuilt, society,
                   rounds, completed>>

-----------------------------------------------------------------------------
Make ==
    \/ Parse \/ GatherEvidence \/ BuildGraph \/ BuildSociety \/ Simulate
    \/ Complete \/ Report

Next == Make \/ Fail \/ \E next \in Allowed[status] : Enter(next)

Spec == Init /\ [][Next]_vars
=============================================================================
