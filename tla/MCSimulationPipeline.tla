----------------------- MODULE MCSimulationPipeline -----------------------
(***************************************************************************)
(* What the repository's comments promise about retries, stated over       *)
(* SimulationPipeline.  Each is checked by a run of its own.               *)
(***************************************************************************)
EXTENDS SimulationPipeline

\* The docs: re-enqueueing a failed simulation resumes (orchestration.py:10).
FailedRunResumes == outcome = "rejected" => startStatus # "failed"

=============================================================================
