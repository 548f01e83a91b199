------------------------------ MODULE LiveRun ------------------------------
(***************************************************************************)
(* One live_founder_brief run: create_run and the status and report        *)
(* endpoints (api/assembly_runs.py), and the background task that walks    *)
(* the assembly_runs row through the stages of the pipeline                *)
(* (LiveFounderBriefOrchestrator.run, orchestration/live_founder_brief.py).*)
(* The stages leave their artifacts in a directory of the run; the report  *)
(* endpoints read them there.                                              *)
(***************************************************************************)
EXTENDS Integers

CONSTANT NumStages      \* len(PIPELINE_STAGES), 13 in the code

ASSUME StagesAssumption == NumStages \in Nat \ {0}

VARIABLES
    \* --- the assembly_runs row
    status,     \* "none" before the row exists
    current,    \* current_stage; NumStages + 1 is "complete"
    stages,     \* stage_progress
    manifest,   \* artifact_manifest names the report files
    \* --- the disk
    durable,    \* ASSEMBLY_ARTIFACT_ROOT is on a volume
    files,      \* the artifacts of which stages are on disk
    \* --- the background task
    task, at

row == <<status, current, stages, manifest>>
vars == <<row, durable, files, task, at>>

Stages == 1 .. NumStages
Final == {"complete", "failed"}
\* Where the task no longer runs: it returned, an exception left it and was
\* logged by _spawn_live_pipeline, or its process died.
Gone == {"returned", "escaped", "dead"}
Running == {"scheduled", "prepared", "enter", "work", "leave", "failing", "finalize"}

Init ==
    /\ status = "none" /\ current = 1
    /\ stages = [s \in Stages |-> "pending"] /\ manifest = FALSE
    /\ durable \in BOOLEAN /\ files = {}
    /\ task = "none" /\ at = 1

-----------------------------------------------------------------------------
\* POST /assembly/runs commits the row; the task runs after the response.
CreateRun ==
    /\ status = "none" /\ task = "none"
    /\ status' = "running" /\ task' = "scheduled"
    /\ UNCHANGED <<current, stages, manifest, durable, files, at>>

\* The directory of the run and its cost estimate, outside of any try.  The
\* API passes neither a persona count nor a budget, so the pre-check compares
\* the estimate of 24 personas with the default cap, and passes.
Prepare ==
    /\ task = "scheduled" /\ task' = "prepared"
    /\ UNCHANGED <<row, durable, files, at>>

BeginRun ==
    /\ task = "prepared" /\ task' = "enter"
    /\ status' = "running" /\ current' = 1
    /\ UNCHANGED <<stages, manifest, durable, files, at>>

\* Mutant of EnterStage: stage_progress is written anew, not merged.
EnterStageAfresh ==
    /\ task = "enter" /\ task' = "work"
    /\ current' = at
    /\ stages' = [s \in Stages |-> IF s = at THEN "running" ELSE "pending"]
    /\ UNCHANGED <<status, manifest, durable, files, at>>

EnterStage ==
    /\ task = "enter" /\ task' = "work"
    /\ current' = at /\ stages' = [stages EXCEPT ![at] = "running"]
    /\ UNCHANGED <<status, manifest, durable, files, at>>

\* The runner of the stage returns, with its artifacts written.
StageReturns ==
    /\ task = "work" /\ task' = "leave"
    /\ files' = files \cup {at}
    /\ UNCHANGED <<row, durable, at>>

\* It raises, a StageError of its own stage or anything else, having written
\* its artifacts or not.
StageRaises ==
    /\ task = "work" /\ task' = "failing"
    /\ files' \in {files, files \cup {at}}
    /\ UNCHANGED <<row, durable, at>>

LeaveStage ==
    /\ task = "leave"
    /\ stages' = [stages EXCEPT ![at] = "complete"]
    /\ IF at = NumStages THEN task' = "finalize" /\ UNCHANGED at
                         ELSE task' = "enter" /\ at' = at + 1
    /\ UNCHANGED <<status, current, manifest, durable, files>>

\* Mutant of RecordFailure: the failure is recorded and the loop goes on.
RecordAndGoOn ==
    /\ task = "failing"
    /\ stages' = [stages EXCEPT ![at] = "failed"]
    /\ IF at = NumStages THEN task' = "finalize" /\ UNCHANGED at
                         ELSE task' = "enter" /\ at' = at + 1
    /\ UNCHANGED <<status, current, manifest, durable, files>>

\* Mutant of RecordFailure: the failed stage is tried again.
RetryStage ==
    /\ task = "failing" /\ task' = "enter"
    /\ stages' = [stages EXCEPT ![at] = "failed"]
    /\ UNCHANGED <<status, current, manifest, durable, files, at>>

RecordFailure ==
    /\ task = "failing" /\ task' = "returned"
    /\ status' = "failed" /\ current' = at
    /\ stages' = [stages EXCEPT ![at] = "failed"]
    /\ UNCHANGED <<manifest, durable, files, at>>

\* status, current_stage and the manifest in one transaction.  The rows of
\* assembly_run_artifacts that follow are read by nobody.
Finalize ==
    /\ task = "finalize" /\ task' = "returned"
    /\ status' = "complete" /\ current' = NumStages + 1
    /\ manifest' = TRUE
    /\ UNCHANGED <<stages, durable, files, at>>

-----------------------------------------------------------------------------
\* A transaction or the disk fails.  Inside the try it is one more failure of
\* the stage; outside of it the exception leaves the orchestrator, and
\* _spawn_live_pipeline logs it.
Breaks ==
    /\ task \in Running \ {"work"}
    /\ task' = IF task = "leave" THEN "failing" ELSE "escaped"
    /\ UNCHANGED <<row, durable, files, at>>

\* Mutant of Redeploy: the volume is wiped too.
RedeployWipes ==
    /\ status # "none"
    /\ task' = IF task \in Gone THEN task ELSE "dead"
    /\ files' = {}
    /\ UNCHANGED <<row, durable, at>>

\* The process dies or is replaced: its background tasks are gone, and its
\* disk too unless it is a volume.
Redeploy ==
    /\ status # "none"
    /\ task' = IF task \in Gone THEN task ELSE "dead"
    /\ files' = IF durable THEN files ELSE {}
    /\ UNCHANGED <<row, durable, at>>

TaskStep ==
    \/ Prepare \/ BeginRun \/ EnterStage \/ StageReturns \/ StageRaises
    \/ LeaveStage \/ RecordFailure \/ Finalize

Next == CreateRun \/ TaskStep \/ Breaks \/ Redeploy

Spec == Init /\ [][Next]_vars

\* The event loop runs the task; every stage returns or raises.
FairSpec == Spec /\ WF_vars(TaskStep)

-----------------------------------------------------------------------------
(* Properties.                                                             *)

\* What a GET of the report answers: the check of the status, then the file
\* that the manifest names.
ReportServed == status = "complete" /\ manifest /\ NumStages \in files

\* A report is served only when every stage of its run is complete.
ReportServedWhole == ReportServed => \A s \in Stages : stages[s] = "complete"

\* On a volume a completed run keeps every artifact through each redeploy.
ReportKept == status = "complete" /\ durable => ReportServed /\ files = Stages

\* A failed run shows exactly one failed stage, the current one; those before
\* it are complete and those after it were never begun.
FailureNamesStage ==
    status = "failed" =>
        /\ current \in Stages /\ stages[current] = "failed"
        /\ \A s \in Stages : s < current => stages[s] = "complete"
        /\ \A s \in Stages : s > current => stages[s] = "pending"

\* The progress a client polls never goes back: no completed stage is undone,
\* the current stage never an earlier one, and a final status stays.
ProgressOnlyGrows ==
    [][/\ \A s \in Stages : stages[s] = "complete" => stages'[s] = "complete"
       /\ current' >= current
       /\ status \in Final => status' = status]_vars

\* A task that nothing breaks brings its run to a final status.
TaskEnds == (task = "scheduled") ~> (task \in Gone /\ (task = "returned" => status \in Final))

-----------------------------------------------------------------------------
(* The inductive invariant of LiveRunProofs.                               *)

TypeOK ==
    /\ status \in {"none", "running"} \cup Final
    /\ current \in 1 .. NumStages + 1
    /\ stages \in [Stages -> {"pending", "running", "complete", "failed"}]
    /\ manifest \in BOOLEAN /\ durable \in BOOLEAN
    /\ files \subseteq Stages
    /\ task \in {"none"} \cup Running \cup Gone
    /\ at \in Stages

\* Behind the loop every stage is complete, ahead of it none is begun.
Walked ==
    /\ \A s \in Stages : s < at => stages[s] = "complete"
    /\ \A s \in Stages : s > at => stages[s] = "pending"

\* What the stage of the loop shows at each point of the task.
StageAtPoint ==
    /\ task \in {"none", "scheduled", "prepared"} => at = 1 /\ current = 1
    /\ task \in {"none", "scheduled", "prepared", "enter"} => stages[at] = "pending"
    /\ task \in {"work", "leave", "failing"} => stages[at] = "running"
    /\ task = "finalize" => at = NumStages /\ stages[at] = "complete"

\* What the status says of the task and of the stages.
StatusAtPoint ==
    /\ status = "none" <=> task = "none"
    /\ task \in Running => status = "running"
    /\ status = "complete" =>
           manifest /\ at = NumStages /\ stages[at] = "complete"
    /\ status = "failed" => current = at /\ stages[at] = "failed"
    /\ status # "complete" => current <= at

\* A volume holds the artifacts of what was completed, and of the stage
\* that has just returned.
FilesAtPoint ==
    /\ durable => \A s \in Stages : stages[s] = "complete" => s \in files
    /\ durable /\ task = "leave" => at \in files

IInv == TypeOK /\ Walked /\ StageAtPoint /\ StatusAtPoint /\ FilesAtPoint
=============================================================================
