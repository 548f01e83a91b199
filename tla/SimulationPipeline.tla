------------------------- MODULE SimulationPipeline -------------------------
(***************************************************************************)
(* One simulation row and the arq job that drives it through the stages of *)
(* run_full_pipeline: the status column and its transition table           *)
(* (pipeline/progress.py), the stage functions and their idempotency       *)
(* checks (pipeline/orchestration.py), the evidence-graph builder, the     *)
(* round loop of the engine and the aggregation write.                     *)
(*                                                                         *)
(* The first group of variables is what Postgres keeps and a crash leaves  *)
(* alone; the second is the running job.  At most one job of the row runs  *)
(* at a time: a row is enqueued again only after its job has ended.        *)
(***************************************************************************)
EXTENDS Integers, Sequences

CONSTANTS
    NumRounds,      \* rounds of the engine (7 in the code)
    MaxEnqueues,    \* bound: how often the row is put on the queue
    MaxFaults       \* bound: failures, aborted jobs and worker deaths

ASSUME RoundsAssumption == NumRounds \in Nat \ {0}
ASSUME BoundsAssumption == MaxEnqueues \in Nat /\ MaxFaults \in Nat

VARIABLES
    \* --- simulations row and the rows that hang off it
    status,         \* simulations.status
    failedStage,    \* simulations.failed_stage
    errorKind,      \* simulations.error["kind"]
    pio,            \* simulations.parsed_pio is set
    evidence,       \* how many batches of evidence_items were persisted
    edges,          \* families of evidence_edges rows that exist
    graphBuilt,     \* simulations.evidence_graph_built_at is set
    society,        \* how many societies (agents + edges) were persisted
    rounds,         \* round_number of the simulation_rounds rows, oldest first
    completed,      \* simulations.completed_at is set
    outputs,        \* how many simulation_outputs rows exist
    \* --- what the brief and the configuration decide
    hasDuplicates,  \* some evidence items share a content hash
    hasCompetitors, \* some evidence items are linked by a deterministic rule
    aggregation,    \* settings.enable_aggregation
    \* --- the job
    queued,         \* the job is on the queue (arq keeps it there while it runs)
    pc,             \* where the job is, "idle" when none runs
    nextRound,      \* round_number of the engine loop
    failing,        \* stage and error handed to _mark_failed
    \* --- bookkeeping
    enqueues, faults,
    attempt,        \* number of the current (or last) job
    societyAttempt, \* the job that persisted the society, 0 before
    startStatus,    \* the status the job found
    outcome         \* how the last job ended

row == <<status, failedStage, errorKind>>
products == <<pio, evidence, edges, graphBuilt, society, rounds, completed, outputs>>
config == <<hasDuplicates, hasCompetitors, aggregation>>
history == <<attempt, societyAttempt, startStatus>>
vars == <<row, products, config, queued, pc, nextRound, failing,
          enqueues, faults, history, outcome>>

-----------------------------------------------------------------------------
(* SIMULATION_STATUS_VALUES and _ALLOWED_TRANSITIONS.                      *)

Stages == {"parsing", "evidence_building", "evidence_graph_building",
           "society_building", "simulating"}

Statuses == Stages \cup {"pending", "simulation_completed", "aggregating",
                         "reported", "failed"}

\* Mutant of AllowedTransitions: a graph retry may go on to simulating.
ResumableTransitions ==
    [pending                 |-> {"parsing", "failed"},
     parsing                 |-> {"evidence_building", "failed"},
     evidence_building       |-> {"evidence_graph_building", "society_building", "failed"},
     evidence_graph_building |-> {"society_building", "simulating", "failed"},
     society_building        |-> {"simulating", "failed"},
     simulating              |-> {"simulation_completed", "failed", "aggregating"},
     simulation_completed    |-> {"aggregating", "reported"},
     aggregating             |-> {"reported", "failed"},
     reported                |-> {},
     failed                  |-> Stages]

\* Mutant of AllowedTransitions: the row of failed forgets the graph stage.
ForgetfulTransitions ==
    [ResumableTransitions EXCEPT !.evidence_graph_building = {"society_building", "failed"},
                                 !.failed = Stages \ {"evidence_graph_building"}]

AllowedTransitions ==
    [pending                 |-> {"parsing", "failed"},
     parsing                 |-> {"evidence_building", "failed"},
     evidence_building       |-> {"evidence_graph_building", "society_building", "failed"},
     evidence_graph_building |-> {"society_building", "failed"},
     society_building        |-> {"simulating", "failed"},
     simulating              |-> {"simulation_completed", "failed", "aggregating"},
     simulation_completed    |-> {"aggregating", "reported"},
     aggregating             |-> {"reported", "failed"},
     reported                |-> {},
     failed                  |-> Stages]

\* _validate_transition: writing the same status again is fine.
MayBecome(next) == next = status \/ next \in AllowedTransitions[status]

\* The points of the job that begin with a status update, and that update.
\* None of them is inside a try block.
EntryStatus ==
    [parsing_enter    |-> "parsing",
     evidence_enter   |-> "evidence_building",
     graph_enter      |-> "evidence_graph_building",
     society_enter    |-> "society_building",
     simulating_enter |-> "simulating",
     completed_enter  |-> "simulation_completed",
     aggregate_enter  |-> "aggregating",
     reported_enter   |-> "reported"]

\* Mutant of GuardedStage: the graph's failures are blamed on the evidence.
MisattributedStage ==
    [parsing_work   |-> "parsing",
     evidence_work  |-> "evidence_building",
     graph_build    |-> "evidence_building",
     graph_dedup    |-> "evidence_building",
     graph_embed    |-> "evidence_building",
     graph_edges    |-> "evidence_building",
     graph_mark     |-> "evidence_building",
     society_work   |-> "society_building",
     engine_resume  |-> "simulating",
     round_enter    |-> "simulating",
     round_work     |-> "simulating",
     aggregate_work |-> "aggregating"]

\* The points inside a try block that _mark_failed follows, and the stage it
\* attributes the failure to.
GuardedStage ==
    [parsing_work   |-> "parsing",
     evidence_work  |-> "evidence_building",
     graph_build    |-> "evidence_graph_building",
     graph_dedup    |-> "evidence_graph_building",
     graph_embed    |-> "evidence_graph_building",
     graph_edges    |-> "evidence_graph_building",
     graph_mark     |-> "evidence_graph_building",
     society_work   |-> "society_building",
     engine_resume  |-> "simulating",
     round_enter    |-> "simulating",
     round_work     |-> "simulating",
     aggregate_work |-> "aggregating"]

Points == DOMAIN EntryStatus \cup DOMAIN GuardedStage \cup
          {"idle", "parsing_check", "evidence_check", "society_check",
           "parsing_commit", "evidence_commit", "society_commit", "marking"}

Failures == [stage : Stages \cup {"aggregating"}, kind : {"Exception", "IntegrityError"}]

-----------------------------------------------------------------------------
Init ==
    /\ status = "pending" /\ failedStage = "none" /\ errorKind = "none"
    /\ pio = FALSE /\ evidence = 0 /\ edges = {} /\ graphBuilt = FALSE
    /\ society = 0 /\ rounds = <<>> /\ completed = FALSE /\ outputs = 0
    /\ hasDuplicates \in BOOLEAN /\ hasCompetitors \in BOOLEAN
    /\ aggregation \in BOOLEAN
    /\ queued = FALSE /\ pc = "idle" /\ nextRound = 1
    /\ failing = [stage |-> "parsing", kind |-> "Exception"]
    /\ enqueues = 0 /\ faults = 0
    /\ attempt = 0 /\ societyAttempt = 0 /\ startStatus = "pending"
    /\ outcome = "none"

-----------------------------------------------------------------------------
(* The queue.                                                              *)

\* pool.enqueue_job: from create_simulation, and again by whoever retries.
Enqueue ==
    /\ ~queued /\ pc = "idle" /\ enqueues < MaxEnqueues
    /\ queued' = TRUE /\ enqueues' = enqueues + 1
    /\ UNCHANGED <<row, products, config, pc, nextRound, failing, faults,
                   history, outcome>>

\* A worker takes the job: run_pipeline calls run_full_pipeline.
PickUp ==
    /\ queued /\ pc = "idle"
    /\ pc' = "parsing_check"
    /\ attempt' = attempt + 1 /\ startStatus' = status
    /\ outcome' = "running"
    /\ UNCHANGED <<row, products, config, queued, nextRound, failing,
                   enqueues, faults, societyAttempt>>

\* The job function returns or raises: either way arq drops the job.
EndJob(result) ==
    /\ pc' = "idle" /\ queued' = FALSE /\ outcome' = result
    /\ UNCHANGED <<nextRound, failing, enqueues, history>>

Goto(point) ==
    /\ pc' = point
    /\ UNCHANGED <<queued, failing, enqueues, faults, attempt, startStatus, outcome>>

\* update_status_and_progress(new_status = EntryStatus[pc]) accepted.
EnterStatus ==
    /\ MayBecome(EntryStatus[pc])
    /\ status' = EntryStatus[pc]
    /\ UNCHANGED <<failedStage, errorKind, products, config>>

\* update_status_and_progress raises IllegalStatusTransition: the exception
\* leaves run_full_pipeline and nothing is written.
RejectTransition ==
    /\ pc \in DOMAIN EntryStatus
    /\ ~MayBecome(EntryStatus[pc])
    /\ EndJob("rejected")
    /\ UNCHANGED <<row, products, config, faults>>

-----------------------------------------------------------------------------
(* Stage 1: _stage_parsing.                                                *)

ParsingCheck ==
    /\ pc = "parsing_check"
    /\ Goto(IF pio THEN "evidence_check" ELSE "parsing_enter")
    /\ UNCHANGED <<row, products, config, nextRound, societyAttempt>>

ParsingEnter ==
    /\ pc = "parsing_enter" /\ EnterStatus /\ Goto("parsing_work")
    /\ UNCHANGED <<nextRound, societyAttempt>>

\* parse_brief returned.
ParseBrief ==
    /\ pc = "parsing_work" /\ Goto("parsing_commit")
    /\ UNCHANGED <<row, products, config, nextRound, societyAttempt>>

CachePio ==
    /\ pc = "parsing_commit" /\ Goto("evidence_check")
    /\ pio' = TRUE
    /\ UNCHANGED <<row, evidence, edges, graphBuilt, society, rounds,
                   completed, outputs, config, nextRound, societyAttempt>>

(* Stage 2: _stage_evidence.  build_evidence always returns the items of   *)
(* the brief, so a persisted batch is never empty.                         *)

EvidenceCheck ==
    /\ pc = "evidence_check"
    /\ Goto(IF evidence > 0 THEN "graph_enter" ELSE "evidence_enter")
    /\ UNCHANGED <<row, products, config, nextRound, societyAttempt>>

EvidenceEnter ==
    /\ pc = "evidence_enter" /\ EnterStatus /\ Goto("evidence_work")
    /\ UNCHANGED <<nextRound, societyAttempt>>

BuildEvidence ==
    /\ pc = "evidence_work" /\ Goto("evidence_commit")
    /\ UNCHANGED <<row, products, config, nextRound, societyAttempt>>

PersistEvidence ==
    /\ pc = "evidence_commit" /\ Goto("graph_enter")
    /\ evidence' = evidence + 1
    /\ UNCHANGED <<row, pio, edges, graphBuilt, society, rounds, completed,
                   outputs, config, nextRound, societyAttempt>>

(* Stage 2.5: _stage_evidence_graph and build_evidence_graph.  The status  *)
(* is written whether or not the graph exists.                             *)

GraphEnter ==
    /\ pc = "graph_enter" /\ EnterStatus /\ Goto("graph_build")
    /\ UNCHANGED <<nextRound, societyAttempt>>

GraphCheck ==
    /\ pc = "graph_build"
    /\ Goto(IF graphBuilt THEN "society_check" ELSE "graph_dedup")
    /\ UNCHANGED <<row, products, config, nextRound, societyAttempt>>

\* run_dedup inserts the similar_to edges of every duplicate group in one
\* transaction.  When an earlier job already did, the unique constraint
\* rejects them, unless the group, all created at one instant, comes back
\* in another order and another member is canonical.
DedupEdges ==
    /\ pc = "graph_dedup" /\ Goto("graph_embed")
    /\ edges' = IF hasDuplicates THEN edges \cup {"similar_to"} ELSE edges
    /\ UNCHANGED <<row, pio, evidence, graphBuilt, society, rounds, completed,
                   outputs, config, nextRound, societyAttempt>>

EmbedItems ==
    /\ pc = "graph_embed" /\ Goto("graph_edges")
    /\ UNCHANGED <<row, products, config, nextRound, societyAttempt>>

\* derive_deterministic_edges: its endpoints are ordered by id, so the same
\* edges come out of every call.
DeriveEdges ==
    /\ pc = "graph_edges" /\ Goto("graph_mark")
    /\ ~(hasCompetitors /\ "deterministic" \in edges)
    /\ edges' = IF hasCompetitors THEN edges \cup {"deterministic"} ELSE edges
    /\ UNCHANGED <<row, pio, evidence, graphBuilt, society, rounds, completed,
                   outputs, config, nextRound, societyAttempt>>

MarkGraphBuilt ==
    /\ pc = "graph_mark" /\ Goto("society_check")
    /\ graphBuilt' = TRUE
    /\ UNCHANGED <<row, pio, evidence, edges, society, rounds, completed,
                   outputs, config, nextRound, societyAttempt>>

\* The insert of an edge that is already there raises IntegrityError.
DuplicateEdge ==
    /\ \/ pc = "graph_dedup" /\ hasDuplicates /\ "similar_to" \in edges
       \/ pc = "graph_edges" /\ hasCompetitors /\ "deterministic" \in edges
    /\ pc' = "marking"
    /\ failing' = [stage |-> GuardedStage[pc], kind |-> "IntegrityError"]
    /\ UNCHANGED <<row, products, config, queued, nextRound, enqueues, faults,
                   history, outcome>>

(* Stage 3: _stage_society.                                                *)

\* Mutant of SocietyCheck: the idempotency check is dropped.
SocietyUnchecked ==
    /\ pc = "society_check"
    /\ Goto("society_enter")
    /\ UNCHANGED <<row, products, config, nextRound, societyAttempt>>

SocietyCheck ==
    /\ pc = "society_check"
    /\ Goto(IF society > 0 THEN "simulating_enter" ELSE "society_enter")
    /\ UNCHANGED <<row, products, config, nextRound, societyAttempt>>

SocietyEnter ==
    /\ pc = "society_enter" /\ EnterStatus /\ Goto("society_work")
    /\ UNCHANGED <<nextRound, societyAttempt>>

BuildSociety ==
    /\ pc = "society_work" /\ Goto("society_commit")
    /\ UNCHANGED <<row, products, config, nextRound, societyAttempt>>

PersistSociety ==
    /\ pc = "society_commit" /\ Goto("simulating_enter")
    /\ society' = society + 1 /\ societyAttempt' = attempt
    /\ UNCHANGED <<row, pio, evidence, edges, graphBuilt, rounds, completed,
                   outputs, config, nextRound>>

-----------------------------------------------------------------------------
(* Stage 4: _stage_simulating and engine.run_simulation.                   *)

SimulatingEnter ==
    /\ pc = "simulating_enter" /\ EnterStatus /\ Goto("engine_resume")
    /\ UNCHANGED <<nextRound, societyAttempt>>

\* _detect_resume_point counts the simulation_rounds rows.
ResumePoint == IF Len(rounds) >= NumRounds THEN NumRounds + 1 ELSE Len(rounds) + 1

DetectResume ==
    /\ pc = "engine_resume" /\ Goto("round_enter")
    /\ nextRound' = ResumePoint
    /\ UNCHANGED <<row, products, config, societyAttempt>>

\* module.run_round starts; its agents are modelled in RoundExecution.
StartRound ==
    /\ pc = "round_enter" /\ nextRound <= NumRounds /\ Goto("round_work")
    /\ UNCHANGED <<row, products, config, nextRound, societyAttempt>>

\* run_round returned and write_round_results committed.
WriteRound ==
    /\ pc = "round_work" /\ Goto("round_enter")
    /\ rounds' = Append(rounds, nextRound)
    /\ nextRound' = nextRound + 1
    /\ UNCHANGED <<row, pio, evidence, edges, graphBuilt, society, completed,
                   outputs, config, societyAttempt>>

\* Mutant of FinishEngine: range(start, total) leaves out the last round.
FinishEngineEarly ==
    /\ pc = "round_enter" /\ nextRound >= NumRounds /\ Goto("completed_enter")
    /\ completed' = TRUE
    /\ UNCHANGED <<row, pio, evidence, edges, graphBuilt, society, rounds,
                   outputs, config, nextRound, societyAttempt>>

FinishEngine ==
    /\ pc = "round_enter" /\ nextRound > NumRounds /\ Goto("completed_enter")
    /\ completed' = TRUE
    /\ UNCHANGED <<row, pio, evidence, edges, graphBuilt, society, rounds,
                   outputs, config, nextRound, societyAttempt>>

-----------------------------------------------------------------------------
(* The tail of run_full_pipeline: simulation_completed, aggregation.       *)

CompletedEnter ==
    /\ pc = "completed_enter" /\ EnterStatus
    /\ \/ aggregation /\ Goto("aggregate_enter") /\ UNCHANGED <<nextRound, societyAttempt>>
       \/ ~aggregation /\ EndJob("returned") /\ UNCHANGED faults

AggregateEnter ==
    /\ pc = "aggregate_enter" /\ EnterStatus /\ Goto("aggregate_work")
    /\ UNCHANGED <<nextRound, societyAttempt>>

\* Mutant of WriteOutput: the report is computed and never committed.
WriteOutputLost ==
    /\ pc = "aggregate_work" /\ outputs = 0 /\ Goto("reported_enter")
    /\ UNCHANGED <<row, products, config, nextRound, societyAttempt>>

\* run_aggregation_v7 passed its claim gate and write_simulation_output,
\* which refuses to overwrite, committed the report.
WriteOutput ==
    /\ pc = "aggregate_work" /\ outputs = 0 /\ Goto("reported_enter")
    /\ outputs' = outputs + 1
    /\ UNCHANGED <<row, pio, evidence, edges, graphBuilt, society, rounds,
                   completed, config, nextRound, societyAttempt>>

ReportedEnter ==
    /\ pc = "reported_enter" /\ EnterStatus /\ EndJob("returned")
    /\ UNCHANGED faults

-----------------------------------------------------------------------------
(* What goes wrong.                                                        *)

\* The body of a try block raises: a provider error, CostCapExceeded,
\* LLMRepairExhausted, AggregationFailed, a database error.
Fail ==
    /\ pc \in DOMAIN GuardedStage /\ faults < MaxFaults
    /\ pc' = "marking" /\ faults' = faults + 1
    /\ failing' = [stage |-> GuardedStage[pc], kind |-> "Exception"]
    /\ UNCHANGED <<row, products, config, queued, nextRound, enqueues,
                   history, outcome>>

\* _mark_failed, then the re-raise.  Its own exceptions are swallowed.
MarkFailed ==
    /\ pc = "marking"
    /\ IF MayBecome("failed")
         THEN /\ status' = "failed"
              /\ failedStage' = failing.stage /\ errorKind' = failing.kind
         ELSE UNCHANGED row
    /\ EndJob("raised")
    /\ UNCHANGED <<products, config, faults>>

\* The job ends and no handler writes anything: arq's job_timeout cancels it
\* (CancelledError is not an Exception), a database call outside the try
\* blocks raises, or the write of _mark_failed itself fails.
Abort ==
    /\ pc # "idle" /\ faults < MaxFaults
    /\ faults' = faults + 1
    /\ EndJob("aborted")
    /\ UNCHANGED <<row, products, config>>

\* The worker process dies or is redeployed: arq runs the job again.
WorkerDies ==
    /\ pc # "idle" /\ faults < MaxFaults
    /\ pc' = "idle" /\ faults' = faults + 1 /\ outcome' = "interrupted"
    /\ UNCHANGED <<row, products, config, queued, nextRound, failing, enqueues,
                   history>>

-----------------------------------------------------------------------------
\* The steps the job takes by itself.
JobStep ==
    \/ PickUp \/ RejectTransition
    \/ ParsingCheck \/ ParsingEnter \/ ParseBrief \/ CachePio
    \/ EvidenceCheck \/ EvidenceEnter \/ BuildEvidence \/ PersistEvidence
    \/ GraphEnter \/ GraphCheck \/ DedupEdges \/ EmbedItems \/ DeriveEdges
    \/ MarkGraphBuilt \/ DuplicateEdge
    \/ SocietyCheck \/ SocietyEnter \/ BuildSociety \/ PersistSociety
    \/ SimulatingEnter \/ DetectResume \/ StartRound \/ WriteRound \/ FinishEngine
    \/ CompletedEnter \/ AggregateEnter \/ WriteOutput \/ ReportedEnter
    \/ MarkFailed

Fault == Fail \/ Abort \/ WorkerDies

Next == Enqueue \/ JobStep \/ Fault

Spec == Init /\ [][Next]_vars

\* A worker that is up takes queued jobs and runs them.  Nothing is assumed
\* of whoever enqueues, and no fault has to happen.
FairSpec == Spec /\ WF_vars(JobStep)

-----------------------------------------------------------------------------
(* Properties.                                                             *)

\* Type invariant.
TypeOK ==
    /\ status \in Statuses
    /\ failedStage \in Stages \cup {"aggregating", "none"}
    /\ errorKind \in {"Exception", "IntegrityError", "none"}
    /\ pio \in BOOLEAN /\ evidence \in Nat /\ graphBuilt \in BOOLEAN
    /\ edges \in SUBSET {"similar_to", "deterministic"}
    /\ society \in Nat /\ rounds \in Seq(1 .. NumRounds)
    /\ completed \in BOOLEAN /\ outputs \in Nat
    /\ hasDuplicates \in BOOLEAN /\ hasCompetitors \in BOOLEAN
    /\ aggregation \in BOOLEAN
    /\ queued \in BOOLEAN /\ pc \in Points
    /\ nextRound \in 1 .. NumRounds + 1
    /\ failing \in Failures
    /\ enqueues \in Nat /\ faults \in Nat
    /\ attempt \in Nat /\ societyAttempt \in Nat
    /\ startStatus \in Statuses
    /\ outcome \in {"none", "running", "returned", "raised", "aborted",
                    "interrupted", "rejected"}

\* However often the job is retried, interrupted and retried, every stage's
\* rows are persisted at most once and every round exactly in its place: the
\* idempotency checks and the resume point never duplicate committed work.
NoDuplicateWork ==
    /\ evidence <= 1 /\ society <= 1 /\ outputs <= 1
    /\ Len(rounds) <= NumRounds
    /\ \A i \in 1 .. Len(rounds) : rounds[i] = i

\* A stage's rows exist only when those of every stage it reads from do: a
\* round is never simulated without a society, a society never built before
\* the evidence graph was finished.
StagesInOrder ==
    /\ evidence > 0 => pio
    /\ edges # {} \/ graphBuilt => evidence > 0
    /\ society > 0 => graphBuilt
    /\ rounds # <<>> => society > 0
    /\ completed => Len(rounds) = NumRounds
    /\ outputs > 0 => completed

\* A client that polls the status never sees a finished simulation whose
\* rounds, or report, are missing.
StatusIsHonest ==
    /\ status \in {"simulation_completed", "aggregating", "reported"} => completed
    /\ status = "reported" => outputs > 0

\* _mark_failed blames the stage that the row was in when the work failed,
\* across every retry.
FailureAttributed ==
    [][status' = "failed" /\ status # "failed" => failedStage' = status]_vars

\* Only the job that persisted the society ever simulates: no later job of
\* the row adds a round, completes it or writes its report.  A retry reaches
\* the simulating stage only from evidence_graph_building, which the
\* transition table refuses, so the resume point of the engine is never used.
OnlySocietyAttemptSimulates ==
    [][rounds' # rounds \/ completed' # completed \/ outputs' # outputs
         => attempt = societyAttempt]_vars

\* Through all jobs, retries and crashes, what the row shows is a simulation
\* made once: products in order, each under the status of its stage, and
\* failures put down to the stage they happened in.
Shown == INSTANCE SimulationRow WITH Allowed <- AllowedTransitions
ImplementsRow == Shown!Spec

\* When a queued job can still succeed: no society yet, no half-built graph,
\* and no status that only a dead society_building leaves behind.
Recoverable ==
    /\ pc = "idle" /\ queued /\ society = 0
    /\ edges = {} \/ graphBuilt
    /\ status # "society_building"

\* Once nothing fails any more, a queued job that finds a recoverable row
\* brings it to its final status, from whichever stage it was left at.
RetryCompletes ==
    (Recoverable /\ faults = MaxFaults)
        ~> (status = IF aggregation THEN "reported" ELSE "simulation_completed")

-----------------------------------------------------------------------------
(* The inductive invariant: what is known at each point of the job.        *)

ParsingPoints == {"parsing_check", "parsing_enter", "parsing_work", "parsing_commit"}
EvidencePoints == {"evidence_check", "evidence_enter", "evidence_work", "evidence_commit"}
GraphPoints == {"graph_enter", "graph_build", "graph_dedup", "graph_embed",
                "graph_edges", "graph_mark"}
SocietyPoints == {"society_check", "society_enter", "society_work", "society_commit"}
EnginePoints == {"engine_resume", "round_enter", "round_work"}
ReportPoints == {"completed_enter", "aggregate_enter", "aggregate_work", "reported_enter"}

\* What each stage may rely on when the job has got that far.
ProductsAtPoint ==
    /\ pc \notin {"idle", "marking"} \cup ParsingPoints => pio
    /\ pc \in GraphPoints \cup SocietyPoints \cup EnginePoints \cup ReportPoints
         \cup {"simulating_enter"} => evidence > 0
    /\ pc \in SocietyPoints \cup EnginePoints \cup ReportPoints
         \cup {"simulating_enter"} => graphBuilt
    /\ pc \in EnginePoints \cup ReportPoints \cup {"simulating_enter"} => society > 0
    /\ pc \in EvidencePoints \ {"evidence_check"} => evidence = 0
    /\ pc \in SocietyPoints \ {"society_check"} => society = 0
    /\ pc = "engine_resume" => rounds = <<>>
    /\ pc \in {"round_enter", "round_work"} => nextRound = Len(rounds) + 1
    /\ pc = "round_work" => nextRound <= NumRounds
    /\ pc \in ReportPoints => completed
    /\ pc = "reported_enter" => outputs > 0

\* The status the row has while the job is there.
StatusAtPoint ==
    /\ pc \in DOMAIN GuardedStage => status = GuardedStage[pc]
    /\ pc = "marking" => status = failing.stage
    /\ pc = "parsing_commit" => status = "parsing"
    /\ pc = "evidence_commit" => status = "evidence_building"
    /\ pc = "society_commit" => status = "society_building"
    /\ pc \in {"society_check", "society_enter"} => status = "evidence_graph_building"
    /\ pc = "simulating_enter" =>
         \/ status = "evidence_graph_building"
         \/ status = "society_building" /\ attempt = societyAttempt /\ rounds = <<>>
    /\ pc \in EnginePoints \cup ReportPoints => attempt = societyAttempt
    /\ pc = "completed_enter" => status = "simulating"
    /\ pc = "aggregate_enter" => status = "simulation_completed"
    /\ pc = "reported_enter" => status = "aggregating"

IInv == TypeOK /\ ProductsAtPoint /\ StatusAtPoint
            /\ NoDuplicateWork /\ StagesInOrder /\ StatusIsHonest

=============================================================================
