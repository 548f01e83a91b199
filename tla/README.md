# Formal models of Assembly

Assembly turns a founder's product brief into a report by simulating a society
of synthetic buyers. This directory holds TLA+ models of the parts of the
program that are hard to test: the retried pipeline, the budget that concurrent
LLM calls share, the rounds that run as concurrent tasks, the stances they
move, and the live run with its evidence, its society, its discussion, its
ballots and its background task. Each model is checked by TLC on a small
instance, and the safety of each is proved with TLAPS for every value of its
constants.

All source paths below are relative to `src/apps/api/src/assembly/`.

## 1. The system

There are two ways through the program.

* **The simulation pipeline.** `POST /simulations` inserts a row and enqueues an
  arq job. A worker runs `run_full_pipeline`, which takes the row through
  parsing, evidence, evidence graph, society, simulation and report. The row's
  status column and its foreign-key rows are the only memory between attempts.
* **The live founder-brief run.** `POST /assembly/runs` inserts a row and starts a
  background task of the API process. The task walks thirteen stages, leaves
  their artifacts in a directory, and the report endpoints serve them.

Both make every LLM call through the cost guard, which keeps a ledger for each
`simulations` row (a live run creates such rows only to have a ledger).

| Component | State it keeps | Operations | Interacts with | What is hard | What makes it correct |
|---|---|---|---|---|---|
| pipeline orchestrator (`pipeline/orchestration.py`, `progress.py`, `workers/`) | `simulations` row: status, failed stage, error, parsed PIO, graph stamp | the stage functions, `update_status_and_progress`, `_mark_failed`, the arq job | every stage; the queue | crash or cancel between any two commits; retries; a transition table apart from the skip rules | nothing is persisted twice or out of order; the status is true; a retry goes on |
| round engine (`pipeline/simulation/engine.py`, `persistence.py`) | `simulation_rounds`, responses, states | round loop, resume point, persistence | orchestrator, rounds | resume after a crash | rounds once, in order, whole |
| round execution (`rounds/_base.py`) | tasks, semaphore, counter, progress document | one task per agent, progress writes | cost guard, `simulations` row | `gather` without cancellation; read-modify-write of JSON | no partial round; an exact final count; a failure stays |
| cost guard (`llm/cost_guard.py`, `cost_log.py`) | row lock, `llm_call_log` | check, call, log | all LLM callers | the check and the log are a network call apart | spend within the cap; spend accounted for |
| structured calls (`pipeline/simulation/call_llm.py`) | attempts of one request | repair loop | cost guard | bounded repairs | at most `max_repair_attempts + 1` calls |
| stance rounds (`pipeline/simulation/rounds/`, `state.py`, `peer_sampling.py`) | snapshots in memory; responses and turns in the table | baseline, free rounds, peer sampling, debate | round engine, report | two records of one stance; several peers argue with one subject | memory and table agree; no move without an argument |
| evidence graph (`pipeline/evidence_graph/`) | `evidence_edges`, embeddings, stamp | dedup, embed, derive, mark | orchestrator | four transactions | a second pass adds nothing |
| aggregation (`pipeline/aggregation/`) | `simulation_outputs` | mechanical sections, claim gate, single write | orchestrator | a shift is recorded in two places | one report per simulation, no move left out |
| live run (`orchestration/live_founder_brief.py`, `api/assembly_runs.py`, `artifact_paths.py`) | `assembly_runs` row, artifact directory | thirteen stages, `_update_run`, the GETs | discussion, cost guard, client | the task dies with its process; updates fail | no report before its stages; failures at their stage |
| live society (`orchestration/live_evidence_pipeline.py`, `live_quality_gates.py`, widener) | `ctx` of one run: accepted evidence, signals, candidates, personas | score, extract, widen, compress, gates | live run | limits kept while growing and measured at the end; a greedy pass | what is kept passes the gates; nobody is wasted |
| society store (`persist_live_society`) | `source_records` (shared), personas, traits, links | one transaction per run | other runs of the market, Postgres | look up and insert race; lock circles | societies whole; contention does not fail everybody |
| live discussion (`orchestration/live_discussion_pipeline.py`, `discussion_layer/retry.py`) | session, groups, turns, drafts in memory, ballots | seven rounds of calls, retries, one ballot transaction | cost guard, groups | refusals and errors that only pass over a persona | ballots whole |
| final-ballot repair (`orchestration/live_final_ballot_repair.py`) | its own ledger row, drafts | ladder of two calls, fallback, insert, recount | discussion, gate | answers that are refused, fail or break the ladder | who gets past it has everyone's vote, none invented |
| ballot audits (`_run_phase_10b1_audits`, `sources/product_grounding/`) | committed ballots and turns, `ctx["ballots"]` | five repairs, three classifiers, two verdicts | discussion, report | each reads what the ones before wrote; stale copies | no unflawed word is the last to go, gates hold, report and table agree |
| discussion groups (`sources/discussion_layer/group_assignment.py`) | none (pure) | greedy stratified placement | discussion | capacity against diversity | no group short |

The remaining parts (retrieval clients, query planning, offline
planners, validation ledgers, calibration, the web front end and scripts) are
listed with their reasons in section 8 and, file by file, in `PROJECT.json`.

### What is hard to test

`PROJECT.json` lists every hazard at its line. The main groups are:

* **a retry after any partial history**: each stage skips what it finds, each
  status a crash can leave must have a way forward (`progress.py:77`);
* **two tasks on one row**: the cap check (`cost_guard.py:74`), the progress
  document (`progress.py:131`), orphans beside `_mark_failed` (`rounds/_base.py:394`);
* **a step of several that fails**: half-built graphs, half-answered rounds,
  half-recorded failures, unlogged calls;
* **a budget at its limit**: refused calls are passed over in silence in the
  discussion, and each part has a ledger of its own;
* **two transactions for one page**: the SELECT sees committed sources alone
  (`live_evidence_pipeline.py:1246`);
* **a chain of rewrites**: each audit reads what the ones before it left, and
  some copies are not reloaded (`live_founder_brief.py:1649`, `:2236`);
* **two records of one fact**: snapshots and responses, responses and turns
  (`rounds/baseline.py:62`, `aggregation/mechanical.py:109`);
* **a boundary in arithmetic**: overflow of the groups, shares of a society that
  is still growing.

## 2. Modules

| Module | What it is |
|---|---|
| `SimulationPipeline` | the row, the job, every stage and every way it can end |
| `SimulationRow` | abstract specification of the pipeline: what a client sees that polls the row |
| `MCSimulationPipeline` | what the repository's comments promise of retries |
| `BudgetLedger` | abstract specification of the cost guard, for one row |
| `CostGuard` | concurrent callers, the lock, the ledger, the repair loop |
| `AtomicRound` | abstract specification of a round: persisted at once, ended once |
| `Society` | the agents, which the two modules below share |
| `RoundExecution` | one round: the tasks, the row lock, the progress document, the engine and `_mark_failed` |
| `StanceFlow`, `MCStanceFlow` | all rounds: what they do to stances, memory, rows and the report's markers |
| `LiveRun` | one live run: row, task, artifacts, redeploys |
| `LiveSociety`, `MCLiveSociety` | the stages from search results to a society that passed its gates |
| `SerialStore` | abstract specification of the store: runs that persist one after the other |
| `SocietyStore`, `MCSocietyStore` | several runs that persist their societies at once |
| `LiveDiscussion` | discussion stage, retries, ballots, repair, gate |
| `BallotAudits`, `MCBallotAudits` | the audits that rewrite the ballots before the report |
| `GroupAssignment`, `MCGroupAssignment` | the placement of the personas into groups |
| `SimulationPipelineProofs`, `CostGuardProofs`, `LiveRunProofs`, `LiveSocietyProofs`, `SocietyStoreProofs`, `BallotAuditsProofs` | the theorems about each |
| `RoundProofs` | the theorems about `RoundExecution` and `StanceFlow` |
| `LiveDiscussionProofs` | the theorems about `LiveDiscussion` and `GroupAssignment` |

How the modules fit together: `SimulationPipeline` takes a round as one step that
commits or raises. `RoundExecution` opens that step, and takes an LLM call under
the guard as one step; that it implements `AtomicRound` is what makes the one
step of the pipeline sound. `CostGuard` opens the call and implements
`BudgetLedger`, as the two ledgers of `LiveDiscussion` do. `StanceFlow` takes the answers of a round as arriving together,
as `RoundExecution` shows they do, and gives up where `SimulationPipeline` shows
that no later job goes on. In the live run, `LiveRun` takes a stage as one step;
`LiveSociety`, `SocietyStore`, `LiveDiscussion` with `GroupAssignment`, and
`BallotAudits` open four of them; that `SocietyStore` implements `SerialStore` is
what lets `LiveSociety` be about one run alone. The proof modules are apart, so
that TLC does not read them. Two of them are about two modules each, whose
definitions therefore have names of their own (`FlowSpec`, `GroupSpec`).

### SimulationPipeline

Variables mirror columns (`status`, `failedStage`, `errorKind`, `pio`, `graphBuilt`,
`completed`) and count or list rows (`evidence`, `society`, `rounds`, `outputs`,
`edges`). `pc` is where the job is. Each stage function is three or four
actions, cut where the code commits: a check of what exists, the status update
(`EnterStatus`, through the transition table), the work, the commit of its rows.
`Fail` raises inside a try block and leads to `MarkFailed`; `Abort` ends the job
with no handler run (`CancelledError`, a database error outside the try blocks, a
failed `_mark_failed`); `WorkerDies` leaves the job on the queue. A status update
outside every try block that the table rejects ends the job (`RejectTransition`).

`SimulationRow` keeps the columns and hides the job, its retries and crashes, the
edges and the enqueueing: a product may be made while the status names its
stage, the next status may be shown once the product is there, and a failure names
the status that was shown.

The contents of stages (parsing, society building, agents' answers, the report)
are an outcome: they return or raise. Two booleans chosen at the start say
whether the evidence has duplicates and competitors, which decides whether the
graph has edges to insert twice.

### CostGuard and BudgetLedger

Callers run `with_cost_guard` inside the repair loop of `call_llm_for_simulation`.
`lock` is the row lock of `SELECT ... FOR UPDATE`, held from the cap check to the
commit of the log row. `logged` is the sum the guard reads; `spent` is what calls
really cost, which the program cannot see when a call fails or is cancelled.
Money is an integer. `BudgetLedger` is what the guard promises: the sum only grows,
by the cost of a call whose estimate fitted under the cap at that moment.
`hard_cap_usd` is an argument of each call (`cost_guard.py:52`), which the callers
of one row take from the same cached settings (`guarded_chat.py:141`) or from the
cap their stage resolved once; so `cap` is a variable that no step changes.

### RoundExecution

One task per agent: wait for a slot of the semaphore, call under the row lock,
count, read the progress document, write it back whole. `runner` is the
engine, then `_mark_failed` when something raised. `Raise` ends `gather` for the
runner and leaves the other tasks to go on; `CancelJob` is arq's timeout, which
cancels the tasks only while `gather` is awaited. All actions that update the
row wait for `lock`, since the guard holds it for the length of a call.
`AtomicRound` has an outcome and the rows; the tasks, the slots, the lock and the
progress document are hidden.

### LiveRun

`task` is the background task, `at` the stage of its loop. An `_update_run` is one
action. A stage returns or raises and leaves its artifacts or not. `Breaks` is an
exception in the code between stages: inside the try it becomes a failure of
the stage, outside it leaves the orchestrator and is only logged. `Redeploy`
ends the task; it wipes the artifacts unless their root is a volume.
`ReportServed` is the answer of the report endpoint.

### LiveDiscussion

One coroutine, so the interest is in failures rather than in interleaving. The
rounds are 0 (private), 1 to `PublicRounds` (public), a private reflection and
the final ballot; personas are asked in order. A call that gets through is
`Declare`, `Speak` or `Unusable`; one that raises is `Retry` or `PassOver`. An answer
that is JSON but no object is none of these: `_safe_json_parse` lets it through,
the next `.get` raises outside of every try, and the stage fails (`StageBreaks`), in
each round and on both rungs of the repair. Since a
retry is decided by words in the text of the error, any error may be retried,
a refusal of the cap included. `PersistBallots` is the one transaction
that writes all ballots. The repair has a ledger of its own, a ladder of two
calls (`Repair`, `Unrepaired`), the deterministic `Fallback`, and one
insert. Between the insert and the gate the code runs the audits of
`BallotAudits`; they neither add nor remove a ballot.

### BallotAudits

`text` and `stance` are columns of the committed rows, `ctx` is the copy the
orchestrator holds, and every audit is one action that says what it writes and
whether it reloads `ctx`. A text is the set of its sentences, and `Says` gives the
signals that the regular expressions of `sources/product_grounding` find in
each. `Marker` is what the program itself appends to a ballot: each classifier to
those it moves (`MarkMoved`), and the final-ballot repair to those it fills in. It
says nothing to any expression, but it stands as a sentence where the text before
it ends in a stop, and a strip that looks whether a text is empty then sees it.
The classifiers (`Calibrated`, `Strict`, `StrictV3`) are operators from a
stance and a text to a stance, rule by rule in the code's order. Audits that only
count are left out.

### LiveSociety

Three stages of one live run, each a pass over a list `todo` whose order is
any: results arrive in any order, and sources and candidates are sorted by
hashes. A signal is a record of what widener, compressor and gates compare.
The share rules (`ShareAllows`) count as the code does, on the society that is
still growing; the gates (`CompetitorShareOk` and the others) on the finished one.
`CountAssumption` is what the proofs need of the numbers; the code's numbers
satisfy it (21 to 30 personas with a target of 24 to 30, at most 4 per role with a
gate of 35%, 5 roles, 3 per source, 2 per objection: 4 * 100 <= 35 * 21).

### SocietyStore

Several runs, each in one READ COMMITTED transaction: `Lookup` sees committed
rows and its own; `Insert` waits while another transaction has inserted the same
content (the unique index); `Collide` fails once that one has committed. Waiting in
a circle is found by Postgres, which fails one of the waiters (`DeadlockVictim`,
external). `SerialStore` has one step, `Save`, by which a run stores its society
whole, with records for what is new in it; `Commit` is that step, and all
others are hidden.

### StanceFlow

`snapshots` is what prompts are built from, `table` what the report is built from.
An answer is any that the schema admits: nothing relates an agent's stance to the
shift it tells of. The baseline believes the id in the answer, all other rounds
pin it. In the debate, `pairShift` holds the last first shift of each
subject. Weights decide only which pairs are sampled.

### GroupAssignment

The greedy loop, one persona a step, with the overlap score, the capacity and
the tie-breaking order of the code. The hash that orders the personas is
abstracted by letting the profiles of the ordered personas be any.

## 3. Runs that pass

| Run | Instance | What it shows |
|---|---|---|
| `pipeline_retries` | 2 rounds, 3 enqueues, 3 faults | every history of three jobs with three failures, cancellations or worker deaths at any point: `NoDuplicateWork`, `StagesInOrder`, `ImplementsRow`, `FailureAttributed`, `OnlySocietyAttemptSimulates`, `RetryCompletes` |
| `cost_guard` | 3 callers of 1 request each, 1 repair, 2 faults; cap 5, estimate 2, costs 1 or 3 | `CapHolds`, `SpendAccounted`, `ImplementsLedger`, `RequestsEnd` |
| `round` | 3 agents, 2 slots | `ImplementsAtomicRound`, `FinalCountExact`, `ProgressNeverAhead`, `FailureIsFinal`, `RoundEnds` |
| `stance_flow` | 3 agents, 2 stances, 4 rounds with the debate third | `MemoryMatchesTable`, `MoveBacked`, `MovesReported` |
| `live_run` | the 13 stages | `ReportServedWhole`, `ReportKept`, `ProgressOnlyGrows`, `TaskEnds` |
| `live_society` | 8 results, 5 roles, 4 to 6 personas | `GatesAgree`, `NothingWasted`, `PageSpeaksOnce` |
| `society_store` | 3 runs, 3 contents, any two runs share one | `ImplementsSerialStore`, `SomeoneWins`, `EveryRunEnds` |
| `live_discussion` | 2 personas, 1 public round, 2 attempts | `EveryoneVotes`, `NoInventedVote`, `SessionWhole`, `StageEnds` |
| `ballot_audits` | 1 ballot of up to 3 sentences out of 16, marked or not or empty, 1 turn, 5 stances | `CaveatsDecideNothing`, `GatedOnlyFromResistant`, `ResistanceHeld`, `ReportSeesLedger`, `SpeechVerdictTrue`, `NeverSilenced` |
| `groups` | up to 8 personas, 4 profiles, groups of 3 | `NoGroupShort` |

Why the bounds are enough:

* *pipeline_retries*: a second job meets everything a first one left, a third
  everything two different failures left. Three faults are one for each job.
  Two rounds tell the first, the last and the resume point apart.
* *cost_guard*: three callers are two that race and one that waits behind them;
  the cap admits two calls at their estimate and a third only by error. The
  costs lie on both sides of the estimate, and one repair tells the first call
  of a request from the last.
* *round*: with two slots, three agents are one failing, one orphan running and
  one orphan waiting.
* *stance_flow*: two peers that argue with one subject are the case where a shift
  overrides another, two agents that argue with each other the case where the
  order of the calls could matter. A debate needs a round before it that moves
  somebody (the code has four of these, all alike) and one after it that reads
  what it left. `Answers` and `ShiftLists` are a bound: a move told or not told, a
  turn with no shift, one, two, or one that leads nowhere.
* *live_society*: eight results in every subset and order; two competitors, a page
  and a text returned twice, a blank, a fake claim, and a role the gates refuse.
  The limits are small enough that each of them refuses somebody.
* *society_store*: with three runs one waits, two wait for each other, or all
  three wait in a circle.
* *live_discussion*: two personas are one that keeps its ballot and one that
  loses it; one public round tells public from private; two attempts are a
  retry and its end. The cap of 5, to which the blocks and every
  budget are clamped, admits two calls and is exhausted in most behaviours.
* *ballot_audits*: one sentence of every kind the audits tell apart. A rule of a
  classifier looks at no more than three signals at a time. The turn is there
  for the audits that repair both tables.
* *groups*: sizes 1 to 8 with groups of three are short groups, exact fits, and
  overflows of one and of two.
* *live_run*: the number of stages is the code's.

The states that are left to rest, such as a finished job with no one to enqueue
it, are why deadlock checking is off in each configuration.

Type invariants and the inductive invariants (`IInv`, `FlowInv`, `GroupInv`) are in
the modules and are proved (section 6). The runs do not repeat them, so that
their time goes to properties. For the same reason three runs check a refinement
in place of an invariant it covers, which is proved as well: `ImplementsRow` for
`StatusIsHonest`, `ImplementsAtomicRound` for `NoPartialRound` and
`ImplementsSerialStore` for `SocietyWhole`. `OneRecord`, `OwnEvidence`,
`NobodyStuck`, `RepairsBounded`, `FailureNamesStage`, `ImplementsLedgers`,
`SpentTwiceAtMost` and `OnlyForward` are proved and in no configuration; TLC
agreed with each, and with the inductive invariants, on the instances of these
runs before they were proved.

## 4. Where the code and its words differ

Two runs check a sentence of the repository against what the code does.

| Run | The sentence | What happens |
|---|---|---|
| `resume_failed` | "Re-enqueueing a `failed` simulation resumes from the last incomplete stage" (`pipeline/orchestration.py:11`) | once the society exists, the retry writes `evidence_graph_building` and is then refused `simulating` |
| `society_race` | "Refuse insert if the same content_hash already exists (idempotency at the SourceRecord level)" (`orchestration/live_evidence_pipeline.py:1244`) | two runs of one market find the same page, and the stage of one fails on the unique index or as the victim of a deadlock |

Read beside the code while modelling, without a run of its own:

* **Pipeline.** Orphans of a failed round write their old progress document over
  that of `_mark_failed` ("all in one transaction so status polls see consistent
  state", `pipeline/orchestration.py:633`). A second dedup pass inserts the same
  edge and fails on the unique constraint ("idempotent",
  `pipeline/evidence_graph/dedup.py:97`; `models/evidence_edge.py:60`). The guard's
  failure rows are rolled back with the exception ("Logs the result to
  `llm_call_log` (success or failure)", `llm/cost_guard.py:15`). A second job of a
  `reported` row is refused by the transition table, though
  `pipeline/orchestration.py:90` calls the pipeline safe to call repeatedly.
* **Rounds.** The baseline is the one round that does not pin the id of an answer
  (`rounds/baseline.py:63`; `_base.py:371`: "the LLM might omit or wrong it"), so a
  row of round 1 can belong to another agent; `MemoryMatchesTable` holds because
  those rows carry neither stance nor objections of their own, but reasoning and
  `state_after` are misplaced. A shift of the debate is counted twice in the
  report, once from the response and once from the turn, and shifts that were
  overridden are counted although nobody moved (`aggregation/mechanical.py:99`).
  `StanceShift.from_stance` is compared with nothing. The proof round gives every
  agent the same five excerpts, not those "most relevant to this agent's
  accumulated objections" (`rounds/proof_exposure.py`).
* **Live run.** The repair has a control row of its own, so one run can spend its
  cap twice, though no more than that (`SpentTwiceAtMost`;
  `live_final_ballot_repair.py:217`; "cumulative spend accounting stays
  consistent", `live_founder_brief.py:1215`). A row stays "running" after a redeploy
  (`api/assembly_runs.py:355`). The base cap of the discussion, 12 USD, is not
  clamped to `cost_hard_usd`, though `config.py:52` says the computed cap is.
* **Live evidence.** The tier-2 retrieval calls `run_until_complete` inside the
  running loop and always raises. A page is judged by the first snippet seen, and
  retrieval blocks the event loop of the API. Role labels over 80 characters fail
  the role-format gate, which the compressor does not know.
* **Discussion.** The repair promises a ladder that ends in a "deterministic
  fallback" (`live_final_ballot_repair.py:7`), and both copies of `_safe_json_parse`
  are typed `dict | None`; they return whatever JSON the answer is. One that is a
  bare string, number or list raises at l.305 or 314 (in the rounds at
  `live_discussion_pipeline.py:678`, `842`, `876`), the fallback is never reached, and
  the stage fails with personas left without a ballot. `EveryoneVotes` is about the runs that
  get past the repair. A peer reference is accepted only as a whole id while prompts show
  its first eight characters, so the fallback, the last earlier turn of the
  group, possibly the speaker's own, is what is stored
  (`live_discussion_pipeline.py:787`). Two personas can overflow into one group, so
  that sizes differ by more than one, and an overflow looks at the overlap
  before the size (`group_assignment.py:68`, `:110`).
* **Audits.** The strips look whether anything is left of a text, and a marker is
  something (`live_founder_brief.py:1967`). A skeptical ballot "As a language model,
  I would buy this." is upgraded and marked by the first classifier, and the
  strip then leaves the marker alone; a final ballot that the repair filled in with
  nothing but a caveat becomes its `[repair_marker:...]` without the placeholder.
  `NeverSilenced` says when this can happen and that nothing else can. The upgrades of the third classifier skip the rules for RECEPTIVE
  (`receptive_strictness_v3.py:238`; l.22 says they "still apply on top"), which is
  why `GatedOnlyFromResistant` speaks of ballots that were resistant. An upgrade can
  make the audit's `uncertain_after` -1. The reworded fact question names a
  certification, which is a proof gate for the classifier after it. `ctx["turns"]`
  is never reloaded, and `public_private_delta` never recomputed.
* **Lightweight voters.** `INTENT_ORDER` places an uncertain intent between receptive
  ones, so that a pull towards buying can lower a voter's bucket
  (`voter_schema.py:23`); an overlay that fails between its writes leaves files that
  the endpoint serves as available (`api/assembly_runs.py:846`).

## 5. Fairness

* `SimulationPipeline`: weak fairness of the job's own steps, i.e. a worker that
  is up takes jobs and runs them. Nothing is assumed of whoever enqueues.
  `RetryCompletes` speaks of the time after the last fault.
* `CostGuard`: each caller goes on, and a waiter for the row lock is served
  eventually (strong fairness of `Acquire`): Postgres grants row locks in the
  order of arrival.
* `RoundExecution`: the event loop runs every ready task; strong fairness
  for slots (asyncio's semaphore is first in, first out) and for the row lock.
  No task has to be answered rather than fail.
* `SocietyStore`: weak fairness of each run, which goes on when it can. A waiter can go on when the
  transaction it waits for ends, and Postgres resolves circles.
* `LiveDiscussion`, `LiveRun`: weak fairness of the one coroutine as a whole. An
  LLM call has a client timeout, so it returns or raises. Which of the enabled
  steps is taken is never assumed: `StageEnds` holds because retries are
  bounded.
* `StanceFlow`, `LiveSociety`, `BallotAudits`, `GroupAssignment`: none; their properties
  are safety.

## 6. What is proved

Every theorem is about the specification with its constants left open, from the
assumptions stated in the modules. The configurations satisfy these, and so do
the code's numbers.

| Module | Inductive invariant | Theorems about |
|---|---|---|
| `SimulationPipeline` | `IInv` | `NoDuplicateWork`, `StagesInOrder`, `StatusIsHonest`, `FailureAttributed`, `OnlySocietyAttemptSimulates`, `ImplementsRow` |
| `CostGuard` | `IInv` | `CapHolds`, `SpendAccounted`, `RepairsBounded`, `ImplementsLedger` |
| `RoundExecution` | `IInv` | `NoPartialRound`, `FinalCountExact`, `ProgressNeverAhead`, `FailureIsFinal`, `ImplementsAtomicRound` |
| `StanceFlow` | `FlowInv` | `MemoryMatchesTable`, `MoveBacked`, `MovesReported` |
| `LiveRun` | `IInv` | `ReportServedWhole`, `ReportKept`, `FailureNamesStage`, `ProgressOnlyGrows` |
| `LiveSociety` | `IInv` | `GatesAgree`, `NothingWasted`, `PageSpeaksOnce` |
| `SocietyStore` | `IInv` | `SocietyWhole`, `OneRecord`, `SomeoneWins`, `ImplementsSerialStore`, `OwnEvidence`, `NobodyStuck` |
| `LiveDiscussion` | `IInv` | `EveryoneVotes`, `NoInventedVote`, `SessionWhole`, `ImplementsLedgers`, `SpentTwiceAtMost`, `OnlyForward` |
| `GroupAssignment` | `GroupInv` | `NoGroupShort` |
| `BallotAudits` | `IInv` | the six properties of its run |

None of the properties is inductive alone. What each invariant adds:

* **SimulationPipeline.** That a commit happens once depends on what the job saw at
  its check. `ProductsAtPoint` says, for each point of the job, which products
  exist and which do not; `StatusAtPoint` says which status the row has there,
  which is what makes `failed` and its stage come out right and shows that a later
  job can never pass the transition table into `simulating`. `EnginePoints`
  therefore belong to the attempt that built the society.
* **CostGuard.** `LockInv`: the holder of the lock is the one caller between check and
  commit. `AdmittedInv`: its admission is still valid because nobody else could
  log in between.
* **RoundExecution.** The counter is related to the tasks that are past it, a fact
  about cardinalities that survives lost updates, and nothing is written before
  every task has answered.
* **StanceFlow.** `Debated` says of the answers of a debate that each keeps the old
  stance or is `Backed` by a turn spoken then; it holds of the drafted round and
  of the committed one. `MemoryHolds` says that a snapshot is the sum of the
  table's rows, `Sound` that a misread id can only be one of the baseline, where
  the rows are alike. For `MovesReported`, the shift of a mover's own response is the
  mention it is given; the count of responses is one summand of the marker.
* **LiveRun.** What the stages before, at and after the loop's stage are at each point
  of the task, and which files a volume holds.
* **LiveSociety.** `Balanced`: the compressor's limits hold at each admission; the
  arithmetic of shares and `CountAssumption` carry them over to the gates.
  `LeftOut`: who was refused stays inadmissible.
* **SocietyStore.** `SessionHolds`: what a transaction refers to is committed or its
  own. `Unique` is the index.
* **LiveDiscussion.** `PointHolds`: until the insert the table holds just what the
  drafts hold, so the stale list of the missing is still right.
* **GroupAssignment.** `Partitioned` and `OverflowLast`. A group can be short at the end
  only if nobody overflowed (`OverflowLast`); then the groups together hold fewer
  than `Target * GroupCount` personas, and that is at most `total` (`TargetFits`).
  The count over the groups is a pigeonhole: everybody placed has a seat,
  a pair of a group and a number up to its length, and `NoRoomLeft` compares the
  seats with all there are. The score decides nothing of this, so the theorem
  holds for any profiles.
* **BallotAudits.** For each step of the chain, which flaws can still be in a text and
  which copies agree; `WordsLeft` follows, from the written text on, a sentence that
  no strip still to come is after, and sees that no turn is ever marked. Lemmas say what each classifier may return.

Refinements, each proved step by step from the invariant:

* `CostGuard` implements `BudgetLedger`, and so do both ledgers of `LiveDiscussion`
  (`SpendStep`: a step charges one of them, once, by an admitted call).
  `SpentTwiceAtMost` bounds what a run is charged by the two together, when no
  call costs more than its estimate and the given overrun.
* `RoundExecution` implements `AtomicRound`: a step of a task is hidden, also of an
  orphan (`TaskIsHidden`), and a step of the runner is one of the round
  (`RunnerIsRound`). This is the assumption `SimulationPipeline` makes of a round.
* `SocietyStore` implements `SerialStore`: only a commit changes the store
  (`OnlyCommitStores`), and it stores what a run alone at that moment would
  (`CommitSaves`). The proof needs `OwnEvidence`, that a transaction touches only
  what the run's own evidence is made of.
* `SimulationPipeline` implements `SimulationRow`: status updates, commits and
  `MarkFailed` are steps a client sees, everything else is hidden.

Two theorems state the safety behind a liveness property that is out of the
prover's reach:

* `OnlyForward`: every step of the discussion goes forward in the order of point,
  round, persona and try. `StageEnds` is that and weak fairness.
* `NobodyStuck`: while a run is in its transaction, one can go on or Postgres finds
  a circle of waiters to break. The circle is the least set that a waiter leads
  to and that is closed under "waits for" (`WaitersFormCircle`); it is found by
  descent on the size of such sets (`LeastNumber`), which is why the theorem
  assumes finitely many runs. `EveryRunEnds` is that and weak fairness.

Type correctness is a conjunct of each invariant. Only model-checked are the six
liveness properties (`RetryCompletes`, `RequestsEnd`, `RoundEnds`, `TaskEnds`,
`StageEnds`, `EveryRunEnds`): `ENABLED` and fairness are out of the prover's reach.

## 7. Plan

Done: the pipeline, the guard, the rounds with their stances, and the live run from
its evidence to its audited ballots, each with the proof of its safety. What
would come next, in this order:

1. `ConcurrentRunners`: two jobs of one simulation row at once (nothing prevents a
   second enqueue), composed from two instances of `SimulationPipeline`.
2. The cohort and report stages of the live run as readers of `ctx`.
3. `LiveRun` with its four opened stages composed, so that what one leaves in `ctx`
   is what the next is proved to start from.

## 8. What is not modelled

* **Text and numbers**: query planning, persona prompts, redaction, product
  grounding facts, report rendering and calibration are functions of text or
  floats with no state shared between actors. The lightweight voters are one
  seeded pass over floats inside a stage; only its endpoint reads the result.
* **HTTP clients and embeddings**: an answer, an error or nothing.
* **Two jobs of one row**: `SimulationPipeline` assumes one at a time.
* **The resume of the engine**: by `OnlySocietyAttemptSimulates` no job reaches
  it with rounds persisted, so what it would rebuild (the snapshots without the
  objections of earlier rounds, `engine.py:265`) is not modelled.
* **The references between turns**: what is stored is always the fallback
  (section 4).
* **The fixture, snapshot and developer modes of the live run**: the fixture
  completes in the request; the others are switched on by an operator.
* **Offline planners, the micro simulation, ingestion, validation ledgers and
  scripts** (most of the repository's lines): not called by the two paths above,
  or without state. **The web front end** polls and renders.

## 9. Running

    tlc -workers 2 -config SimulationPipeline.cfg MCSimulationPipeline
    tlapm SimulationPipelineProofs.tla

`PROJECT.json` names, for each run, its module, configuration and properties; for
each definition, the lines it models; and for each property of a passing run, a
mutation of the model, such as a dropped check, that makes TLC refute it. The
mutated operators stand before the definition they vary, marked "Mutant of".
