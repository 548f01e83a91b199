--------------------------- MODULE RoundExecution ---------------------------
(***************************************************************************)
(* One round of the engine: run_simulation enters it, the agents' tasks    *)
(* run under asyncio.gather and a semaphore (run_per_agent_round), every   *)
(* task reports its progress, and the round is persisted, or its failure   *)
(* is recorded by _mark_failed.                                            *)
(*                                                                         *)
(* gather does not cancel the siblings of a task that raises: they go on   *)
(* beside _mark_failed and after it.  All of them read and write the one   *)
(* simulations row: a progress write reads the JSON document with a plain  *)
(* SELECT and later replaces it whole with an UPDATE, which waits for the  *)
(* row lock that a call of the cost guard holds (module CostGuard).        *)
(***************************************************************************)
EXTENDS Integers, Society

CONSTANT
    Width           \* simulation_max_concurrency

ASSUME WidthAssumption == Width \in Nat \ {0}

VARIABLES
    \* --- the simulations row and the round's rows
    status,         \* simulations.status
    progress,       \* simulations.progress: the stage and agents_completed
    lock,           \* the agent whose guarded call holds the row lock
    responses,      \* agents with a persisted agent_responses row
    \* --- the tasks of the agents
    pc,
    doneNow,        \* done_now, the count a task is going to report
    seen,           \* the progress document a task has read
    completedCount, \* completed_count
    \* --- the engine and, after an error, _mark_failed
    runner,
    runnerSeen      \* the progress document the runner has read

row == <<status, progress>>
tasks == <<pc, doneNow, seen, completedCount>>
vars == <<row, lock, responses, tasks, runner, runnerSeen>>

Progress == [stage : {"simulating", "failed"}, done : 0 .. Cardinality(Agents)]

Active == {"asking", "calling", "counting", "reading", "writing"}
Finished == {"answered", "raised", "cancelled"}
Ended == {"done", "failed", "cancelled"}
\* From the moment gather has raised.
Marking == {"mark_read", "mark_write"}

Init ==
    /\ status = "simulating" /\ progress = [stage |-> "simulating", done |-> 0]
    /\ lock = None /\ responses = {}
    /\ pc = [a \in Agents |-> "pending"]
    /\ doneNow = [a \in Agents |-> 0]
    /\ seen = [a \in Agents |-> progress]
    /\ completedCount = 0
    /\ runner = "gathering" /\ runnerSeen = progress

-----------------------------------------------------------------------------
(* A task: _one_agent.                                                     *)

Step(a, point) == pc' = [pc EXCEPT ![a] = point]

\* async with semaphore, which an orphan enters like any other task.
Start(a) ==
    /\ pc[a] = "pending" /\ Cardinality({b \in Agents : pc[b] \in Active}) < Width
    /\ Step(a, "asking")
    /\ UNCHANGED <<row, lock, responses, doneNow, seen, completedCount, runner,
                   runnerSeen>>

\* The guard of one attempt takes the row lock and calls the provider.
Call(a) ==
    /\ pc[a] = "asking" /\ lock = None
    /\ lock' = a /\ Step(a, "calling")
    /\ UNCHANGED <<row, responses, doneNow, seen, completedCount, runner, runnerSeen>>

\* The transaction of the guard commits, and the response is valid.
Answer(a) ==
    /\ pc[a] = "calling"
    /\ lock' = None /\ Step(a, "counting")
    /\ UNCHANGED <<row, responses, doneNow, seen, completedCount, runner, runnerSeen>>

\* Mutant of Count: done_now is the count of the agent that comes next.
CountNext(a) ==
    /\ pc[a] = "counting"
    /\ completedCount' = completedCount + 1
    /\ doneNow' = [doneNow EXCEPT ![a] = completedCount + 2]
    /\ Step(a, "reading")
    /\ UNCHANGED <<row, lock, responses, seen, runner, runnerSeen>>

\* completed_count += 1; done_now = completed_count, under completed_lock.
Count(a) ==
    /\ pc[a] = "counting"
    /\ completedCount' = completedCount + 1
    /\ doneNow' = [doneNow EXCEPT ![a] = completedCount + 1]
    /\ Step(a, "reading")
    /\ UNCHANGED <<row, lock, responses, seen, runner, runnerSeen>>

\* update_status_and_progress, no new status: session.get ...
ReadProgress(a) ==
    /\ pc[a] = "reading"
    /\ seen' = [seen EXCEPT ![a] = progress]
    /\ Step(a, "writing")
    /\ UNCHANGED <<row, lock, responses, doneNow, completedCount, runner, runnerSeen>>

\* Mutant of WriteProgress: the UPDATE writes the whole row back, with the
\* status that the task had read.
WriteRow(a) ==
    /\ pc[a] = "writing" /\ lock = None
    /\ progress' = [seen[a] EXCEPT !.done = doneNow[a]] /\ status' = seen[a].stage
    /\ Step(a, "answered")
    /\ UNCHANGED <<lock, responses, doneNow, seen, completedCount, runner,
                   runnerSeen>>

\* ... then the UPDATE of the whole document, and its commit.
WriteProgress(a) ==
    /\ pc[a] = "writing" /\ lock = None
    /\ progress' = [seen[a] EXCEPT !.done = doneNow[a]]
    /\ Step(a, "answered")
    /\ UNCHANGED <<status, lock, responses, doneNow, seen, completedCount, runner,
                   runnerSeen>>

\* The write fails: the exception is swallowed.
SkipProgress(a) ==
    /\ pc[a] \in {"reading", "writing"}
    /\ Step(a, "answered")
    /\ UNCHANGED <<row, lock, responses, doneNow, seen, completedCount, runner,
                   runnerSeen>>

\* Mutant of Raise: the transaction of the guard stays open.
RaiseUnreleased(a) ==
    /\ pc[a] \in {"asking", "calling"} /\ lock \in {None, a}
    /\ Step(a, "raised")
    /\ runner' = IF runner = "gathering" THEN "mark_read" ELSE runner
    /\ UNCHANGED <<row, lock, responses, doneNow, seen, completedCount, runnerSeen>>

\* call_llm_for_simulation raises: the cap, the provider, the repair budget.
\* The first exception leaves gather; the siblings are not cancelled.
Raise(a) ==
    /\ pc[a] \in {"asking", "calling"} /\ lock \in {None, a}
    /\ lock' = None /\ Step(a, "raised")
    /\ runner' = IF runner = "gathering" THEN "mark_read" ELSE runner
    /\ UNCHANGED <<row, responses, doneNow, seen, completedCount, runnerSeen>>

-----------------------------------------------------------------------------
(* The engine, after gather, and _mark_failed.                             *)

\* Mutant of Gathered: the progress writes are not awaited.
GatheredUnreported ==
    /\ runner = "gathering"
    /\ \A a \in Agents : pc[a] \in {"reading", "writing", "answered"}
    /\ runner' = "persist"
    /\ UNCHANGED <<row, lock, responses, tasks, runnerSeen>>

Gathered ==
    /\ runner = "gathering" /\ \A a \in Agents : pc[a] = "answered"
    /\ runner' = "persist"
    /\ UNCHANGED <<row, lock, responses, tasks, runnerSeen>>

\* Mutant of PersistRound: one transaction for each agent.
PersistOneByOne ==
    /\ runner = "persist"
    /\ \E a \in Agents \ responses : responses' = responses \cup {a}
    /\ runner' = IF responses' = Agents THEN "final_read" ELSE runner
    /\ UNCHANGED <<row, lock, tasks, runnerSeen>>

\* write_round_results commits the whole round in one transaction.
PersistRound ==
    /\ runner = "persist"
    /\ responses' = {a \in Agents : pc[a] = "answered"}
    /\ runner' = "final_read"
    /\ UNCHANGED <<row, lock, tasks, runnerSeen>>

RunnerReads ==
    /\ runner \in {"final_read", "mark_read"}
    /\ runnerSeen' = progress
    /\ runner' = IF runner = "final_read" THEN "final_write" ELSE "mark_write"
    /\ UNCHANGED <<row, lock, responses, tasks>>

\* agents_completed = len(round_result.agent_responses).
WriteFinal ==
    /\ runner = "final_write" /\ lock = None
    /\ progress' = [runnerSeen EXCEPT !.done = Cardinality(responses)]
    /\ runner' = "done"
    /\ UNCHANGED <<status, lock, responses, tasks, runnerSeen>>

\* A database call of the engine raises.
EngineRaises ==
    /\ runner \in {"persist", "final_read", "final_write"}
    /\ runner' = "mark_read"
    /\ UNCHANGED <<row, lock, responses, tasks, runnerSeen>>

\* _mark_failed: status and progress in one UPDATE.
WriteFailed ==
    /\ runner = "mark_write" /\ lock = None
    /\ status' = "failed"
    /\ progress' = [runnerSeen EXCEPT !.stage = "failed"]
    /\ runner' = "failed"
    /\ UNCHANGED <<lock, responses, tasks, runnerSeen>>

\* job_timeout cancels the job: gather, when still awaited, cancels every
\* task; whatever a task was doing is rolled back.  Orphans are not reached.
CancelJob ==
    /\ runner \notin Ended
    /\ runner' = "cancelled"
    /\ IF runner = "gathering"
         THEN /\ pc' = [a \in Agents |-> IF pc[a] \in Finished THEN pc[a] ELSE "cancelled"]
              /\ lock' = None
         ELSE UNCHANGED <<pc, lock>>
    /\ UNCHANGED <<row, responses, doneNow, seen, completedCount, runnerSeen>>

-----------------------------------------------------------------------------
TaskStep(a) ==
    \/ Start(a) \/ Call(a) \/ Answer(a) \/ Count(a) \/ ReadProgress(a)
    \/ WriteProgress(a) \/ SkipProgress(a) \/ Raise(a)

RunnerStep ==
    \/ Gathered \/ PersistRound \/ RunnerReads \/ WriteFinal \/ EngineRaises
    \/ WriteFailed

Next == (\E a \in Agents : TaskStep(a)) \/ RunnerStep \/ CancelJob

Spec == Init /\ [][Next]_vars

\* The event loop runs every ready task.  Postgres grants the row lock in
\* arrival order, asyncio.Semaphore is a FIFO: no waiter is passed over for
\* ever.  Answers and errors are both possible and neither is owed.
FairSpec ==
    /\ Spec
    /\ \A a \in Agents : WF_vars(TaskStep(a)) /\ SF_vars(Start(a)) /\ SF_vars(Call(a))
                           /\ SF_vars(WriteProgress(a))
    /\ WF_vars(RunnerStep) /\ SF_vars(WriteFinal) /\ SF_vars(WriteFailed)

-----------------------------------------------------------------------------
(* Properties.                                                             *)

\* Type invariant.
TypeOK ==
    /\ status \in {"simulating", "failed"} /\ progress \in Progress
    /\ lock \in Agents \cup {None} /\ responses \in SUBSET Agents
    /\ pc \in [Agents -> Active \cup Finished \cup {"pending"}]
    /\ doneNow \in [Agents -> 0 .. Cardinality(Agents)]
    /\ seen \in [Agents -> Progress]
    /\ completedCount \in 0 .. Cardinality(Agents)
    /\ runner \in Ended \cup Marking
                    \cup {"gathering", "persist", "final_read", "final_write"}
    /\ runnerSeen \in Progress

\* A round is persisted whole or not at all: no row of a round in which some
\* agent raised, was cancelled or was still being asked.
NoPartialRound == responses # {} => responses = Agents

\* When the engine goes on to the next round the progress document counts
\* every agent of this one: no late or lost write of a task can undo it.
FinalCountExact ==
    runner = "done" => progress = [stage |-> "simulating", done |-> Cardinality(Agents)]

\* However stale the documents that tasks, orphans and _mark_failed write
\* back, a poll never sees more agents completed than have answered.
ProgressNeverAhead == progress.done <= completedCount

\* With all its tasks, orphans and stale documents, the round is one that is
\* persisted at once and ends once, as SimulationPipeline takes it to be.
Atomic == INSTANCE AtomicRound
  WITH outcome <- IF runner \in Ended THEN runner ELSE "running"
ImplementsAtomicRound == Atomic!Spec

\* The orphans of a failed round never bring the simulation back, and never
\* add to its rows.
FailureIsFinal ==
    [][status = "failed" => status' = "failed" /\ responses' = responses]_vars

\* However the tasks contend for slots and for the row, the round ends and
\* leaves no task running.
RoundEnds ==
    <>[](runner \in Ended /\ \A a \in Agents : pc[a] \in Finished)

-----------------------------------------------------------------------------
(* The inductive invariant of RoundProofs.                                 *)

Uncounted == {a \in Agents : pc[a] \in {"pending", "asking", "calling", "counting"}}
Counted == {a \in Agents : pc[a] \in {"reading", "writing", "answered"}}

\* What the counter and its stale copies can be.
CountsBounded ==
    /\ Cardinality(Counted) <= completedCount
    /\ completedCount + Cardinality(Uncounted) <= Cardinality(Agents)
    /\ \A a \in Agents : doneNow[a] <= completedCount
    /\ runnerSeen.done <= completedCount

\* Past gather every agent has answered, and past PersistRound has a row.
RunnerKnows ==
    /\ runner \in {"persist", "final_read", "final_write", "done"} =>
         \A a \in Agents : pc[a] = "answered"
    /\ runner \in {"final_read", "final_write", "done"} => responses = Agents

\* Only _mark_failed writes the stage, so no stale copy holds it before.
StageUnwritten ==
    /\ status = "failed" => runner = "failed"
    /\ runner # "failed" =>
         /\ progress.stage = "simulating" /\ runnerSeen.stage = "simulating"
         /\ \A a \in Agents : seen[a].stage = "simulating"

IInv ==
    /\ TypeOK /\ CountsBounded /\ RunnerKnows /\ StageUnwritten
    /\ NoPartialRound /\ FinalCountExact /\ ProgressNeverAhead
=============================================================================
