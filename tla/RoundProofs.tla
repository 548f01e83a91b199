----------------------------- MODULE RoundProofs -----------------------------
(* Proofs about the rounds of a simulation: about the calls of one round     *)
(* (RoundExecution), for any society and any width of the semaphore, and     *)
(* about what all rounds do to the stances (StanceFlow), for any number of   *)
(* rounds, any network, any answers and any arguments.                       *)
EXTENDS RoundExecution, StanceFlow, FiniteSetTheorems, TLAPS

----------------------------------------------------------------------------
(* Counting agents.                                                        *)

LEMMA AgentCounts ==
  /\ Cardinality(Agents) \in Nat
  /\ \A S \in SUBSET Agents : IsFiniteSet(S) /\ Cardinality(S) \in Nat
                                /\ Cardinality(S) <= Cardinality(Agents)
  BY AgentsAssumption, FS_CardinalityType, FS_Subset

LEMMA PartsOfAgents == Uncounted \in SUBSET Agents /\ Counted \in SUBSET Agents
  BY DEF Uncounted, Counted

\* A task that neither enters nor leaves a part, or is cancelled out of it.
LEMMA Shrinks ==
  ASSUME TypeOK, CountsBounded,
         Uncounted' \subseteq Uncounted, Counted' \subseteq Counted,
         completedCount' = completedCount, doneNow' = doneNow,
         runnerSeen'.done <= completedCount
  PROVE  CountsBounded'
<1>1. Uncounted \in SUBSET Agents /\ Counted \in SUBSET Agents
  BY PartsOfAgents
<1>2. /\ Cardinality(Uncounted') \in Nat /\ Cardinality(Counted') \in Nat
      /\ Cardinality(Uncounted') <= Cardinality(Uncounted)
      /\ Cardinality(Counted') <= Cardinality(Counted)
      /\ Cardinality(Uncounted) \in Nat /\ Cardinality(Counted) \in Nat
  BY <1>1, AgentCounts, FS_Subset, FS_CardinalityType
<1>3. completedCount \in Nat /\ Cardinality(Agents) \in Nat
  BY AgentCounts DEF TypeOK
<1> QED BY <1>2, <1>3 DEF CountsBounded

----------------------------------------------------------------------------
LEMMA InitInv == Init => IInv
<1> SUFFICES ASSUME Init PROVE IInv
  OBVIOUS
<1> USE DEF Init
<1>1. TypeOK
  BY AgentCounts DEF TypeOK, Progress
<1>2. CountsBounded
  <2>1. Uncounted = Agents /\ Counted = {}
    BY DEF Uncounted, Counted
  <2> QED BY <2>1, AgentCounts, FS_EmptySet DEF CountsBounded
<1>3. RunnerKnows /\ StageUnwritten /\ NoPartialRound /\ FinalCountExact /\ ProgressNeverAhead
  BY DEF RunnerKnows, StageUnwritten, NoPartialRound, FinalCountExact, ProgressNeverAhead
<1> QED BY <1>1, <1>2, <1>3 DEF IInv

\* Steps of a task that move it within the uncounted or the counted, and
\* leave the rows and the counter alone.
LEMMA QuietStepInv ==
  ASSUME IInv, NEW a \in Agents,
         NEW point \in Active \cup Finished, Step(a, point),
         \/ /\ pc[a] \in {"pending", "asking", "calling"}
            /\ point \in {"asking", "calling", "counting", "raised"}
         \/ pc[a] \in {"reading", "writing"} /\ point \in {"writing", "answered"},
         status' = status, progress' = progress, responses' = responses,
         lock' \in Agents \cup {None}, doneNow' = doneNow,
         seen' \in [Agents -> {progress} \cup {seen[b] : b \in Agents}],
         completedCount' = completedCount, runnerSeen' = runnerSeen,
         runner' \in {runner, "mark_read"}, runner' # runner => runner = "gathering"
  PROVE  IInv'
<1> USE DEF IInv
<1>1. pc' = [pc EXCEPT ![a] = point] /\ pc \in [Agents -> Active \cup Finished \cup {"pending"}]
  BY DEF Step, TypeOK
<1>2. \A b \in Agents : seen'[b] = progress \/ \E c \in Agents : seen'[b] = seen[c]
  OBVIOUS
<1>3. TypeOK'
  <2>1. seen' \in [Agents -> Progress]
    BY <1>2 DEF TypeOK
  <2> QED BY <1>1, <2>1 DEF TypeOK, Marking
<1>4. CountsBounded'
  <2>1. Uncounted' \subseteq Uncounted /\ Counted' \subseteq Counted
    BY <1>1 DEF Uncounted, Counted
  <2> QED BY <2>1, Shrinks DEF CountsBounded
<1>5. RunnerKnows'
  BY <1>1 DEF RunnerKnows, TypeOK
<1>6. StageUnwritten'
  BY <1>2 DEF StageUnwritten
<1>7. NoPartialRound' /\ FinalCountExact' /\ ProgressNeverAhead'
  BY DEF NoPartialRound, FinalCountExact, ProgressNeverAhead
<1> QED BY <1>3, <1>4, <1>5, <1>6, <1>7

\* The agent that counts leaves the uncounted: there is room for one more.
LEMMA CountInv == ASSUME IInv, NEW a \in Agents, Count(a) PROVE IInv'
<1> USE DEF IInv
<1>1. /\ pc[a] = "counting" /\ completedCount' = completedCount + 1
      /\ doneNow' = [doneNow EXCEPT ![a] = completedCount + 1]
      /\ pc' = [pc EXCEPT ![a] = "reading"]
      /\ UNCHANGED <<status, progress, lock, responses, seen, runner, runnerSeen>>
  BY DEF Count, Step, row
<1>2. /\ completedCount \in Nat /\ Cardinality(Agents) \in Nat
      /\ pc \in [Agents -> Active \cup Finished \cup {"pending"}]
  BY AgentCounts DEF TypeOK
<1>3. Uncounted' = Uncounted \ {a} /\ a \in Uncounted
  BY <1>1, <1>2 DEF Uncounted
<1>4. Counted' = Counted \cup {a} /\ a \notin Counted
  BY <1>1, <1>2 DEF Counted
<1>5. /\ Cardinality(Uncounted') = Cardinality(Uncounted) - 1
      /\ Cardinality(Counted') = Cardinality(Counted) + 1
      /\ Cardinality(Uncounted) \in Nat /\ Cardinality(Uncounted') \in Nat
      /\ Cardinality(Counted) \in Nat
  <2>1. IsFiniteSet(Uncounted) /\ IsFiniteSet(Counted) /\ IsFiniteSet(Uncounted')
    BY <1>3, AgentCounts, PartsOfAgents
  <2> QED BY <1>3, <1>4, <2>1, FS_AddElement, FS_RemoveElement, FS_CardinalityType
<1>6. CountsBounded'
  <2>1. \A b \in Agents : doneNow'[b] <= completedCount'
    BY <1>1, <1>2 DEF CountsBounded, TypeOK
  <2> QED BY <1>1, <1>2, <1>5, <2>1 DEF CountsBounded, TypeOK, Progress
<1>7. completedCount' \in 0 .. Cardinality(Agents)
  BY <1>1, <1>2, <1>5 DEF CountsBounded
<1>8. TypeOK'
  BY <1>1, <1>2, <1>7 DEF TypeOK, Active
<1>9. RunnerKnows'
  BY <1>1, <1>2 DEF RunnerKnows
<1>10. StageUnwritten' /\ NoPartialRound' /\ FinalCountExact'
  BY <1>1 DEF StageUnwritten, NoPartialRound, FinalCountExact
<1>11. ProgressNeverAhead'
  BY <1>1, <1>2 DEF ProgressNeverAhead, TypeOK, Progress
<1> QED BY <1>6, <1>8, <1>9, <1>10, <1>11

\* A stale document goes back with a count that is not ahead, and while the
\* engine is past gather nobody is left to write one.
LEMMA WriteProgressInv == ASSUME IInv, NEW a \in Agents, WriteProgress(a) PROVE IInv'
<1> USE DEF IInv
<1>1. /\ pc[a] = "writing" /\ pc' = [pc EXCEPT ![a] = "answered"]
      /\ progress' = [seen[a] EXCEPT !.done = doneNow[a]]
      /\ UNCHANGED <<status, lock, responses, doneNow, seen, completedCount, runner, runnerSeen>>
  BY DEF WriteProgress, Step
<1>2. pc \in [Agents -> Active \cup Finished \cup {"pending"}] /\ seen[a] \in Progress
  BY DEF TypeOK
<1>3. progress' \in Progress /\ progress'.done = doneNow[a] /\ progress'.stage = seen[a].stage
  BY <1>1, <1>2 DEF Progress, TypeOK
<1>4. TypeOK'
  BY <1>1, <1>2, <1>3 DEF TypeOK, Finished
<1>5. CountsBounded'
  <2>1. Uncounted' \subseteq Uncounted /\ Counted' \subseteq Counted
    BY <1>1, <1>2 DEF Uncounted, Counted
  <2> QED BY <1>1, <2>1, Shrinks DEF CountsBounded
<1>6. RunnerKnows'
  BY <1>1, <1>2 DEF RunnerKnows
<1>7. StageUnwritten'
  BY <1>1, <1>3 DEF StageUnwritten
<1>8. FinalCountExact'
  BY <1>1 DEF RunnerKnows, FinalCountExact
<1>9. NoPartialRound' /\ ProgressNeverAhead'
  BY <1>1, <1>3 DEF NoPartialRound, ProgressNeverAhead, CountsBounded
<1> QED BY <1>4, <1>5, <1>6, <1>7, <1>8, <1>9

LEMMA TaskInv == ASSUME IInv, NEW a \in Agents, TaskStep(a) PROVE IInv'
<1> USE DEF row, Active, Finished
<1>1. CASE Start(a)
  BY <1>1, QuietStepInv DEF Start, IInv, TypeOK, Step
<1>2. CASE Call(a)
  BY <1>2, QuietStepInv DEF Call, IInv, TypeOK, Step
<1>3. CASE Answer(a)
  BY <1>3, QuietStepInv DEF Answer, IInv, TypeOK, Step
<1>4. CASE Count(a)
  BY <1>4, CountInv
<1>5. CASE ReadProgress(a)
  <2>1. seen' \in [Agents -> {progress} \cup {seen[b] : b \in Agents}]
    BY <1>5 DEF ReadProgress, IInv, TypeOK
  <2> QED BY <1>5, <2>1, QuietStepInv DEF ReadProgress, IInv, TypeOK, Step
<1>6. CASE WriteProgress(a)
  BY <1>6, WriteProgressInv
<1>7. CASE SkipProgress(a)
  BY <1>7, QuietStepInv DEF SkipProgress, IInv, TypeOK, Step
<1>8. CASE Raise(a)
  BY <1>8, QuietStepInv DEF Raise, IInv, TypeOK, Step
<1> QED BY <1>1, <1>2, <1>3, <1>4, <1>5, <1>6, <1>7, <1>8 DEF TaskStep

----------------------------------------------------------------------------
(* The engine and _mark_failed                                             *)

\* Steps of the runner that leave the tasks and the row alone.
LEMMA QuietRunnerInv ==
  ASSUME IInv, UNCHANGED <<row, lock, tasks>>,
         runner' \in {"persist", "final_read", "final_write", "mark_read", "mark_write"},
         runner # "failed", runnerSeen' \in {runnerSeen, progress},
         responses' \in {responses, Agents},
         runner' \in {"persist", "final_read", "final_write"} => \A a \in Agents : pc[a] = "answered",
         runner' \in {"final_read", "final_write"} => responses' = Agents
  PROVE  IInv'
<1> USE DEF IInv, row, tasks
<1>1. TypeOK'
  BY DEF TypeOK, Marking
<1>2. CountsBounded'
  <2>1. Uncounted' = Uncounted /\ Counted' = Counted
    BY DEF Uncounted, Counted
  <2>2. runnerSeen'.done <= completedCount
    BY DEF CountsBounded, ProgressNeverAhead
  <2> QED BY <2>1, <2>2, Shrinks
<1>3. RunnerKnows' /\ FinalCountExact'
  BY DEF RunnerKnows, FinalCountExact
<1>4. StageUnwritten'
  BY DEF StageUnwritten
<1>5. NoPartialRound' /\ ProgressNeverAhead'
  BY DEF NoPartialRound, ProgressNeverAhead
<1> QED BY <1>1, <1>2, <1>3, <1>4, <1>5

LEMMA GatheredInv == ASSUME IInv, Gathered PROVE IInv'
  BY QuietRunnerInv DEF Gathered

LEMMA PersistRoundInv == ASSUME IInv, PersistRound PROVE IInv'
<1>1. \A a \in Agents : pc[a] = "answered"
  BY DEF PersistRound, IInv, RunnerKnows
<1>2. responses' = Agents
  BY <1>1 DEF PersistRound
<1> QED BY <1>1, <1>2, QuietRunnerInv DEF PersistRound

LEMMA RunnerReadsInv == ASSUME IInv, RunnerReads PROVE IInv'
<1>1. runner \in {"final_read", "mark_read"} /\ runnerSeen' = progress
  BY DEF RunnerReads
<1>2. /\ runner' \in {"final_write", "mark_write"}
      /\ runner' = "final_write" => runner = "final_read"
      /\ UNCHANGED <<row, lock, responses, tasks>>
  BY <1>1 DEF RunnerReads
<1>3. runner = "final_read" => responses = Agents /\ \A a \in Agents : pc[a] = "answered"
  BY DEF IInv, RunnerKnows
<1> QED BY <1>1, <1>2, <1>3, QuietRunnerInv

LEMMA EngineRaisesInv == ASSUME IInv, EngineRaises PROVE IInv'
  BY QuietRunnerInv DEF EngineRaises

\* All have answered, so all are counted.
LEMMA WriteFinalInv == ASSUME IInv, WriteFinal PROVE IInv'
<1> USE DEF IInv
<1>1. /\ runner = "final_write" /\ runner' = "done"
      /\ progress' = [runnerSeen EXCEPT !.done = Cardinality(responses)]
      /\ UNCHANGED <<status, lock, responses, pc, doneNow, seen, completedCount, runnerSeen>>
  BY DEF WriteFinal, tasks
<1>2. responses = Agents /\ \A a \in Agents : pc[a] = "answered"
  BY <1>1 DEF RunnerKnows
<1>3. Counted = Agents
  BY <1>2 DEF Counted
<1>4. progress' = [stage |-> "simulating", done |-> Cardinality(Agents)]
  BY <1>1, <1>2 DEF StageUnwritten, TypeOK, Progress
<1>5. Cardinality(Agents) <= completedCount /\ Cardinality(Agents) \in Nat
  BY <1>3, AgentCounts DEF CountsBounded
<1>6. TypeOK'
  BY <1>1, <1>4, <1>5 DEF TypeOK, Progress, Ended
<1>7. CountsBounded'
  <2>1. Uncounted' = Uncounted /\ Counted' = Counted
    BY <1>1 DEF Uncounted, Counted
  <2> QED BY <1>1, <2>1, Shrinks DEF CountsBounded
<1>8. RunnerKnows' /\ FinalCountExact' /\ NoPartialRound'
  BY <1>1, <1>2, <1>4 DEF RunnerKnows, FinalCountExact, NoPartialRound
<1>9. StageUnwritten'
  BY <1>1, <1>4 DEF StageUnwritten
<1>10. ProgressNeverAhead'
  BY <1>1, <1>4, <1>5 DEF ProgressNeverAhead
<1> QED BY <1>6, <1>7, <1>8, <1>9, <1>10

LEMMA WriteFailedInv == ASSUME IInv, WriteFailed PROVE IInv'
<1> USE DEF IInv
<1>1. /\ runner' = "failed" /\ status' = "failed"
      /\ progress' = [runnerSeen EXCEPT !.stage = "failed"]
      /\ UNCHANGED <<lock, responses, pc, doneNow, seen, completedCount, runnerSeen>>
  BY DEF WriteFailed, tasks
<1>2. progress' \in Progress /\ progress'.done = runnerSeen.done
  BY <1>1 DEF TypeOK, Progress
<1>3. TypeOK'
  BY <1>1, <1>2 DEF TypeOK, Ended
<1>4. CountsBounded'
  <2>1. Uncounted' = Uncounted /\ Counted' = Counted
    BY <1>1 DEF Uncounted, Counted
  <2> QED BY <1>1, <2>1, Shrinks DEF CountsBounded
<1>5. RunnerKnows' /\ StageUnwritten' /\ FinalCountExact' /\ NoPartialRound'
  BY <1>1 DEF RunnerKnows, StageUnwritten, FinalCountExact, NoPartialRound
<1>6. ProgressNeverAhead'
  BY <1>1, <1>2 DEF ProgressNeverAhead, CountsBounded
<1> QED BY <1>3, <1>4, <1>5, <1>6

LEMMA CancelJobInv == ASSUME IInv, CancelJob PROVE IInv'
<1> USE DEF IInv
<1>1. /\ runner \notin Ended /\ runner' = "cancelled" /\ lock' \in {lock, None}
      /\ UNCHANGED <<status, progress, responses, doneNow, seen, completedCount, runnerSeen>>
  BY DEF CancelJob, row
<1>2. /\ pc' \in [Agents -> Active \cup Finished \cup {"pending"}]
      /\ \A a \in Agents : pc'[a] \in {pc[a], "cancelled"}
  BY DEF CancelJob, TypeOK, Finished
<1>3. TypeOK'
  BY <1>1, <1>2 DEF TypeOK, Ended
<1>4. CountsBounded'
  <2>1. Uncounted' \subseteq Uncounted /\ Counted' \subseteq Counted
    BY <1>2 DEF Uncounted, Counted
  <2> QED BY <1>1, <2>1, Shrinks DEF CountsBounded
<1>5. RunnerKnows' /\ StageUnwritten' /\ FinalCountExact' /\ NoPartialRound' /\ ProgressNeverAhead'
  BY <1>1 DEF RunnerKnows, StageUnwritten, FinalCountExact, NoPartialRound, ProgressNeverAhead, Ended
<1> QED BY <1>3, <1>4, <1>5

LEMMA NextInv == IInv /\ [Next]_vars => IInv'
<1> SUFFICES ASSUME IInv, [Next]_vars PROVE IInv'
  OBVIOUS
<1>1. CASE UNCHANGED vars
  BY <1>1 DEF vars, row, tasks, IInv, TypeOK, CountsBounded, Uncounted, Counted, RunnerKnows,
     StageUnwritten, NoPartialRound, FinalCountExact, ProgressNeverAhead
<1>2. CASE \E a \in Agents : TaskStep(a)
  BY <1>2, TaskInv
<1>3. CASE RunnerStep
  BY <1>3, GatheredInv, PersistRoundInv, RunnerReadsInv, EngineRaisesInv, WriteFinalInv,
     WriteFailedInv DEF RunnerStep
<1>4. CASE CancelJob
  BY <1>4, CancelJobInv
<1> QED BY <1>1, <1>2, <1>3, <1>4 DEF Next

----------------------------------------------------------------------------
(* What holds of every behaviour.                                          *)

\* Types, the counter's bounds, what the runner knows past gather, and who
\* has written the stage.
THEOREM RoundInvariance == Spec => []IInv
  BY InitInv, NextInv, PTL DEF Spec

\* A round's rows are those of all agents or none (run_simulation persists
\* only what gather returned whole).
THEOREM NoPartialRoundTheorem == Spec => []NoPartialRound
<1>1. IInv => NoPartialRound
  BY DEF IInv
<1> QED BY <1>1, RoundInvariance, PTL

\* When the engine goes on, agents_completed is the number of agents,
\* whatever writes of tasks were lost or late.
THEOREM FinalCountExactTheorem == Spec => []FinalCountExact
<1>1. IInv => FinalCountExact
  BY DEF IInv
<1> QED BY <1>1, RoundInvariance, PTL

\* No poll sees more agents completed than have answered.
THEOREM ProgressNeverAheadTheorem == Spec => []ProgressNeverAhead
<1>1. IInv => ProgressNeverAhead
  BY DEF IInv
<1> QED BY <1>1, RoundInvariance, PTL

\* No orphan revives a failed simulation or adds to its rows.
THEOREM FailureIsFinalTheorem == Spec => FailureIsFinal
<1>1. ASSUME IInv, [Next]_vars, status = "failed"
      PROVE  status' = "failed" /\ responses' = responses
  <2>1. runner = "failed"
    BY <1>1 DEF IInv, StageUnwritten
  <2>2. CASE UNCHANGED vars
    BY <1>1, <2>2 DEF vars, row
  <2>3. CASE \E a \in Agents : TaskStep(a)
    BY <1>1, <2>3 DEF TaskStep, Start, Call, Answer, Count, ReadProgress, WriteProgress,
       SkipProgress, Raise, row
  <2>4. ~RunnerStep
    BY <2>1 DEF RunnerStep, Gathered, PersistRound, RunnerReads, WriteFinal, EngineRaises, WriteFailed
  <2>5. CASE CancelJob
    BY <2>1, <2>5 DEF CancelJob, Ended
  <2> QED BY <1>1, <2>2, <2>3, <2>4, <2>5 DEF Next
<1>2. IInv /\ [Next]_vars => [status = "failed" => status' = "failed" /\ responses' = responses]_vars
  BY <1>1
<1> QED BY <1>2, RoundInvariance, PTL DEF Spec, FailureIsFinal

\* A step of a task is none of the round: it reaches neither its rows nor the
\* status, and at most hands an error on to the runner.
LEMMA TaskIsHidden ==
  ASSUME NEW a \in Agents, TaskStep(a)
  PROVE  UNCHANGED Atomic!vars
<1>1. UNCHANGED <<status, responses>>
  BY DEF TaskStep, Start, Call, Answer, Count, ReadProgress, WriteProgress, SkipProgress, Raise, row
<1>2. runner' = runner \/ (runner = "gathering" /\ runner' = "mark_read")
  <2>1. CASE Raise(a)
    BY <2>1 DEF Raise
  <2>2. CASE ~Raise(a)
    BY <2>2 DEF TaskStep, Start, Call, Answer, Count, ReadProgress, WriteProgress, SkipProgress
  <2> QED BY <2>1, <2>2
<1> QED BY <1>1, <1>2 DEF Atomic!vars, Ended

LEMMA RunnerIsRound ==
  ASSUME IInv, RunnerStep
  PROVE  [Atomic!Next]_Atomic!vars
<1> USE DEF row, tasks, Atomic!vars, Ended
<1>1. CASE Gathered \/ RunnerReads \/ EngineRaises
  BY <1>1 DEF Gathered, RunnerReads, EngineRaises
<1>2. CASE PersistRound
  <2>1. responses' = Agents
    BY <1>2 DEF PersistRound, IInv, RunnerKnows
  <2> QED BY <1>2, <2>1 DEF PersistRound, Atomic!Next, Atomic!Persist
<1>3. CASE WriteFinal
  <2>1. responses = Agents
    BY <1>3 DEF WriteFinal, IInv, RunnerKnows
  <2> QED BY <1>3, <2>1 DEF WriteFinal, Atomic!Next, Atomic!Finish
<1>4. CASE WriteFailed
  BY <1>4 DEF WriteFailed, Atomic!Next, Atomic!Fail
<1> QED BY <1>1, <1>2, <1>3, <1>4 DEF RunnerStep

\* Tasks, orphans, slots, locks and stale documents together are one round
\* that is persisted at once and ends once: SimulationPipeline may take it as
\* a step that commits or raises.
THEOREM ImplementsAtomicRoundTheorem == Spec => ImplementsAtomicRound
<1>1. Init => Atomic!Init
  BY DEF Init, Atomic!Init, Ended
<1>2. IInv /\ [Next]_vars => [Atomic!Next]_Atomic!vars
  <2> SUFFICES ASSUME IInv, [Next]_vars PROVE [Atomic!Next]_Atomic!vars
    OBVIOUS
  <2>1. CASE UNCHANGED vars
    BY <2>1 DEF vars, row, Atomic!vars
  <2>2. CASE \E a \in Agents : TaskStep(a)
    BY <2>2, TaskIsHidden
  <2>3. CASE RunnerStep
    BY <2>3, RunnerIsRound
  <2>4. CASE CancelJob
    BY <2>4 DEF CancelJob, row, Ended, Atomic!Next, Atomic!Cancel
  <2> QED BY <2>1, <2>2, <2>3, <2>4 DEF Next
<1> QED BY <1>1, <1>2, RoundInvariance, PTL DEF Spec, ImplementsAtomicRound, Atomic!Spec

----------------------------------------------------------------------------
(* StanceFlow: the stances through all rounds.                             *)

LEMMA TableTyped ==
  ASSUME FlowTypeOK
  PROVE  /\ Len(table) \in Nat /\ Round \in Nat \ {0}
         /\ DebateRound \in Nat /\ DebateRound >= 3 /\ LastRound \in Nat /\ DebateRound <= LastRound
         /\ \A r \in 1 .. Len(table) : table[r] \in [Agents -> Response]
  BY RoundAssumption DEF FlowTypeOK, Round

\* More turns back no less.
LEMMA BackedByMore ==
  ASSUME NEW a, NEW shift, NEW few, NEW many, NEW stances, few \subseteq many,
         Backed(a, shift, few, stances)
  PROVE  Backed(a, shift, many, stances)
  BY DEF Backed

\* The network of the society is fixed, and what is committed stays.
LEMMA StillTold ==
  ASSUME TableHolds, UNCHANGED <<edges, table, turns>>
  PROVE  TableHolds'
<1>1. StoodIn(Before)' = StoodIn(Before)
  BY DEF StoodIn, Before
<1>2. \A r \in 1 .. Len(table') : Sound(r, table[r])'
  BY DEF TableHolds, Sound
<1>3. ASSUME Len(table) >= DebateRound
      PROVE  Debated(table[DebateRound], turns, StoodIn(Before))'
  <2>1. Debated(table[DebateRound], turns, StoodIn(Before))
    BY <1>3 DEF TableHolds
  <2>2. ASSUME NEW a \in Agents, NEW shift, Backed(a, shift, turns, StoodIn(Before))
        PROVE  Backed(a, shift, turns, StoodIn(Before))'
    BY <1>1, <2>2 DEF Backed
  <2> QED BY <1>1, <2>1, <2>2 DEF Debated
<1> QED BY <1>2, <1>3 DEF TableHolds

LEMMA StillToBeTold ==
  ASSUME RoundHolds, UNCHANGED <<edges, phase, snapshots, rows, pairs, drafted, pairShift, table>>
  PROVE  RoundHolds'
<1>1. Stand' = Stand /\ Round' = Round
  BY DEF Stand, Round
<1>2. Sound(Round, rows) => Sound(Round, rows)'
  BY <1>1 DEF Sound
<1>3. Debated(rows, drafted, Stand) => Debated(rows, drafted, Stand)'
  BY <1>1 DEF Debated, Backed
<1>4. \A a \in Agents : Backed(a, pairShift[a], drafted, Stand)
                         => Backed(a, pairShift[a], drafted, Stand)'
  BY <1>1 DEF Backed
<1> QED BY <1>1, <1>2, <1>3, <1>4 DEF RoundHolds

LEMMA FlowInitInv == FlowInit => FlowInv
<1> SUFFICES ASSUME FlowInit PROVE FlowInv
  OBVIOUS
<1> USE DEF FlowInit
<1>1. FlowTypeOK
  BY BoundAssumption, StanceAssumption, FS_EmptySet DEF FlowTypeOK, NoShifts
<1>2. RoundHolds
  BY RoundAssumption DEF RoundHolds
<1>3. TableHolds
  BY RoundAssumption DEF TableHolds
<1>4. MemoryHolds
  BY DEF MemoryHolds
<1>5. ReportHolds
  BY DEF ReportHolds
<1> QED BY <1>1, <1>2, <1>3, <1>4, <1>5 DEF FlowInv

\* What is committed, and what memory has of it, stands until the next commit.
LEMMA Uncommitted ==
  ASSUME FlowInv, UNCHANGED <<edges, snapshots, table, turns, markers>>, phase' # "reported"
  PROVE  TableHolds' /\ MemoryHolds' /\ ReportHolds'
<1> USE DEF FlowInv
<1>1. TableHolds'
  BY StillTold
<1>2. MemoryHolds'
  BY DEF MemoryHolds
<1> QED BY <1>1, <1>2 DEF ReportHolds

LEMMA AskBaselineInv == ASSUME FlowInv, AskBaseline PROVE FlowInv'
<1> USE DEF FlowInv, committed
<1>1. PICK given \in [Agents -> Answers], ids \in Ids :
        rows' = [a \in Agents |-> Normalised(given[a], ids[a])]
  BY DEF AskBaseline
<1>2. /\ Round = 1 /\ phase = "ask" /\ phase' = "write"
      /\ UNCHANGED <<edges, snapshots, pairs, drafted, pairShift, table, turns, markers>>
  BY DEF AskBaseline
<1>3. rows' \in [Agents -> Response]
  <2>1. ids \in [Agents -> Agents]
    BY DEF Ids
  <2> QED BY <1>1, <2>1, StanceAssumption DEF Normalised, Response
<1>4. Sound(1, rows')
  BY <1>1 DEF Sound, Normalised
<1>5. FlowTypeOK'
  BY <1>2 DEF FlowTypeOK
<1>6. RoundHolds'
  BY <1>2, <1>3, <1>4, TableTyped DEF RoundHolds, Round
<1> QED BY <1>2, <1>5, <1>6, Uncommitted

LEMMA AskSocietyInv == ASSUME FlowInv, AskSociety PROVE FlowInv'
<1> USE DEF FlowInv, committed
<1>1. PICK given \in [Agents -> Answers] :
        rows' = [a \in Agents |->
                   [agent |-> a, stance |-> given[a].stance,
                    shift |-> given[a].shift, objections |-> given[a].objections]]
  BY DEF AskSociety
<1>2. /\ Round \notin {1, DebateRound} /\ phase = "ask" /\ phase' = "write"
      /\ UNCHANGED <<edges, snapshots, pairs, drafted, pairShift, table, turns, markers>>
  BY DEF AskSociety
<1>3. rows' \in [Agents -> Response]
  BY <1>1, BoundAssumption DEF Response
<1>4. Sound(Round, rows')
  BY <1>1, <1>2 DEF Sound
<1>5. FlowTypeOK'
  BY <1>2 DEF FlowTypeOK
<1>6. RoundHolds'
  BY <1>2, <1>3, <1>4 DEF RoundHolds, Round, Sound
<1> QED BY <1>2, <1>5, <1>6, Uncommitted

LEMMA SamplePairsInv == ASSUME FlowInv, SamplePairs PROVE FlowInv'
<1> USE DEF FlowInv, committed
<1>1. /\ Round = DebateRound /\ phase = "ask" /\ phase' = "debate"
      /\ pairs' \subseteq {e \in edges : e[1] # e[2]}
      /\ UNCHANGED <<edges, snapshots, rows, drafted, pairShift, table, turns, markers>>
  BY DEF SamplePairs
<1>2. FlowTypeOK'
  BY <1>1 DEF FlowTypeOK
<1>3. RoundHolds'
  BY <1>1 DEF RoundHolds, Round, NoShifts
<1> QED BY <1>1, <1>2, <1>3, Uncommitted

\* The turn that was spoken backs the shift of its subject.
LEMMA DebateInv == ASSUME FlowInv, Debate PROVE FlowInv'
<1> USE DEF FlowInv, committed
<1>1. PICK pair \in pairs, shifts \in ShiftLists :
        /\ drafted' = drafted \cup {Turn(pair[1], pair[2], shifts)}
        /\ pairShift' = IF shifts = <<>> THEN pairShift
                        ELSE [pairShift EXCEPT ![pair[2]] = Head(shifts)]
        /\ pairs' = pairs \ {pair}
  BY DEF Debate
<1>2. /\ phase = "debate" /\ phase' = "debate" /\ Round = DebateRound
      /\ UNCHANGED <<edges, snapshots, rows, table, turns, markers>>
  BY DEF Debate, RoundHolds
<1>3. /\ pair \in edges /\ pair = <<pair[1], pair[2]>> /\ pair[1] # pair[2]
      /\ pair[1] \in Agents /\ pair[2] \in Agents
  BY <1>2 DEF RoundHolds, FlowTypeOK
<1>4. shifts \in Seq(Shift) /\ (shifts # <<>> => Head(shifts) \in Shift)
  BY BoundAssumption
<1>5. Turn(pair[1], pair[2], shifts) \in DebateTurn
  BY <1>3, <1>4 DEF Turn, DebateTurn, FlowTypeOK
<1>6. FlowTypeOK'
  <2>1. IsFiniteSet(drafted')
    BY <1>1, FS_AddElement DEF FlowTypeOK
  <2>2. pairShift' \in [Agents -> Shift \cup {None}]
    BY <1>1, <1>4 DEF FlowTypeOK
  <2> QED BY <1>1, <1>2, <1>5, <2>1, <2>2 DEF FlowTypeOK
<1>7. RoundHolds'
  <2>1. ASSUME NEW a \in Agents, pairShift'[a] # None
        PROVE  Backed(a, pairShift'[a], drafted', Stand)
    <3>1. CASE a = pair[2] /\ shifts # <<>>
      <4>1. pairShift'[a] = Head(shifts)
        BY <1>1, <3>1 DEF FlowTypeOK
      <4>2. Turn(pair[1], a, shifts) \in drafted'
        BY <1>1, <3>1
      <4>3. /\ Turn(pair[1], a, shifts).target = a /\ Turn(pair[1], a, shifts).speaker = pair[1]
            /\ Turn(pair[1], a, shifts).shifts = shifts
            /\ Turn(pair[1], a, shifts).shown = <<Stand[pair[1]], Stand[a]>>
        BY <1>3, <2>1 DEF Turn, Stand
      <4> HIDE DEF Turn
      <4> QED BY <1>3, <3>1, <4>1, <4>2, <4>3 DEF Backed
    <3>2. CASE ~(a = pair[2] /\ shifts # <<>>)
      <4>1. pairShift'[a] = pairShift[a]
        BY <1>1, <3>2 DEF FlowTypeOK
      <4>2. Backed(a, pairShift[a], drafted, Stand)
        BY <1>2, <2>1, <4>1 DEF RoundHolds
      <4> QED BY <1>1, <4>1, <4>2, BackedByMore
    <3> QED BY <3>1, <3>2
  <2>3. Stand' = Stand /\ Round' = Round /\ pairs' \subseteq {e \in edges' : e[1] # e[2]}
    BY <1>1, <1>2 DEF Stand, Round, RoundHolds
  <2> QED BY <1>2, <2>1, <2>3 DEF RoundHolds, Backed
<1> QED BY <1>2, <1>6, <1>7, Uncommitted

LEMMA CloseDebateInv == ASSUME FlowInv, CloseDebate PROVE FlowInv'
<1> USE DEF FlowInv, committed
<1>1. /\ phase = "debate" /\ phase' = "write" /\ Round = DebateRound
      /\ rows' = [a \in Agents |->
                    [agent |-> a, shift |-> pairShift[a], objections |-> {},
                     stance |-> IF pairShift[a] = None THEN snapshots[a].stance
                                ELSE pairShift[a].to]]
      /\ UNCHANGED <<edges, snapshots, pairs, drafted, pairShift, table, turns, markers>>
  BY DEF CloseDebate, RoundHolds
<1>2. rows' \in [Agents -> Response]
  BY <1>1 DEF Response, FlowTypeOK, Shift
<1>3. Sound(Round, rows')
  BY <1>1, TableTyped DEF Sound
<1>4. Debated(rows', drafted, Stand)
  BY <1>1 DEF Debated, RoundHolds, Stand
<1>5. FlowTypeOK'
  BY <1>1 DEF FlowTypeOK
<1>6. RoundHolds'
  <2>1. Stand' = Stand /\ Round' = Round
    BY <1>1 DEF Stand, Round
  <2>2. Sound(Round, rows)'
    BY <1>3, <2>1 DEF Sound
  <2>3. Debated(rows, drafted, Stand)'
    BY <1>1, <1>4, <2>1 DEF Debated, Backed
  <2> QED BY <1>1, <1>2, <2>1, <2>2, <2>3 DEF RoundHolds
<1> QED BY <1>1, <1>5, <1>6, Uncommitted

\* The table grows by the round, which the new snapshots repeat.
LEMMA WriteRoundInv == ASSUME FlowInv, WriteRound PROVE FlowInv'
<1> USE DEF FlowInv
<1>1. /\ phase = "write" /\ phase' = IF Round = LastRound THEN "report" ELSE "ask"
      /\ table' = Append(table, rows) /\ turns' = turns \cup drafted
      /\ snapshots' = [a \in Agents |-> Updated(snapshots[a], rows[a])]
      /\ drafted' = {} /\ pairShift' = NoShifts /\ UNCHANGED edges
  BY DEF WriteRound
<1>2. rows \in [Agents -> Response] /\ Sound(Round, rows) /\ Len(table) < LastRound
  BY <1>1 DEF RoundHolds
<1>3. table \in Seq([Agents -> Response])
  BY DEF FlowTypeOK
<1>4. /\ Len(table') = Round /\ table'[Round] = rows /\ Round = Len(table) + 1
      /\ \A r \in 1 .. Len(table) : table'[r] = table[r]
      /\ table' \in Seq([Agents -> Response])
  BY <1>1, <1>2, <1>3 DEF Round
<1>5. Round \in Nat /\ Len(table) \in Nat
  BY TableTyped
<1>6. \A a \in Agents :
        /\ snapshots'[a].stance = rows[a].stance
        /\ snapshots'[a].objections = snapshots[a].objections \cup ({Round} \X rows[a].objections)
  BY <1>1 DEF Updated
<1>7. FlowTypeOK'
  <2>1. snapshots' \in [Agents -> [stance : Stances, objections : SUBSET (Nat \X Objections)]]
    <3> SUFFICES ASSUME NEW a \in Agents
                 PROVE  Updated(snapshots[a], rows[a])
                          \in [stance : Stances, objections : SUBSET (Nat \X Objections)]
      BY <1>1
    <3>1. rows[a].stance \in Stances /\ rows[a].objections \subseteq Objections
      BY <1>2 DEF Response
    <3>2. snapshots[a].objections \subseteq Nat \X Objections
      BY DEF FlowTypeOK
    <3> QED BY <1>5, <3>1, <3>2 DEF Updated
  <2>2. IsFiniteSet(turns') /\ turns' \subseteq DebateTurn /\ IsFiniteSet(drafted')
    BY <1>1, FS_Union, FS_EmptySet DEF FlowTypeOK
  <2>3. pairShift' \in [Agents -> Shift \cup {None}]
    BY <1>1 DEF NoShifts
  <2> QED BY <1>1, <1>4, <2>1, <2>2, <2>3 DEF FlowTypeOK
<1>8. RoundHolds'
  BY <1>1, <1>2, <1>4, <1>5, TableTyped DEF RoundHolds
<1>9. TableHolds'
  <2>1. ASSUME NEW r \in 1 .. Len(table') PROVE Sound(r, table'[r])
    <3>1. CASE r = Round
      BY <1>2, <1>4, <3>1
    <3>2. CASE r # Round
      BY <1>4, <1>5, <3>2 DEF TableHolds
    <3> QED BY <3>1, <3>2
  <2>2. Before \in 1 .. LastRound /\ Before < DebateRound /\ Before > 1
    BY TableTyped DEF Before
  <2>3. ASSUME Len(table') >= DebateRound
        PROVE  Debated(table'[DebateRound], turns', StoodIn(Before)')
    <3>1. CASE Round = DebateRound
      <4>1. Debated(rows, drafted, Stand)
        BY <1>1, <3>1 DEF RoundHolds
      <4>2. StoodIn(Before)' = Stand
        <5>1. table # <<>> /\ Before = Len(table)
          BY <1>4, <1>5, <2>2, <3>1 DEF Before
        <5>2. \A a \in Agents : table'[Before][a].stance = snapshots[a].stance
          BY <1>4, <1>5, <2>2, <5>1 DEF MemoryHolds
        <5> QED BY <5>2 DEF StoodIn, Stand, Before
      <4>3. table'[DebateRound] = rows
        BY <1>4, <3>1
      <4> QED BY <1>1, <4>1, <4>2, <4>3, BackedByMore DEF Debated
    <3>2. CASE Round # DebateRound
      <4>1. Len(table) >= DebateRound
        BY <1>4, <1>5, <2>3, <3>2, TableTyped
      <4>2. Debated(table[DebateRound], turns, StoodIn(Before))
        BY <4>1 DEF TableHolds
      <4>3. table'[DebateRound] = table[DebateRound] /\ table'[Before] = table[Before]
        BY <1>4, <1>5, <2>2, <4>1, TableTyped
      <4>4. StoodIn(Before)' = StoodIn(Before)
        BY <4>3 DEF StoodIn, Before
      <4> QED BY <1>1, <4>2, <4>3, <4>4, BackedByMore DEF Debated
    <3> QED BY <3>1, <3>2
  <2>4. \A r \in 1 .. Len(table') : Sound(r, table[r])'
    BY <2>1 DEF Sound
  <2>5. Len(table') >= DebateRound => Debated(table[DebateRound], turns, StoodIn(Before))'
    BY <1>1, <2>3 DEF Debated, Backed
  <2> QED BY <2>4, <2>5 DEF TableHolds
<1>10. MemoryHolds'
  <2> SUFFICES ASSUME NEW a \in Agents
      PROVE  /\ snapshots'[a].stance = table'[Len(table')][a].stance
             /\ snapshots'[a].objections =
                  {told \in (1 .. Len(table')) \X Objections :
                     told[2] \in table'[told[1]][a].objections}
    BY <1>4, <1>5 DEF MemoryHolds
  <2>1. snapshots'[a].stance = table'[Len(table')][a].stance
    BY <1>4, <1>6
  <2>2. rows[a].objections \subseteq Objections
    BY <1>2 DEF Response
  <2>3. \A x : x \in snapshots[a].objections
          <=> x \in (1 .. Len(table)) \X Objections /\ x[2] \in table[x[1]][a].objections
    BY DEF MemoryHolds
  <2>4. \A x \in snapshots'[a].objections :
          x \in (1 .. Len(table')) \X Objections /\ x[2] \in table'[x[1]][a].objections
    BY <1>4, <1>5, <1>6, <2>2, <2>3
  <2>5. ASSUME NEW x \in (1 .. Len(table')) \X Objections, x[2] \in table'[x[1]][a].objections
        PROVE  x \in snapshots'[a].objections
    <3>1. CASE x[1] = Round
      BY <1>4, <1>6, <2>5, <3>1
    <3>2. CASE x[1] # Round
      <4>1. x \in (1 .. Len(table)) \X Objections
        BY <1>4, <1>5, <3>2
      <4> QED BY <1>4, <1>6, <2>3, <2>5, <4>1
    <3> QED BY <3>1, <3>2
  <2>6. snapshots'[a].objections =
          {told \in (1 .. Len(table')) \X Objections :
             told[2] \in table'[told[1]][a].objections}
    BY <2>4, <2>5
  <2> QED BY <2>1, <2>6
<1>11. ReportHolds'
  BY <1>1 DEF ReportHolds
<1> QED BY <1>7, <1>8, <1>9, <1>10, <1>11

LEMMA ReportInv == ASSUME FlowInv, Report PROVE FlowInv'
<1> USE DEF FlowInv, memory
<1>1. /\ phase = "report" /\ phase' = "reported"
      /\ markers' = [r \in 1 .. LastRound |-> [shift \in Shift |-> MarkerCount(r, shift)]]
      /\ UNCHANGED <<edges, snapshots, rows, pairs, drafted, pairShift, table, turns>>
  BY DEF Report
<1>2. FlowTypeOK'
  BY <1>1 DEF FlowTypeOK
<1>3. RoundHolds'
  BY <1>1 DEF RoundHolds
<1>4. TableHolds'
  BY <1>1, StillTold
<1>5. MemoryHolds'
  BY <1>1 DEF MemoryHolds
<1>6. ReportHolds'
  BY <1>1 DEF ReportHolds, MarkerCount, Told, ToldInTurns
<1> QED BY <1>2, <1>3, <1>4, <1>5, <1>6

LEMMA StopInv == ASSUME FlowInv, Stop PROVE FlowInv'
<1> USE DEF FlowInv, memory, committed
<1>1. /\ phase' = "stopped"
      /\ UNCHANGED <<edges, snapshots, rows, pairs, drafted, pairShift, table, turns, markers>>
  BY DEF Stop
<1>2. FlowTypeOK'
  BY <1>1 DEF FlowTypeOK
<1>3. RoundHolds'
  BY <1>1 DEF RoundHolds
<1> QED BY <1>1, <1>2, <1>3, Uncommitted

LEMMA FlowNextInv == FlowInv /\ [FlowNext]_flowVars => FlowInv'
<1> SUFFICES ASSUME FlowInv, [FlowNext]_flowVars PROVE FlowInv'
  OBVIOUS
<1>1. CASE UNCHANGED flowVars
  <2>1. UNCHANGED <<edges, phase, snapshots, rows, pairs, drafted, pairShift, table, turns, markers>>
    BY <1>1 DEF flowVars, memory, committed
  <2>2. FlowTypeOK'
    BY <2>1 DEF FlowInv, FlowTypeOK
  <2>3. RoundHolds'
    BY <2>1, StillToBeTold DEF FlowInv
  <2>4. TableHolds' /\ MemoryHolds'
    BY <2>1, StillTold DEF FlowInv, MemoryHolds
  <2>5. ReportHolds'
    BY <2>1 DEF FlowInv, ReportHolds, MarkerCount, Told, ToldInTurns
  <2> QED BY <2>2, <2>3, <2>4, <2>5 DEF FlowInv
<1>2. CASE FlowNext
  BY <1>2, AskBaselineInv, AskSocietyInv, SamplePairsInv, DebateInv, CloseDebateInv,
     WriteRoundInv, ReportInv, StopInv DEF FlowNext
<1> QED BY <1>1, <1>2

----------------------------------------------------------------------------
(* What holds of every behaviour of the rounds.                            *)

\* The only row of a round after the baseline that bears the id of an agent is
\* its own.
LEMMA OwnRow ==
  ASSUME FlowInv, NEW r \in 1 .. Len(table), r # 1, NEW a \in Agents
  PROVE  RowsOf(r, a) = {table[r][a]} /\ StanceIn(r, a) = table[r][a].stance
<1>1. \A b \in Agents : table[r][b].agent = b
  BY DEF FlowInv, TableHolds, Sound
<1>2. RowsOf(r, a) = {table[r][a]}
  BY <1>1 DEF RowsOf
<1> QED BY <1>2 DEF StanceIn

\* Who moved, what the responses say of it, and where the mover stood before.
LEMMA DebateRead ==
  ASSUME FlowInv, Len(table) >= DebateRound, NEW a \in Agents
  PROVE  /\ StanceIn(DebateRound, a) = table[DebateRound][a].stance
         /\ StanceIn(Before, a) = table[Before][a].stance
         /\ StanceIn(DebateRound, a) # StanceIn(Before, a) =>
              /\ table[DebateRound][a].shift \in Shift
              /\ table[DebateRound][a].shift.to = StanceIn(DebateRound, a)
              /\ Backed(a, table[DebateRound][a].shift, turns, StoodIn(Before))
<1>1. /\ DebateRound \in 1 .. Len(table) /\ DebateRound # 1
      /\ Before \in 1 .. Len(table) /\ Before # 1
  BY TableTyped DEF FlowInv, Before
<1>2. /\ StanceIn(DebateRound, a) = table[DebateRound][a].stance
      /\ StanceIn(Before, a) = table[Before][a].stance
  BY <1>1, OwnRow
<1>3. Debated(table[DebateRound], turns, StoodIn(Before))
  BY DEF FlowInv, TableHolds
<1>4. table[DebateRound][a].shift \in Shift \cup {None}
  BY <1>1, TableTyped DEF FlowInv, Response
<1> QED BY <1>2, <1>3, <1>4 DEF Debated, StoodIn

\* For any society, any number of rounds and any answers: which responses,
\* turns and snapshots there are at each point, and how they hang together.
THEOREM FlowInvariance == FlowSpec => []FlowInv
  BY FlowInitInv, FlowNextInv, PTL DEF FlowSpec

\* The snapshots the prompts are built from and the rows the report reads tell
\* the same stance and the same objections of every agent.
THEOREM MemoryMatchesTableTheorem == FlowSpec => []MemoryMatchesTable
<1>1. ASSUME FlowInv PROVE MemoryMatchesTable
  <2> SUFFICES ASSUME NEW a \in Agents
      PROVE  /\ snapshots[a].objections =
                  {told \in (1 .. Len(table)) \X Objections :
                     \E response \in RowsOf(told[1], a) : told[2] \in response.objections}
             /\ Len(table) > 1 =>
                  {response.stance : response \in RowsOf(Len(table), a)} = {snapshots[a].stance}
    BY DEF MemoryMatchesTable
  <2>1. ASSUME NEW told \in (1 .. Len(table)) \X Objections
        PROVE  (\E response \in RowsOf(told[1], a) : told[2] \in response.objections)
                 <=> told[2] \in table[told[1]][a].objections
    <3>1. CASE told[1] = 1
      <4>1. \A b \in Agents : table[1][b].objections = {}
        BY <1>1, <3>1 DEF FlowInv, TableHolds, Sound
      <4> QED BY <3>1, <4>1 DEF RowsOf
    <3>2. CASE told[1] # 1
      BY <1>1, <3>2, OwnRow
    <3> QED BY <3>1, <3>2
  <2>2. snapshots[a].objections =
          {told \in (1 .. Len(table)) \X Objections : told[2] \in table[told[1]][a].objections}
    BY <1>1 DEF FlowInv, MemoryHolds
  <2>3. ASSUME Len(table) > 1
        PROVE  {response.stance : response \in RowsOf(Len(table), a)} = {snapshots[a].stance}
    <3>1. Len(table) \in 1 .. Len(table) /\ Len(table) # 1 /\ table # <<>>
      BY <1>1, <2>3, TableTyped DEF FlowInv
    <3>2. RowsOf(Len(table), a) = {table[Len(table)][a]}
      BY <1>1, <3>1, OwnRow
    <3>3. snapshots[a].stance = table[Len(table)][a].stance
      BY <1>1, <3>1 DEF FlowInv, MemoryHolds
    <3> QED BY <3>2, <3>3
  <2> QED BY <2>1, <2>2, <2>3
<1> QED BY <1>1, FlowInvariance, PTL

\* Whoever moved in the debate was argued with by an agent that influences it,
\* whose first shift it followed, and both were shown as they stood before.
THEOREM MoveBackedTheorem == FlowSpec => []MoveBacked
<1>1. ASSUME FlowInv PROVE MoveBacked
  <2> SUFFICES ASSUME Len(table) >= DebateRound, NEW a \in Agents,
                      StanceIn(DebateRound, a) # StanceIn(Before, a)
      PROVE  \E t \in turns :
                /\ t.target = a /\ t.speaker # a /\ <<t.speaker, a>> \in edges
                /\ t.shifts # <<>> /\ Head(t.shifts).to = StanceIn(DebateRound, a)
                /\ t.shown = <<StanceIn(Before, t.speaker), StanceIn(Before, a)>>
    BY DEF MoveBacked
  <2>1. PICK t \in turns :
          /\ t.target = a /\ t.speaker # a /\ <<t.speaker, a>> \in edges
          /\ t.shifts # <<>> /\ Head(t.shifts) = table[DebateRound][a].shift
          /\ t.shown = <<StoodIn(Before)[t.speaker], StoodIn(Before)[a]>>
    BY <1>1, DebateRead DEF Backed
  <2>2. t.speaker \in Agents
    BY <1>1 DEF FlowInv, FlowTypeOK, DebateTurn
  <2>3. /\ StoodIn(Before)[t.speaker] = StanceIn(Before, t.speaker)
        /\ StoodIn(Before)[a] = StanceIn(Before, a)
    BY <1>1, <2>2, DebateRead DEF StoodIn
  <2>4. Head(t.shifts).to = StanceIn(DebateRound, a)
    BY <1>1, <2>1, DebateRead
  <2> QED BY <2>1, <2>3, <2>4
<1> QED BY <1>1, FlowInvariance, PTL

\* The mentions in turns are finitely many, however long the lists of shifts.
LEMMA MentionsFinite ==
  ASSUME FlowTypeOK, NEW r, NEW shift
  PROVE  ToldInTurns(r, shift) \in Nat
<1> DEFINE mentions(t) == {t} \X {i \in DOMAIN t.shifts : t.shifts[i] = shift}
           byTurn == [t \in turns |-> mentions(t)]
           all == {mentions(t) : t \in turns}
<1>1. IsFiniteSet(all)
  <2>1. byTurn \in Surjection(turns, all)
    BY DEF Surjection
  <2> HIDE DEF byTurn, all
  <2> QED BY <2>1, FS_Surjection DEF FlowTypeOK
<1>2. ASSUME NEW t \in turns PROVE IsFiniteSet(mentions(t))
  <2>1. t.shifts \in Seq(Shift)
    BY DEF FlowTypeOK, DebateTurn
  <2>2. DOMAIN t.shifts = 1 .. Len(t.shifts) /\ Len(t.shifts) \in Nat
    BY <2>1
  <2>3. IsFiniteSet(DOMAIN t.shifts)
    BY <2>2, FS_Interval
  <2>4. IsFiniteSet({i \in DOMAIN t.shifts : t.shifts[i] = shift})
    BY <2>3, FS_Subset
  <2> QED BY <2>4, FS_Singleton, FS_Product
<1>3. IsFiniteSet(UNION all)
  <2>1. \A s \in all : IsFiniteSet(s)
    BY <1>2
  <2> HIDE DEF all
  <2> QED BY <1>1, <2>1, FS_UNION
<1> QED BY <1>3, FS_CardinalityType DEF ToldInTurns

\* Every move of the debate has a mention in the report for itself.
THEOREM MovesReportedTheorem == FlowSpec => []MovesReported
<1>1. ASSUME FlowInv PROVE MovesReported
  <2> SUFFICES ASSUME phase = "reported"
      PROVE  \E told \in [Movers -> Shift] :
               /\ \A a \in Movers : told[a].to = StanceIn(DebateRound, a)
               /\ \A shift \in Shift : Cardinality({a \in Movers : told[a] = shift})
                                          <= markers[DebateRound][shift]
    BY DEF MovesReported
  <2>1. /\ Len(table) >= DebateRound /\ DebateRound \in 1 .. LastRound
        /\ markers = [r \in 1 .. LastRound |-> [shift \in Shift |-> MarkerCount(r, shift)]]
    BY <1>1, TableTyped DEF FlowInv, RoundHolds, ReportHolds
  <2> DEFINE told == [a \in Movers |-> table[DebateRound][a].shift]
  <2>2. ASSUME NEW a \in Movers
        PROVE  told[a] \in Shift /\ told[a].to = StanceIn(DebateRound, a)
    BY <1>1, <2>1, DebateRead DEF Movers
  <2>3. told \in [Movers -> Shift]
    BY <2>2
  <2>4. ASSUME NEW shift \in Shift
        PROVE  Cardinality({a \in Movers : told[a] = shift}) <= markers[DebateRound][shift]
    <3> DEFINE moved == {a \in Movers : told[a] = shift}
               tell == {a \in Agents : table[DebateRound][a].shift = shift}
    <3>1. moved \subseteq tell /\ IsFiniteSet(tell)
      BY AgentsAssumption, FS_Subset DEF Movers
    <3>2. IsFiniteSet(moved) /\ Cardinality(moved) <= Cardinality(tell)
      BY <3>1, FS_Subset
    <3>3. Cardinality(moved) \in Nat /\ Cardinality(tell) \in Nat
      BY <3>1, <3>2, FS_CardinalityType
    <3>4. /\ markers[DebateRound][shift] = Cardinality(tell) + ToldInTurns(DebateRound, shift)
          /\ ToldInTurns(DebateRound, shift) \in Nat
      BY <1>1, <2>1, MentionsFinite DEF MarkerCount, Told, FlowInv
    <3> HIDE DEF moved, tell
    <3>5. Cardinality(moved) <= markers[DebateRound][shift]
      BY <3>2, <3>3, <3>4
    <3> QED BY <3>5 DEF moved
  <2> HIDE DEF told
  <2> QED BY <2>2, <2>3, <2>4
<1> QED BY <1>1, FlowInvariance, PTL
=============================================================================
