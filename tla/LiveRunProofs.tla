--------------------------- MODULE LiveRunProofs ---------------------------
(***************************************************************************)
(* Proofs about LiveRun, for every number of stages.                       *)
(***************************************************************************)
EXTENDS LiveRun, TLAPS

USE StagesAssumption

\* Before the row exists no stage is begun and no artifact written.
LEMMA InitInvariant == Init => IInv
<1> SUFFICES ASSUME Init PROVE IInv
  OBVIOUS
<1> USE DEF Init, Stages
<1>1. 1 \in Stages /\ 1 \in 1 .. NumStages + 1
  OBVIOUS
<1>2. TypeOK
  BY <1>1 DEF TypeOK, Final, Running, Gone
<1>3. Walked
  BY DEF Walked
<1>4. StageAtPoint
  BY <1>1 DEF StageAtPoint
<1>5. StatusAtPoint
  BY DEF StatusAtPoint, Running
<1>6. FilesAtPoint
  BY DEF FilesAtPoint
<1> QED
  BY <1>2, <1>3, <1>4, <1>5, <1>6 DEF IInv

\* A step that touches neither the row nor the loop's stage keeps what the
\* invariant says of the stages behind and ahead.
LEMMA WalkedKept ==
    ASSUME Walked, UNCHANGED <<stages, at>>
    PROVE  Walked'
BY DEF Walked

\* The steps before the loop.
LEMMA StartStep ==
    ASSUME IInv, CreateRun \/ Prepare \/ BeginRun
    PROVE  IInv'
<1> USE DEF IInv, TypeOK, StageAtPoint, StatusAtPoint, FilesAtPoint, row,
            Stages, Final, Running, Gone
<1>1. CASE CreateRun
  BY <1>1, WalkedKept DEF CreateRun
<1>2. CASE Prepare
  BY <1>2, WalkedKept DEF Prepare
<1>3. CASE BeginRun
  BY <1>3, WalkedKept DEF BeginRun
<1> QED
  BY <1>1, <1>2, <1>3

\* Entering a stage, its runner's return and its runner's exception.
LEMMA WorkStep ==
    ASSUME IInv, EnterStage \/ StageReturns \/ StageRaises
    PROVE  IInv'
<1> USE DEF IInv, TypeOK, StageAtPoint, StatusAtPoint, FilesAtPoint, row,
            Stages, Final, Running, Gone
<1>1. CASE EnterStage
  <2>1. Walked'
    BY <1>1 DEF EnterStage, Walked
  <2> QED
    BY <1>1, <2>1 DEF EnterStage
<1>2. CASE StageReturns
  BY <1>2, WalkedKept DEF StageReturns
<1>3. CASE StageRaises
  BY <1>3, WalkedKept DEF StageRaises
<1> QED
  BY <1>1, <1>2, <1>3

\* A stage is left for the next one or, after the last, for the final update.
LEMMA LeaveStep ==
    ASSUME IInv, LeaveStage
    PROVE  IInv'
<1> USE DEF IInv, TypeOK, StageAtPoint, StatusAtPoint, FilesAtPoint, Stages,
            Final, Running, Gone, LeaveStage
<1>1. CASE at = NumStages
  <2>1. Walked'
    BY <1>1 DEF Walked
  <2> QED
    BY <1>1, <2>1
<1>2. CASE at # NumStages
  <2>1. at' = at + 1 /\ at' \in Stages
    BY <1>2
  <2>2. Walked'
    BY <1>2, <2>1 DEF Walked
  <2>3. stages'[at'] = "pending"
    BY <1>2, <2>1 DEF Walked
  <2> QED
    BY <1>2, <2>1, <2>2, <2>3
<1> QED
  BY <1>1, <1>2

\* The two updates that end a run.
LEMMA EndStep ==
    ASSUME IInv, RecordFailure \/ Finalize
    PROVE  IInv'
<1> USE DEF IInv, TypeOK, StageAtPoint, StatusAtPoint, FilesAtPoint, Stages,
            Final, Running, Gone
<1>1. CASE RecordFailure
  <2>1. Walked'
    BY <1>1 DEF RecordFailure, Walked
  <2> QED
    BY <1>1, <2>1 DEF RecordFailure
<1>2. CASE Finalize
  BY <1>2, WalkedKept DEF Finalize
<1> QED
  BY <1>1, <1>2

\* An exception between stages, and the end of the process.
LEMMA FaultStep ==
    ASSUME IInv, Breaks \/ Redeploy
    PROVE  IInv'
<1> USE DEF IInv, TypeOK, StageAtPoint, StatusAtPoint, FilesAtPoint, row,
            Stages, Final, Running, Gone
<1>1. CASE Breaks
  BY <1>1, WalkedKept DEF Breaks
<1>2. CASE Redeploy
  BY <1>2, WalkedKept DEF Redeploy
<1> QED
  BY <1>1, <1>2

LEMMA StepInvariant == IInv /\ [Next]_vars => IInv'
<1> SUFFICES ASSUME IInv, [Next]_vars PROVE IInv'
  OBVIOUS
<1>1. CASE Next
  BY <1>1, StartStep, WorkStep, LeaveStep, EndStep, FaultStep DEF Next, TaskStep
<1>2. CASE UNCHANGED vars
  BY <1>2, WalkedKept DEF vars, row, IInv, TypeOK, StageAtPoint, StatusAtPoint,
     FilesAtPoint
<1> QED
  BY <1>1, <1>2

\* The row, the artifacts and the task agree at every point of a run.
THEOREM Invariance == Spec => []IInv
BY InitInvariant, StepInvariant, PTL DEF Spec

-----------------------------------------------------------------------------
\* The report endpoint answers for a run only when each of its stages is
\* complete.
THEOREM ReportServedWholeTheorem == Spec => []ReportServedWhole
<1>1. IInv => ReportServedWhole
  BY DEF IInv, TypeOK, Walked, StatusAtPoint, ReportServedWhole, ReportServed, Stages
<1> QED
  BY <1>1, Invariance, PTL

\* With the artifacts on a volume, no redeploy takes the report of a
\* completed run away.
THEOREM ReportKeptTheorem == Spec => []ReportKept
<1>1. IInv => ReportKept
  <2> SUFFICES ASSUME IInv, status = "complete", durable
               PROVE  ReportServed /\ files = Stages
    BY DEF ReportKept
  <2>1. \A s \in Stages : stages[s] = "complete"
    BY DEF IInv, TypeOK, Walked, StatusAtPoint, Stages
  <2>2. Stages \subseteq files /\ files \subseteq Stages
    BY <2>1 DEF IInv, TypeOK, FilesAtPoint
  <2>3. NumStages \in Stages /\ manifest
    BY DEF IInv, StatusAtPoint, Stages
  <2> QED
    BY <2>2, <2>3 DEF ReportServed
<1> QED
  BY <1>1, Invariance, PTL

\* A failed row names the one stage that failed.
THEOREM FailureNamesStageTheorem == Spec => []FailureNamesStage
<1>1. IInv => FailureNamesStage
  BY DEF IInv, TypeOK, Walked, StatusAtPoint, FailureNamesStage
<1> QED
  BY <1>1, Invariance, PTL

\* What a client polls never goes back: stages, current stage, final status.
THEOREM ProgressOnlyGrowsTheorem == Spec => ProgressOnlyGrows
<1> DEFINE Grows ==
      /\ \A s \in Stages : stages[s] = "complete" => stages'[s] = "complete"
      /\ current' >= current
      /\ status \in Final => status' = status
<1>1. IInv /\ [Next]_vars => [Grows]_vars
  <2> SUFFICES ASSUME IInv, Next PROVE Grows
    OBVIOUS
  <2> USE DEF IInv, TypeOK, StageAtPoint, StatusAtPoint, row, Stages, Final,
              Running, Gone
  <2>1. CASE CreateRun
    BY <2>1 DEF CreateRun
  <2>2. CASE Prepare \/ StageReturns \/ StageRaises \/ Breaks \/ Redeploy
    BY <2>2 DEF Prepare, StageReturns, StageRaises, Breaks, Redeploy
  <2>3. CASE BeginRun
    BY <2>3 DEF BeginRun
  <2>4. CASE EnterStage
    BY <2>4 DEF EnterStage
  <2>5. CASE LeaveStage
    BY <2>5 DEF LeaveStage
  <2>6. CASE RecordFailure
    BY <2>6 DEF RecordFailure
  <2>7. CASE Finalize
    BY <2>7 DEF Finalize
  <2> QED
    BY <2>1, <2>2, <2>3, <2>4, <2>5, <2>6, <2>7 DEF Next, TaskStep
<1> QED
  BY <1>1, Invariance, PTL DEF Spec, ProgressOnlyGrows
=============================================================================
