---------------------- MODULE SimulationPipelineProofs ----------------------
(***************************************************************************)
(* Proofs about SimulationPipeline, for every number of rounds, enqueues   *)
(* and faults.                                                             *)
(***************************************************************************)
EXTENDS SimulationPipeline, TLAPS

USE RoundsAssumption, BoundsAssumption

(* The domains of the two tables, spelled out for the provers.             *)
LEMMA EntryPoints ==
    DOMAIN EntryStatus = {"parsing_enter", "evidence_enter", "graph_enter",
        "society_enter", "simulating_enter", "completed_enter",
        "aggregate_enter", "reported_enter"}
BY DEF EntryStatus

LEMMA GuardedPoints ==
    DOMAIN GuardedStage = {"parsing_work", "evidence_work", "graph_build",
        "graph_dedup", "graph_embed", "graph_edges", "graph_mark",
        "society_work", "engine_resume", "round_enter", "round_work",
        "aggregate_work"}
BY DEF GuardedStage

(* A status update never leaves the enumerated statuses.                   *)
LEMMA EntryStatusTyped == \A p \in DOMAIN EntryStatus : EntryStatus[p] \in Statuses
BY EntryPoints DEF EntryStatus, Statuses, Stages

LEMMA GuardedStageTyped ==
    \A p \in DOMAIN GuardedStage : GuardedStage[p] \in Stages \cup {"aggregating"}
BY GuardedPoints DEF GuardedStage, Stages

(* The engine is entered from society_building only (or from a failed or   *)
(* already simulating row, which the invariant excludes).                  *)
LEMMA GraphStatusIsNotSimulatable ==
    "simulating" \notin AllowedTransitions["evidence_graph_building"]
BY DEF AllowedTransitions, Statuses, Stages

(* Type correctness of one step.                                           *)
LEMMA TypeStep == IInv /\ [Next]_vars => TypeOK'
<1> SUFFICES ASSUME TypeOK, ProductsAtPoint, [Next]_vars PROVE TypeOK'
  BY DEF IInv
<1> USE EntryPoints, GuardedPoints DEF TypeOK, row, products, config, history,
        Goto, EndJob, EnterStatus, Points
<1>1. CASE Enqueue
  BY <1>1 DEF Enqueue
<1>2. CASE PickUp
  BY <1>2 DEF PickUp
<1>3. CASE RejectTransition
  BY <1>3 DEF RejectTransition
<1>4. CASE ParsingCheck
  BY <1>4 DEF ParsingCheck
<1>5. CASE ParsingEnter
  BY <1>5, EntryStatusTyped DEF ParsingEnter
<1>6. CASE ParseBrief
  BY <1>6 DEF ParseBrief
<1>7. CASE CachePio
  BY <1>7 DEF CachePio
<1>8. CASE EvidenceCheck
  BY <1>8 DEF EvidenceCheck
<1>9. CASE EvidenceEnter
  BY <1>9, EntryStatusTyped DEF EvidenceEnter
<1>10. CASE BuildEvidence
  BY <1>10 DEF BuildEvidence
<1>11. CASE PersistEvidence
  BY <1>11 DEF PersistEvidence
<1>12. CASE GraphEnter
  BY <1>12, EntryStatusTyped DEF GraphEnter
<1>13. CASE GraphCheck
  BY <1>13 DEF GraphCheck
<1>14. CASE DedupEdges
  BY <1>14 DEF DedupEdges
<1>15. CASE EmbedItems
  BY <1>15 DEF EmbedItems
<1>16. CASE DeriveEdges
  BY <1>16 DEF DeriveEdges
<1>17. CASE MarkGraphBuilt
  BY <1>17 DEF MarkGraphBuilt
<1>18. CASE DuplicateEdge
  BY <1>18, GuardedStageTyped DEF DuplicateEdge, Failures
<1>19. CASE SocietyCheck
  BY <1>19 DEF SocietyCheck
<1>20. CASE SocietyEnter
  BY <1>20, EntryStatusTyped DEF SocietyEnter
<1>21. CASE BuildSociety
  BY <1>21 DEF BuildSociety
<1>22. CASE PersistSociety
  BY <1>22 DEF PersistSociety
<1>23. CASE SimulatingEnter
  BY <1>23, EntryStatusTyped DEF SimulatingEnter
<1>24. CASE DetectResume
  BY <1>24 DEF DetectResume, ResumePoint
<1>25. CASE StartRound
  BY <1>25 DEF StartRound
<1>26. CASE WriteRound
  BY <1>26 DEF WriteRound, ProductsAtPoint
<1>27. CASE FinishEngine
  BY <1>27 DEF FinishEngine
<1>28. CASE CompletedEnter
  <2>1. CASE aggregation
    BY <1>28, <2>1, EntryStatusTyped DEF CompletedEnter
  <2>2. CASE ~aggregation
    BY <1>28, <2>2, EntryStatusTyped DEF CompletedEnter
  <2> QED
    BY <2>1, <2>2
<1>29. CASE AggregateEnter
  BY <1>29, EntryStatusTyped DEF AggregateEnter
<1>30. CASE WriteOutput
  BY <1>30 DEF WriteOutput
<1>31. CASE ReportedEnter
  BY <1>31, EntryStatusTyped DEF ReportedEnter
<1>32. CASE MarkFailed
  <2>1. status' \in Statuses /\ failedStage' \in Stages \cup {"aggregating", "none"}
        /\ errorKind' \in {"Exception", "IntegrityError", "none"}
    BY <1>32 DEF MarkFailed, Failures, Statuses
  <2> QED
    BY <1>32, <2>1 DEF MarkFailed
<1>33. CASE Fail
  BY <1>33, GuardedStageTyped DEF Fail, Failures
<1>34. CASE Abort
  <2>1. faults' \in Nat
    BY <1>34 DEF Abort
  <2>2. pc' \in Points /\ queued' \in BOOLEAN /\ outcome' = "aborted"
    BY <1>34 DEF Abort
  <2>3. UNCHANGED <<row, products, config, nextRound, failing, enqueues, history>>
    BY <1>34 DEF Abort
  <2> QED
    BY <2>1, <2>2, <2>3
<1>35. CASE WorkerDies
  BY <1>35 DEF WorkerDies
<1>36. CASE UNCHANGED vars
  BY <1>36 DEF vars
<1> QED
  BY <1>1, <1>2, <1>3, <1>4, <1>5, <1>6, <1>7, <1>8, <1>9, <1>10, <1>11, <1>12, <1>13, <1>14, <1>15, <1>16, <1>17, <1>18, <1>19, <1>20, <1>21, <1>22, <1>23, <1>24, <1>25, <1>26, <1>27, <1>28, <1>29, <1>30, <1>31, <1>32, <1>33, <1>34, <1>35, <1>36 DEF Next, JobStep, Fault

(* What a stage relies on is there when the job arrives.             *)
LEMMA ProductsStep == IInv /\ [Next]_vars => ProductsAtPoint'
<1> SUFFICES ASSUME IInv, [Next]_vars PROVE ProductsAtPoint'
  OBVIOUS
<1> USE EntryPoints, GuardedPoints DEF IInv, TypeOK, row, products, config, history,
        Goto, EndJob, EnterStatus, ProductsAtPoint, ParsingPoints, EvidencePoints, GraphPoints, SocietyPoints,
        EnginePoints, ReportPoints
<1>1. CASE Enqueue
  BY <1>1 DEF Enqueue
<1>2. CASE PickUp
  BY <1>2 DEF PickUp
<1>3. CASE RejectTransition
  BY <1>3 DEF RejectTransition
<1>4. CASE ParsingCheck
  BY <1>4 DEF ParsingCheck
<1>5. CASE ParsingEnter
  BY <1>5 DEF ParsingEnter
<1>6. CASE ParseBrief
  BY <1>6 DEF ParseBrief
<1>7. CASE CachePio
  BY <1>7 DEF CachePio
<1>8. CASE EvidenceCheck
  BY <1>8 DEF EvidenceCheck
<1>9. CASE EvidenceEnter
  BY <1>9 DEF EvidenceEnter
<1>10. CASE BuildEvidence
  BY <1>10 DEF BuildEvidence
<1>11. CASE PersistEvidence
  BY <1>11 DEF PersistEvidence
<1>12. CASE GraphEnter
  BY <1>12 DEF GraphEnter
<1>13. CASE GraphCheck
  BY <1>13 DEF GraphCheck
<1>14. CASE DedupEdges
  BY <1>14 DEF DedupEdges
<1>15. CASE EmbedItems
  BY <1>15 DEF EmbedItems
<1>16. CASE DeriveEdges
  BY <1>16 DEF DeriveEdges
<1>17. CASE MarkGraphBuilt
  BY <1>17 DEF MarkGraphBuilt
<1>18. CASE DuplicateEdge
  BY <1>18 DEF DuplicateEdge
<1>19. CASE SocietyCheck
  BY <1>19 DEF SocietyCheck
<1>20. CASE SocietyEnter
  BY <1>20 DEF SocietyEnter
<1>21. CASE BuildSociety
  BY <1>21 DEF BuildSociety
<1>22. CASE PersistSociety
  BY <1>22 DEF PersistSociety
<1>23. CASE SimulatingEnter
  BY <1>23, GraphStatusIsNotSimulatable
     DEF SimulatingEnter, StatusAtPoint, MayBecome, EntryStatus
<1>24. CASE DetectResume
  BY <1>24 DEF DetectResume, ResumePoint
<1>25. CASE StartRound
  BY <1>25 DEF StartRound
<1>26. CASE WriteRound
  BY <1>26 DEF WriteRound
<1>27. CASE FinishEngine
  BY <1>27 DEF FinishEngine
<1>28. CASE CompletedEnter
  BY <1>28 DEF CompletedEnter
<1>29. CASE AggregateEnter
  BY <1>29 DEF AggregateEnter
<1>30. CASE WriteOutput
  BY <1>30 DEF WriteOutput
<1>31. CASE ReportedEnter
  BY <1>31 DEF ReportedEnter
<1>32. CASE MarkFailed
  BY <1>32 DEF MarkFailed
<1>33. CASE Fail
  BY <1>33 DEF Fail
<1>34. CASE Abort
  BY <1>34 DEF Abort
<1>35. CASE WorkerDies
  BY <1>35 DEF WorkerDies
<1>36. CASE UNCHANGED vars
  BY <1>36 DEF vars
<1> QED
  BY <1>1, <1>2, <1>3, <1>4, <1>5, <1>6, <1>7, <1>8, <1>9, <1>10, <1>11, <1>12, <1>13, <1>14, <1>15, <1>16, <1>17, <1>18, <1>19, <1>20, <1>21, <1>22, <1>23, <1>24, <1>25, <1>26, <1>27, <1>28, <1>29, <1>30, <1>31, <1>32, <1>33, <1>34, <1>35, <1>36 DEF Next, JobStep, Fault

(* The row has the status the running stage gave it.                 *)
LEMMA StatusStep == IInv /\ [Next]_vars => StatusAtPoint'
<1> SUFFICES ASSUME IInv, [Next]_vars PROVE StatusAtPoint'
  OBVIOUS
<1> USE EntryPoints, GuardedPoints DEF IInv, TypeOK, row, products, config, history,
        Goto, EndJob, EnterStatus, ProductsAtPoint, StatusAtPoint, ParsingPoints, EvidencePoints, GraphPoints, SocietyPoints,
        EnginePoints, ReportPoints
<1>1. CASE Enqueue
  BY <1>1 DEF Enqueue, EntryStatus, GuardedStage
<1>2. CASE PickUp
  BY <1>2 DEF PickUp, EntryStatus, GuardedStage
<1>3. CASE RejectTransition
  BY <1>3 DEF RejectTransition, EntryStatus, GuardedStage
<1>4. CASE ParsingCheck
  BY <1>4 DEF ParsingCheck, EntryStatus, GuardedStage
<1>5. CASE ParsingEnter
  BY <1>5 DEF ParsingEnter, EntryStatus, GuardedStage
<1>6. CASE ParseBrief
  BY <1>6 DEF ParseBrief, EntryStatus, GuardedStage
<1>7. CASE CachePio
  BY <1>7 DEF CachePio, EntryStatus, GuardedStage
<1>8. CASE EvidenceCheck
  BY <1>8 DEF EvidenceCheck, EntryStatus, GuardedStage
<1>9. CASE EvidenceEnter
  BY <1>9 DEF EvidenceEnter, EntryStatus, GuardedStage
<1>10. CASE BuildEvidence
  BY <1>10 DEF BuildEvidence, EntryStatus, GuardedStage
<1>11. CASE PersistEvidence
  BY <1>11 DEF PersistEvidence, EntryStatus, GuardedStage
<1>12. CASE GraphEnter
  BY <1>12 DEF GraphEnter, EntryStatus, GuardedStage
<1>13. CASE GraphCheck
  BY <1>13 DEF GraphCheck, EntryStatus, GuardedStage
<1>14. CASE DedupEdges
  BY <1>14 DEF DedupEdges, EntryStatus, GuardedStage
<1>15. CASE EmbedItems
  BY <1>15 DEF EmbedItems, EntryStatus, GuardedStage
<1>16. CASE DeriveEdges
  BY <1>16 DEF DeriveEdges, EntryStatus, GuardedStage
<1>17. CASE MarkGraphBuilt
  BY <1>17 DEF MarkGraphBuilt, EntryStatus, GuardedStage
<1>18. CASE DuplicateEdge
  BY <1>18 DEF DuplicateEdge, EntryStatus, GuardedStage
<1>19. CASE SocietyCheck
  BY <1>19 DEF SocietyCheck, EntryStatus, GuardedStage
<1>20. CASE SocietyEnter
  BY <1>20 DEF SocietyEnter, EntryStatus, GuardedStage
<1>21. CASE BuildSociety
  BY <1>21 DEF BuildSociety, EntryStatus, GuardedStage
<1>22. CASE PersistSociety
  BY <1>22 DEF PersistSociety, StagesInOrder
<1>23. CASE SimulatingEnter
  BY <1>23, GraphStatusIsNotSimulatable DEF SimulatingEnter, EntryStatus, GuardedStage, MayBecome
<1>24. CASE DetectResume
  BY <1>24 DEF DetectResume, EntryStatus, GuardedStage
<1>25. CASE StartRound
  BY <1>25 DEF StartRound, EntryStatus, GuardedStage
<1>26. CASE WriteRound
  BY <1>26 DEF WriteRound, EntryStatus, GuardedStage
<1>27. CASE FinishEngine
  BY <1>27 DEF FinishEngine, EntryStatus, GuardedStage
<1>28. CASE CompletedEnter
  BY <1>28 DEF CompletedEnter, EntryStatus, GuardedStage
<1>29. CASE AggregateEnter
  BY <1>29 DEF AggregateEnter, EntryStatus, GuardedStage
<1>30. CASE WriteOutput
  BY <1>30 DEF WriteOutput, EntryStatus, GuardedStage
<1>31. CASE ReportedEnter
  BY <1>31 DEF ReportedEnter, EntryStatus, GuardedStage
<1>32. CASE MarkFailed
  BY <1>32 DEF MarkFailed, EntryStatus, GuardedStage
<1>33. CASE Fail
  BY <1>33 DEF Fail, EntryStatus, GuardedStage
<1>34. CASE Abort
  BY <1>34 DEF Abort, EntryStatus, GuardedStage
<1>35. CASE WorkerDies
  BY <1>35 DEF WorkerDies, EntryStatus, GuardedStage
<1>36. CASE UNCHANGED vars
  BY <1>36 DEF vars
<1> QED
  BY <1>1, <1>2, <1>3, <1>4, <1>5, <1>6, <1>7, <1>8, <1>9, <1>10, <1>11, <1>12, <1>13, <1>14, <1>15, <1>16, <1>17, <1>18, <1>19, <1>20, <1>21, <1>22, <1>23, <1>24, <1>25, <1>26, <1>27, <1>28, <1>29, <1>30, <1>31, <1>32, <1>33, <1>34, <1>35, <1>36 DEF Next, JobStep, Fault

(* The safety properties themselves.                                  *)
LEMMA WorkStep == IInv /\ [Next]_vars => (NoDuplicateWork /\ StagesInOrder /\ StatusIsHonest)'
<1> SUFFICES ASSUME IInv, [Next]_vars PROVE (NoDuplicateWork /\ StagesInOrder /\ StatusIsHonest)'
  OBVIOUS
<1> USE EntryPoints, GuardedPoints DEF IInv, TypeOK, row, products, config, history,
        Goto, EndJob, EnterStatus, ProductsAtPoint, StatusAtPoint,
        NoDuplicateWork, StagesInOrder, StatusIsHonest, ParsingPoints, EvidencePoints, GraphPoints, SocietyPoints,
        EnginePoints, ReportPoints
<1>1. CASE Enqueue
  BY <1>1 DEF Enqueue
<1>2. CASE PickUp
  BY <1>2 DEF PickUp
<1>3. CASE RejectTransition
  BY <1>3 DEF RejectTransition
<1>4. CASE ParsingCheck
  BY <1>4 DEF ParsingCheck
<1>5. CASE ParsingEnter
  BY <1>5 DEF ParsingEnter, EntryStatus
<1>6. CASE ParseBrief
  BY <1>6 DEF ParseBrief
<1>7. CASE CachePio
  BY <1>7 DEF CachePio
<1>8. CASE EvidenceCheck
  BY <1>8 DEF EvidenceCheck
<1>9. CASE EvidenceEnter
  BY <1>9 DEF EvidenceEnter, EntryStatus
<1>10. CASE BuildEvidence
  BY <1>10 DEF BuildEvidence
<1>11. CASE PersistEvidence
  BY <1>11 DEF PersistEvidence
<1>12. CASE GraphEnter
  BY <1>12 DEF GraphEnter, EntryStatus
<1>13. CASE GraphCheck
  BY <1>13 DEF GraphCheck
<1>14. CASE DedupEdges
  BY <1>14 DEF DedupEdges
<1>15. CASE EmbedItems
  BY <1>15 DEF EmbedItems
<1>16. CASE DeriveEdges
  BY <1>16 DEF DeriveEdges
<1>17. CASE MarkGraphBuilt
  BY <1>17 DEF MarkGraphBuilt
<1>18. CASE DuplicateEdge
  BY <1>18 DEF DuplicateEdge
<1>19. CASE SocietyCheck
  BY <1>19 DEF SocietyCheck
<1>20. CASE SocietyEnter
  BY <1>20 DEF SocietyEnter, EntryStatus
<1>21. CASE BuildSociety
  BY <1>21 DEF BuildSociety
<1>22. CASE PersistSociety
  BY <1>22 DEF PersistSociety
<1>23. CASE SimulatingEnter
  BY <1>23 DEF SimulatingEnter, EntryStatus
<1>24. CASE DetectResume
  BY <1>24 DEF DetectResume, ResumePoint
<1>25. CASE StartRound
  BY <1>25 DEF StartRound
<1>26. CASE WriteRound
  BY <1>26 DEF WriteRound
<1>27. CASE FinishEngine
  BY <1>27 DEF FinishEngine
<1>28. CASE CompletedEnter
  BY <1>28 DEF CompletedEnter, EntryStatus
<1>29. CASE AggregateEnter
  BY <1>29 DEF AggregateEnter, EntryStatus
<1>30. CASE WriteOutput
  BY <1>30 DEF WriteOutput
<1>31. CASE ReportedEnter
  BY <1>31 DEF ReportedEnter, EntryStatus
<1>32. CASE MarkFailed
  BY <1>32 DEF MarkFailed
<1>33. CASE Fail
  BY <1>33 DEF Fail
<1>34. CASE Abort
  BY <1>34 DEF Abort
<1>35. CASE WorkerDies
  BY <1>35 DEF WorkerDies
<1>36. CASE UNCHANGED vars
  BY <1>36 DEF vars
<1> QED
  BY <1>1, <1>2, <1>3, <1>4, <1>5, <1>6, <1>7, <1>8, <1>9, <1>10, <1>11, <1>12, <1>13, <1>14, <1>15, <1>16, <1>17, <1>18, <1>19, <1>20, <1>21, <1>22, <1>23, <1>24, <1>25, <1>26, <1>27, <1>28, <1>29, <1>30, <1>31, <1>32, <1>33, <1>34, <1>35, <1>36 DEF Next, JobStep, Fault

LEMMA InitIInv == Init => IInv
<1> SUFFICES ASSUME Init PROVE IInv
  OBVIOUS
<1>1. TypeOK
  <2>1. failing \in Failures
    BY DEF Init, Failures, Stages
  <2>2. nextRound \in 1 .. NumRounds + 1 /\ rounds \in Seq(1 .. NumRounds)
    BY DEF Init
  <2> QED
    BY <2>1, <2>2 DEF Init, TypeOK, Points, Statuses, Stages
<1>2. ProductsAtPoint
  BY DEF Init, ProductsAtPoint, ParsingPoints, EvidencePoints, GraphPoints,
         SocietyPoints, EnginePoints, ReportPoints
<1>3. StatusAtPoint
  BY GuardedPoints DEF Init, StatusAtPoint, EnginePoints, ReportPoints
<1>4. NoDuplicateWork /\ StagesInOrder /\ StatusIsHonest
  BY DEF Init, NoDuplicateWork, StagesInOrder, StatusIsHonest
<1> QED
  BY <1>1, <1>2, <1>3, <1>4 DEF IInv

LEMMA StepIInv == IInv /\ [Next]_vars => IInv'
BY TypeStep, ProductsStep, StatusStep, WorkStep DEF IInv

(* The invariant that carries the other results: at every point of the job *)
(* the products and the status the stage functions rely on are there.      *)
THEOREM Invariance == Spec => []IInv
BY InitIInv, StepIInv, PTL DEF Spec

(* Retrying a simulation, however often and after whatever failure, never  *)
(* persists a stage's rows twice and never skips or repeats a round.       *)
THEOREM NoDuplicateWorkTheorem == Spec => []NoDuplicateWork
<1>1. IInv => NoDuplicateWork
  BY DEF IInv
<1> QED
  BY <1>1, Invariance, PTL

(* The rows of a stage imply those of every stage it read from.            *)
THEOREM StagesInOrderTheorem == Spec => []StagesInOrder
<1>1. IInv => StagesInOrder
  BY DEF IInv
<1> QED
  BY <1>1, Invariance, PTL

(* A finished status is only ever shown for a finished simulation.         *)
THEOREM StatusIsHonestTheorem == Spec => []StatusIsHonest
<1>1. IInv => StatusIsHonest
  BY DEF IInv
<1> QED
  BY <1>1, Invariance, PTL

(* No job but the one that persisted the society ever adds a round,        *)
(* completes the row or writes its report: the engine never resumes.       *)
THEOREM OnlySocietyAttemptTheorem == Spec => OnlySocietyAttemptSimulates
<1> DEFINE Simulates == rounds' # rounds \/ completed' # completed \/ outputs' # outputs
<1>1. IInv /\ [Next]_vars => [Simulates => attempt = societyAttempt]_vars
  <2> SUFFICES ASSUME IInv, Next, Simulates PROVE attempt = societyAttempt
    OBVIOUS
  <2>1. WriteRound \/ FinishEngine \/ WriteOutput
    BY DEF Next, JobStep, Fault, Enqueue, PickUp, RejectTransition, ParsingCheck,
       ParsingEnter, ParseBrief, CachePio, EvidenceCheck, EvidenceEnter,
       BuildEvidence, PersistEvidence, GraphEnter, GraphCheck, DedupEdges,
       EmbedItems, DeriveEdges, MarkGraphBuilt, DuplicateEdge, SocietyCheck,
       SocietyEnter, BuildSociety, PersistSociety, SimulatingEnter, DetectResume,
       StartRound, CompletedEnter, AggregateEnter, ReportedEnter, MarkFailed,
       Fail, Abort, WorkerDies, EnterStatus, products
  <2>2. pc \in EnginePoints \cup ReportPoints
    BY <2>1 DEF WriteRound, FinishEngine, WriteOutput, EnginePoints, ReportPoints
  <2> QED
    BY <2>2 DEF IInv, StatusAtPoint
<1> QED
  BY <1>1, Invariance, PTL DEF Spec, OnlySocietyAttemptSimulates

(* The failure of a stage is attributed to that stage.                     *)
THEOREM FailureAttributedTheorem == Spec => FailureAttributed
<1> DEFINE Fails == status' = "failed" /\ status # "failed"
<1>1. IInv /\ [Next]_vars => [Fails => failedStage' = status]_vars
  <2> SUFFICES ASSUME IInv, Next, Fails PROVE failedStage' = status
    OBVIOUS
  <2>1. MarkFailed
    BY EntryPoints DEF Next, JobStep, Fault, Enqueue, PickUp, RejectTransition, ParsingCheck,
       ParsingEnter, ParseBrief, CachePio, EvidenceCheck, EvidenceEnter,
       BuildEvidence, PersistEvidence, GraphEnter, GraphCheck, DedupEdges,
       EmbedItems, DeriveEdges, MarkGraphBuilt, DuplicateEdge, SocietyCheck,
       SocietyEnter, BuildSociety, PersistSociety, SimulatingEnter, DetectResume,
       StartRound, WriteRound, FinishEngine, WriteOutput, CompletedEnter,
       AggregateEnter, ReportedEnter,
       Fail, Abort, WorkerDies, EnterStatus, EntryStatus, row
  <2> QED
    BY <2>1 DEF MarkFailed, row, IInv, StatusAtPoint
<1> QED
  BY <1>1, Invariance, PTL DEF Spec, FailureAttributed

-----------------------------------------------------------------------------
(* The row a client polls: SimulationRow.                                  *)

(* A status update of the job is one of the row, and what the status says  *)
(* has been made is there.                                                 *)
LEMMA EnterIsShown ==
  ASSUME IInv, EnterStatus, pc \in DOMAIN EntryStatus
  PROVE  [\E next \in AllowedTransitions[status] : Shown!Enter(next)]_Shown!vars
<1> USE DEF IInv, TypeOK
<1>1. status' = EntryStatus[pc] /\ UNCHANGED <<failedStage, products>>
  BY DEF EnterStatus
<1>2. EntryStatus[pc] # "failed"
  BY EntryPoints DEF EntryStatus
<1>3. Shown!Ready(EntryStatus[pc])
  BY EntryPoints DEF EntryStatus, Shown!Ready, ProductsAtPoint, NoDuplicateWork, ParsingPoints,
     EvidencePoints, GraphPoints, SocietyPoints, EnginePoints, ReportPoints
<1>4. CASE EntryStatus[pc] = status
  BY <1>1, <1>4 DEF products, Shown!vars, Shown!products
<1>5. CASE EntryStatus[pc] # status
  BY <1>1, <1>2, <1>3, <1>5 DEF EnterStatus, MayBecome, products, Shown!Enter, Shown!products
<1> QED BY <1>4, <1>5

(* The steps that update the status on their way into a stage.             *)
LEMMA EnterSteps ==
  ASSUME IInv,
         ParsingEnter \/ EvidenceEnter \/ GraphEnter \/ SocietyEnter \/ SimulatingEnter
           \/ CompletedEnter \/ AggregateEnter \/ ReportedEnter
  PROVE  [Shown!Next]_Shown!vars
<1>1. EnterStatus /\ pc \in DOMAIN EntryStatus
  BY EntryPoints DEF ParsingEnter, EvidenceEnter, GraphEnter, SocietyEnter, SimulatingEnter,
     CompletedEnter, AggregateEnter, ReportedEnter
<1> QED BY <1>1, EnterIsShown DEF Shown!Next

(* A commit makes a product that was missing, with all it is made from     *)
(* there, and under the status of its stage.                               *)
LEMMA CommitSteps ==
  ASSUME IInv,
         CachePio \/ PersistEvidence \/ MarkGraphBuilt \/ PersistSociety \/ WriteRound
           \/ FinishEngine \/ WriteOutput
  PROVE  [Shown!Make]_Shown!vars
<1> USE GuardedPoints DEF IInv, TypeOK, row, ProductsAtPoint, StatusAtPoint, NoDuplicateWork,
        ParsingPoints, EvidencePoints, GraphPoints, SocietyPoints, EnginePoints, ReportPoints,
        Shown!vars, Shown!products, Shown!Make
<1>1. CASE CachePio
  BY <1>1 DEF CachePio, Shown!Parse
<1>2. CASE PersistEvidence
  BY <1>2 DEF PersistEvidence, Shown!GatherEvidence
<1>3. CASE MarkGraphBuilt
  <2>1. status = "evidence_graph_building" /\ evidence = 1
    BY <1>3 DEF MarkGraphBuilt, GuardedStage
  <2> QED BY <1>3, <2>1 DEF MarkGraphBuilt, Shown!BuildGraph
<1>4. CASE PersistSociety
  BY <1>4 DEF PersistSociety, Shown!BuildSociety
<1>5. CASE WriteRound
  <2>1. status = "simulating" /\ society = 1
    BY <1>5 DEF WriteRound, GuardedStage
  <2> QED BY <1>5, <2>1 DEF WriteRound, Shown!Simulate
<1>6. CASE FinishEngine
  <2>1. status = "simulating" /\ Len(rounds) = NumRounds
    BY <1>6 DEF FinishEngine, GuardedStage
  <2> QED BY <1>6, <2>1 DEF FinishEngine, Shown!Complete
<1>7. CASE WriteOutput
  <2>1. status = "aggregating" /\ completed
    BY <1>7 DEF WriteOutput, GuardedStage
  <2> QED BY <1>7, <2>1 DEF WriteOutput, Shown!Report
<1> QED BY <1>1, <1>2, <1>3, <1>4, <1>5, <1>6, <1>7

(* _mark_failed writes the stage whose status was shown.                   *)
LEMMA MarkFailedIsShown ==
  ASSUME IInv, MarkFailed
  PROVE  [Shown!Fail]_Shown!vars
<1>1. status = failing.stage /\ status # "failed" /\ UNCHANGED products
  BY DEF MarkFailed, IInv, TypeOK, StatusAtPoint, Failures, Stages
<1>2. CASE MayBecome("failed")
  BY <1>1, <1>2 DEF MarkFailed, MayBecome, products, Shown!Fail, Shown!products
<1>3. CASE ~MayBecome("failed")
  BY <1>1, <1>3 DEF MarkFailed, row, products, Shown!vars, Shown!products
<1> QED BY <1>2, <1>3

(* Everything else is hidden: checks, work, the queue, faults.             *)
LEMMA HiddenSteps ==
  ASSUME Enqueue \/ PickUp \/ RejectTransition \/ ParsingCheck \/ ParseBrief
           \/ EvidenceCheck \/ BuildEvidence \/ GraphCheck \/ DedupEdges \/ EmbedItems
           \/ DeriveEdges \/ DuplicateEdge \/ SocietyCheck \/ BuildSociety \/ DetectResume
           \/ StartRound \/ Fault \/ UNCHANGED vars
  PROVE  UNCHANGED Shown!vars
  BY DEF Enqueue, PickUp, RejectTransition, ParsingCheck, ParseBrief, EvidenceCheck,
     BuildEvidence, GraphCheck, DedupEdges, EmbedItems, DeriveEdges, DuplicateEdge, SocietyCheck,
     BuildSociety, DetectResume, StartRound, Fault, Fail, Abort, WorkerDies, vars, row, products,
     Shown!vars, Shown!products

(* However often a simulation is retried, interrupted and retried, a       *)
(* client sees the row of one that was made once: each product a single    *)
(* time, in order and under its stage's status, each failure where it was. *)
THEOREM ImplementsRowTheorem == Spec => ImplementsRow
<1>1. Init => Shown!Init
  BY DEF Init, Shown!Init
<1>2. IInv /\ [Next]_vars => [Shown!Next]_Shown!vars
  BY EnterSteps, CommitSteps, MarkFailedIsShown, HiddenSteps DEF Next, JobStep, Shown!Next
<1> QED
  BY <1>1, <1>2, Invariance, PTL DEF Spec, ImplementsRow, Shown!Spec

=============================================================================
