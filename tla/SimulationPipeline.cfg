\* Every retry history of one row: three jobs, three faults, two rounds.
CONSTANTS
    NumRounds = 2
    MaxEnqueues = 3
    MaxFaults = 3
SPECIFICATION FairSpec
INVARIANTS
    NoDuplicateWork
    StagesInOrder
PROPERTIES
    ImplementsRow
    FailureAttributed
    OnlySocietyAttemptSimulates
    RetryCompletes
\* After the last enqueue and the last fault the row rests.
CHECK_DEADLOCK FALSE
