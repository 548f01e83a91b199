CONSTANTS
    NumRounds = 2
    MaxEnqueues = 2
    MaxFaults = 1
SPECIFICATION Spec
INVARIANT FailedRunResumes
CHECK_DEADLOCK FALSE
