\* The thirteen stages, failing or cut off anywhere.
CONSTANT NumStages = 13
SPECIFICATION FairSpec
INVARIANTS
    ReportServedWhole
    ReportKept
PROPERTIES
    ProgressOnlyGrows
    TaskEnds
\* A run that is over rests.
CHECK_DEADLOCK FALSE
