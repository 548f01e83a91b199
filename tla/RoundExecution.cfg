\* Three agents, two at a time: one fails, one is an orphan at work and one
\* an orphan that waits.
CONSTANTS
    Agents = {a1, a2, a3}
    None = None
    Width = 2
SPECIFICATION FairSpec
INVARIANTS
    FinalCountExact
    ProgressNeverAhead
PROPERTIES
    ImplementsAtomicRound
    FailureIsFinal
    RoundEnds
\* A round ends.
CHECK_DEADLOCK FALSE
