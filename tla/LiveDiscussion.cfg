\* Two personas, one public round, a cap that some calls exhaust: every
\* pattern of answers, refusals, errors, retries, repairs and crashes.
CONSTANTS
    MinPersonas = 2
    MaxPersonas = 2
    PublicRounds = 1
    MaxAttempts = 2
    Stances = {interested, neutral}
    Neutral = neutral
    None = None
    Estimate = 2
    RepairEstimate = 1
    Costs = {2}
    BaseCap = 12
    AmazonBuffer = 4
    TechBuffer = 5
    HardCeiling = 5
    Budgets = {9}
SPECIFICATION FairSpec
INVARIANTS
    EveryoneVotes
    NoInventedVote
    SessionWhole
PROPERTIES
    StageEnds
\* The stage ends.
CHECK_DEADLOCK FALSE
