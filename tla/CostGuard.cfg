\* Three callers contend for a cap that two calls fit and three do not.
CONSTANTS
    Callers = {c1, c2, c3}
    None = None
    Cap = 5
    Estimates = {2}
    Actuals = {1, 3}
    Overrun = 1
    MaxActual = 3
    MaxRepairs = 1
    MaxRequests = 1
    MaxFaults = 2
SPECIFICATION FairSpec
INVARIANTS
    CapHolds
    SpendAccounted
PROPERTIES
    ImplementsLedger
    RequestsEnd
\* Every caller may have finished its requests.
CHECK_DEADLOCK FALSE
