\* Up to eight personas of four profiles, groups of three: exact fits, short
\* fits and an overflow of one and of two.
CONSTANTS
    GroupSize = 3
    MaxTotal = 8
    Profiles <- TwoByTwo
SPECIFICATION GroupSpec
INVARIANTS
    NoGroupShort
\* The placement ends.
CHECK_DEADLOCK FALSE
