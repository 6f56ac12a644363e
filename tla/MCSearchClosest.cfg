CONSTANTS
    MaxVersion = 3
    Counts <- TwoCounts
    MayFail = FALSE
    OnlyMonotone = FALSE
SPECIFICATION FairSpec
CHECK_DEADLOCK FALSE
INVARIANTS
    FindsClosest
