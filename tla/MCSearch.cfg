CONSTANTS
    MaxVersion = 4
    Counts <- TwoCounts
    MayFail = TRUE
    OnlyMonotone = FALSE
SPECIFICATION FairSpec
CHECK_DEADLOCK FALSE
INVARIANTS
    TypeOK
    SettlesOnBoundary
    MonotoneFindsLeast
    ClosestWhenDone
    ScansAreLogarithmic
PROPERTIES
    OffersOnlyGrow
    JobEnds
