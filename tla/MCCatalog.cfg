CONSTANTS
    p1 = p1
    p2 = p2
    s1 = s1
    s2 = s2
    f1 = f1
    k1 = k1
    Packages = {p1}
    MaxVersion = 2
    Published <- OneLibrary
    InUse <- OldInUse
    Counts <- TwoCounts
    Scanners = {s1, s2}
    Fetchers = {f1}
    Markers = {k1}
    MaxScans = 2
SYMMETRY ScannerSymmetry
SPECIFICATION Spec
CHECK_DEADLOCK FALSE
INVARIANTS
    TypeOK
    SuccessIsCounted
    CountsAreGenuine
    AtMostOneLatest
    FirstFetchIsComplete
PROPERTIES
    ResultsAreKept
