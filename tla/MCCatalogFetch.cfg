CONSTANTS
    p1 = p1
    p2 = p2
    s1 = s1
    s2 = s2
    f1 = f1
    k1 = k1
    Packages = {p1}
    MaxVersion = 2
    Published <- OneLibrary
    InUse <- OldInUse
    Counts <- TwoCounts
    Scanners = {s1}
    Fetchers = {f1}
    Markers = {}
    MaxScans = 1
SPECIFICATION Spec
CHECK_DEADLOCK FALSE
INVARIANTS
    StoresAllVersions
