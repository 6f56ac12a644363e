CONSTANTS
    p = p
    q = q
    c1 = c1
    c2 = c2
    a = a
    b = b
    Packages = {p, q}
    Cves = {c1, c2}
    NoCve = NoCve
    Findings <- SomeFindings
    Published <- Api
    BatchSize = 1
    MaxScans = 2
    NoScore = NoScore
    Runs = {a, b}
    Critical = 8
    PageSize = 1
    MaxRuns = 2
    MaxIssues = 2
    NoBody = NoBody
SYMMETRY RunSymmetry
SPECIFICATION Spec
CHECK_DEADLOCK FALSE
INVARIANTS
    TypeOK
    OneOpenIssue
    ReportIsCurrent
