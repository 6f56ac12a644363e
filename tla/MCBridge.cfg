CONSTANTS
    k1 = k1
    k2 = k2
    r1 = r1
    r2 = r2
    d1 = d1
    d2 = d2
    i1 = i1
    i2 = i2
    c1 = c1
    c2 = c2
    t1 = t1
    Keys = {k1, k2}
    Name <- OneName
    Commits = {c1, c2}
    Tags = {c1, t1}
    Repositories = {r1, r2}
    Messages <- TwoBuilds
    Daemons = {d1, d2}
    RowIds = {i1, i2}
    NoTag = NoTag
    NoCommit = NoCommit
    NoRepository = NoRepository
    NoWasp = NoWasp
    NoMessage = NoMessage
    NoRow = NoRow
    NoKey = NoKey
SYMMETRY BridgeSymmetry
SPECIFICATION Spec
CHECK_DEADLOCK FALSE
INVARIANTS
    TypeOK
    BridgedInOrder
    WaspIsOfRepository
    BridgedMeansConnected
PROPERTIES
    RepositoryIsKept
