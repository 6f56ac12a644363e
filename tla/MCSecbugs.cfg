CONSTANTS
    b1 = b1
    b2 = b2
    r1 = r1
    n1 = n1
    s1 = s1
    s2 = s2
    c1 = c1
    c2 = c2
    Bugs = {b1, b2}
    Repositories = {r1}
    NameOf <- SameName
    Names = {n1}
    Data <- SomeData
    Syncs = {s1, s2}
    Creators = {c1, c2}
    MaxRows = 2
    MaxChanges = 2
    MaxFailures = 1
    NoName = NoName
    NoId = NoId
    NoData = NoData
    NoBug = NoBug
    NoRepository = NoRepository
SPECIFICATION FairSpec
CHECK_DEADLOCK FALSE
INVARIANTS
    TypeOK
    
    OneRowPerRepository
PROPERTIES
    CatchesUp
