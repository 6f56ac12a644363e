CONSTANTS
    s1 = s1
    s2 = s2
    app = app
    os = os
    p1 = p1
    v1 = v1
    l1 = l1
    l2 = l2
    l3 = l3
    Scanners = {s1, s2}
    Images = {app, os}
    Orgsre = {os}
    IndexNamed = {app}
    Packages = {p1}
    Vulnerabilities = {v1}
    Layers = {l1, l2, l3}
    Offers <- OneBase
    Matches <- OneVulnerable
    IntegrityTries = 2
    OperationalTries = 2
    MaxRows = 3
    MaxScans = 3
    NoContent = NoContent
    NoFile = NoFile
    NoImage = NoImage
    NoRow = NoRow
SYMMETRY ScannerSymmetry
SPECIFICATION Spec
CHECK_DEADLOCK FALSE
INVARIANTS
    TypeOK
    RowsAreOwn
    EndMeansInventoried
    OneRowPerPlatform
    BaseIsAncestor
    TriesAreBounded
