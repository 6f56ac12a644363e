CONSTANTS
    d1 = d1
    d2 = d2
    m1 = m1
    m2 = m2
    m3 = m3
    m4 = m4
    m5 = m5
    m6 = m6
    Daemons = {d1, d2}
    Messages = {m1}
    Kind <- AllBridge
    Java = {m1}
    ImageScanEnabled = FALSE
    BatchMax = 2
    MaxReceives = 2
    MaxCrashes = 1
    Failing = {"eat", "clone", "bridge", "cdxgen", "upload", "post", "delete", "semgrep", "commit", "cleanup", "image"}
SYMMETRY DaemonSymmetry
SPECIFICATION Spec
CHECK_DEADLOCK FALSE
INVARIANTS
    TypeOK
    OneProcessPerReceipt
    DeletedWasHandedOver
    CleanWaspIsComplete
    LeftoversOnlyAfterDeath
PROPERTIES
    ClosedRowsAreFinal
