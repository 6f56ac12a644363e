CONSTANTS
    d1 = d1
    d2 = d2
    m1 = m1
    m2 = m2
    m3 = m3
    m4 = m4
    m5 = m5
    m6 = m6
    Daemons = {d1}
    Messages = {m1, m2}
    Kind <- Untagged
    Java = {}
    ImageScanEnabled = FALSE
    BatchMax = 1
    MaxReceives = 1
    MaxCrashes = 0
    Failing = {}
SPECIFICATION Spec
CHECK_DEADLOCK FALSE
PROPERTIES
    TagIsOptional
