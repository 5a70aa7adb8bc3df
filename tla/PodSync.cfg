SPECIFICATION Spec
CONSTANTS
    Pods = {p1, p2}
    MaxEdits = 1
    MaxFaults = 1
    MaxLost = 1
INVARIANTS
    TypeOK
    SettledPod
    NoOrphanRouter
    RefResolves
CHECK_DEADLOCK FALSE
