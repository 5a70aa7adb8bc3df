SPECIFICATION DualSpec
CONSTANTS
    Pods = {p1, p2}
    None = None
    Family = "IPv4"
    MaxEdits = 0
    MaxFaults = 0
    MaxLost = 0
SYMMETRY PodSymmetry
INVARIANTS
    PodTypeOK
    SettledPod
    NoOrphanRouter
    RefResolves
    FilesOwn
    FacePublished
CHECK_DEADLOCK FALSE
