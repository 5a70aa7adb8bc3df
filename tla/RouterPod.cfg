SPECIFICATION DualSpec
CONSTANTS
    Pods = {p1}
    None = None
    Family = "IPv4"
    MaxEdits = 1
    MaxFaults = 1
    MaxLost = 1
ACTION_CONSTRAINT
    OneMishap
INVARIANTS
    PodTypeOK
    SettledPod
    NoOrphanRouter
    RefResolves
    FilesOwn
    FacePublished
PROPERTIES
    ImplementsLife
    DeletionCompletes
    InitCompletes
CHECK_DEADLOCK FALSE
