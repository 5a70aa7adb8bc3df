SPECIFICATION Spec
CONSTANTS
    Secrets = {s1}
    MaxTime = 2
    MaxEdits = 0
    MaxRewrites = 1
    MaxFaults = 0
INVARIANTS
    ImportCurrent
CHECK_DEADLOCK FALSE
