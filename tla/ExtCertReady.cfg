SPECIFICATION Spec
CONSTANTS
    Secrets = {s1}
    MaxTime = 2
    MaxEdits = 0
    MaxRewrites = 0
    MaxFaults = 0
INVARIANTS
    ReadyHasKey
CHECK_DEADLOCK FALSE
