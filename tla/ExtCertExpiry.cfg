SPECIFICATION Spec
CONSTANTS
    Secrets = {s1}
    MaxTime = 3
    MaxEdits = 0
    MaxRewrites = 0
    MaxFaults = 0
PROPERTIES
    ExpiryNoticed
CHECK_DEADLOCK FALSE
