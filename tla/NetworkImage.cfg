SPECIFICATION Spec
CONSTANTS
    MaxGen = 1
    MaxFaults = 1
INVARIANTS
    OwnImage
CHECK_DEADLOCK FALSE
