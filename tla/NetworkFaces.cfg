SPECIFICATION Spec
CONSTANTS
    MaxGen = 2
    MaxFaults = 0
INVARIANTS
    SettledFaces
CHECK_DEADLOCK FALSE
