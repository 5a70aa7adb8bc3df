SPECIFICATION Spec
CONSTANTS
    Pods = {p1}
    MaxEdits = 0
    MaxFaults = 0
    MaxLost = 1
INVARIANTS
    RouterGoes
CHECK_DEADLOCK FALSE
