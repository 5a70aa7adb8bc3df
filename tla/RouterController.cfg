SPECIFICATION Spec
CONSTANTS
    Routers = {r1, r2}
    Old = {}
    MaxFace = 2
    MaxFaults = 1
INVARIANTS
    TypeOK
    NoGhostNeighbor
    SettledMesh
    SettledConditions
PROPERTIES
    ImplementsMesh
SYMMETRY GrownSymmetry
CHECK_DEADLOCK FALSE
