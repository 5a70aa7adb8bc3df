SPECIFICATION GrownSpec
CONSTANTS
    Routers = {r1, r2, r3}
    Old = {r1, r2}
    MaxFace = 1
    MaxFaults = 1
SYMMETRY GrownSymmetry
INVARIANTS
    NoGhostNeighbor
    SettledMesh
CHECK_DEADLOCK FALSE
