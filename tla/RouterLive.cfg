SPECIFICATION LiveSpec
CONSTANTS
    Routers = {r1, r2}
    Old = {}
    MaxFace = 1
    MaxFaults = 1
PROPERTIES
    MeshConverges
    DeletionCompletes
CHECK_DEADLOCK FALSE
