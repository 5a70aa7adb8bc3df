SPECIFICATION Spec
CONSTANTS
    MaxGen = 2
    MaxFaults = 2
INVARIANTS
    TypeOK
    RightsFirst
    ReadyBacked
    SettledApplied
PROPERTIES
    DeletionCompletes
CHECK_DEADLOCK FALSE
