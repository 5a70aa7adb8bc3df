SPECIFICATION Spec
CONSTANTS
    Secrets = {s1, s2}
    MaxTime = 2
    MaxEdits = 1
    MaxRewrites = 1
    MaxFaults = 1
INVARIANTS
    TypeOK
    SettledImport
PROPERTIES
    LateSecretImported
CHECK_DEADLOCK FALSE
