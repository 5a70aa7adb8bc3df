SPECIFICATION Spec
CONSTANTS
    root = root
    leaf = leaf
    rival = rival
    ext = ext
    other = other
    ns1 = ns1
    ns2 = ns2
    Certs = {root, leaf}
    Externals = {ext}
    Issuers <- OtherIssuers
    Namespace <- OneNamespace
    Name <- DistinctNames
    Interval = 2
    RenewBefore = 1
    MaxTime = 4
    Unsupported = other
    MaxDeletes = 0
    MaxFaults = 1
ACTION_CONSTRAINT
    Dusk
INVARIANTS
    TypeOK
    StatusBacked
    SleepsOnlyWhenIssued
CHECK_DEADLOCK FALSE
