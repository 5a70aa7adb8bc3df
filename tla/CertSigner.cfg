SPECIFICATION Spec
CONSTANTS
    root = root
    leaf = leaf
    rival = rival
    ext = ext
    other = other
    ns1 = ns1
    ns2 = ns2
    Certs = {root}
    Externals = {}
    Issuers <- AnyIssuer
    Namespace <- OneNamespace
    Name <- DistinctNames
    Interval = 3
    RenewBefore = 1
    MaxTime = 6
    Unsupported = other
    MaxDeletes = 0
    MaxFaults = 0
INVARIANTS
    OwnSigner
CHECK_DEADLOCK FALSE
