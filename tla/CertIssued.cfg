SPECIFICATION Spec
CONSTANTS
    root = root
    leaf = leaf
    rival = rival
    ext = ext
    other = other
    ns1 = ns1
    ns2 = ns2
    Certs = {root, leaf}
    Externals = {ext}
    Issuers <- ChainIssuers
    Namespace <- OneNamespace
    Name <- DistinctNames
    Interval = 2
    RenewBefore = 1
    MaxTime = 2
    Unsupported = other
    MaxDeletes = 1
    MaxFaults = 0
PROPERTIES
    EveryCertIssued
    ImplementsTrust
CHECK_DEADLOCK FALSE
