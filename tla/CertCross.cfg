SPECIFICATION Spec
CONSTANTS
    root = root
    leaf = leaf
    rival = rival
    ext = ext
    other = other
    ns1 = ns1
    ns2 = ns2
    Certs = {root, rival, leaf}
    Externals = {}
    Issuers <- AnyIssuer
    Namespace <- TwoNamespaces
    Name <- SharedName
    Interval = 3
    RenewBefore = 1
    MaxTime = 2
    Unsupported = other
    MaxDeletes = 0
    MaxFaults = 0
INVARIANTS
    SignedByIssuer
CHECK_DEADLOCK FALSE
