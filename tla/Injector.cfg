SPECIFICATION Spec
CONSTANTS
    n1 = n1
    n2 = n2
    c1 = c1
    c2 = c2
    Containers <- MCContainers
    Networks = {n1, n2}
    Creds = {c1, c2}
    Malformed = Malformed
    None = None
    Requests <- MCRequests
    MaxSubmits = 2
    MaxChanges = 1
INVARIANTS
    TypeOK
    AsRequested
CHECK_DEADLOCK FALSE
