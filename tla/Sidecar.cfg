SPECIFICATION Spec
CONSTANTS
    Entries = {inner, outer}
    Uris = {u1, u2}
    None = None
    MaxChanges = 3
    MaxSidecar = 2
    MaxNdnd = 2
INVARIANTS
    TypeOK
    LinksComplete
    NoStaleLink
PROPERTIES
    LinksConverge
CHECK_DEADLOCK FALSE
