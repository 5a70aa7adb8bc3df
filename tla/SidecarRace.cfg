SPECIFICATION Spec
CONSTANTS
    Entries = {inner, outer}
    Uris = {u1, u2}
    None = None
    MaxChanges = 1
    MaxSidecar = 0
    MaxNdnd = 0
INVARIANTS
    LinksAlways
CHECK_DEADLOCK FALSE
