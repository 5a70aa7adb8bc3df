SPECIFICATION Spec
CONSTANTS
    Entries = {inner, outer}
    Uris = {u1, u2}
    None = None
    MaxChanges = 2
    MaxSidecar = 1
    MaxNdnd = 0
INVARIANTS
    StaleNever
CHECK_DEADLOCK FALSE
