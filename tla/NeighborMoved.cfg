SPECIFICATION Spec
CONSTANTS
    r1 = r1
    r2 = r2
    w1 = w1
    w2 = w2
    Neighbors = {n1}
    Routers = {r1, r2}
    Networks = {w1, w2}
    NetworkOf <- TwoNetworks
    MaxUri = 2
    MaxFaults = 0
INVARIANTS
    SettledNetwork
CHECK_DEADLOCK FALSE
