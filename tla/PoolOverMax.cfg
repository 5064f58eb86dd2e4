SPECIFICATION Spec
CONSTANTS
    Conns = {k1, k2, k3}
    Borrowers = {b1, b2}
    Cleaner = cleaner
    Nobody = Nobody
    MinConnections = 1
    MaxConnections = 1
    MaxDrops = 1
    ConnectFails = FALSE
INVARIANTS AtMostMaxConnections
CHECK_DEADLOCK FALSE
