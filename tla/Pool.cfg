SPECIFICATION FairSpec
CONSTANTS
    Conns = {k1, k2, k3, k4}
    Borrowers = {b1, b2, b3}
    Cleaner = cleaner
    Nobody = Nobody
    MinConnections = 1
    MaxConnections = 2
    MaxDrops = 1
    ConnectFails = TRUE
INVARIANTS LentOnce InUseIsNotClosed CountIsExact AtMostMaxUntilDrop
PROPERTIES PoolMakesProgress
CHECK_DEADLOCK FALSE
