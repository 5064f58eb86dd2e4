SPECIFICATION BatchFairSpec
CONSTANTS
    None = None
    Tasks = {1, 2, 3}
    Workers = {w1}
    MaxRetries = 1
    Faults = {}
    BatchSize = 2
    Workloads = {{"cancel", "sendFail"}, {"retry", "sendFail", "markFail"}, {"retry", "updateFail"}, {"retry", "dbError"}, {"retry", "redisError"}, {"sendFail", "dbError"}, {"masterCrash"}}
    EarlyRetry = FALSE
    LoseAgain = FALSE
INVARIANTS BatchPendingIsOnItsWay 
PROPERTIES BatchFinishes
CHECK_DEADLOCK FALSE
