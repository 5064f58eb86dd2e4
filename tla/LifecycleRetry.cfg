SPECIFICATION FairSpec
CONSTANTS
    None = None
    Tasks = {t1}
    Workers = {w1, w2}
    Partitions = {p1}
    Clients = {c1, c2}
    Slots = {s1}
    Capacity = 1
    MaxRetries = 1
    Operations = {"submit", "retry"}
    Faults = {"shutdown"}
INVARIANTS PendingIsDispatched RetryBound
PROPERTIES EveryTaskFinishes
CHECK_DEADLOCK FALSE
