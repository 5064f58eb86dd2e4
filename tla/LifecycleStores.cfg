SPECIFICATION Spec
CONSTANTS
    None = None
    Tasks = {t1}
    Workers = {w1}
    Partitions = {p1}
    Clients = {c1}
    Slots = {s1, s2}
    Capacity = 1
    MaxRetries = 1
    Operations = {"submit", "retry", "cancel"}
    Faults = {"timeout", "dbError", "redisError", "expiry"}
SYMMETRY SlotSymmetry
INVARIANTS TypeOK MessageHasRow
CHECK_DEADLOCK FALSE
