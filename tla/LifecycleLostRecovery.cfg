SPECIFICATION Spec
CONSTANTS
    None = None
    Tasks = {t1}
    Workers = {w1, w2}
    Partitions = {p1}
    Clients = {c1}
    Slots = {s1, s2}
    Capacity = 2
    MaxRetries = 1
    Operations = {"submit"}
    Faults = {"crash"}
PROPERTIES RecoveredIsDispatched
CHECK_DEADLOCK FALSE
