SPECIFICATION FairSpec
CONSTANTS
    None = None
    Tasks = {t1}
    Workers = {w1}
    Partitions = {p1}
    Clients = {c1}
    Slots = {s1, s2}
    Capacity = 2
    MaxRetries = 1
    Operations = {"submit"}
    Faults = {}
PROPERTIES ReportedRunningEnds
CHECK_DEADLOCK FALSE
