SPECIFICATION PartsSpec
CONSTANTS
    N = 3
    Executors = {"streaming", "advanced_stream", "advanced_execute", "resumable", "metrics"}
    MaxStarts = 3
    MaxSnapshots = 3
    Breakable = {2}
    Threads = {"th1", "th2"}
    NodeIds = {"n1", "n2"}
    MaxRounds = 2
    MaxLines = 2
    Processors = {"action", "element", "navigation", "wait", "validation", "screenshot", "smart_wait", "advanced_ui", "ai_assisted", "responsive", "visual", "performance", "observability", "recording", "service", "compute"}
    WithKnown = FALSE
    Conns = {"k1", "k2"}
    Kinds = {"write", "text", "read", "probe", "bad"}
    MaxItems = 2
    MaxNodes = 2
    MaxOthers = 1
    Users = {"u1", "u2"}
    Sites = {"s1"}
    MaxObjects = 3
    MaxLoopRounds = 2
    MaxSubs = 3
    MaxSteps = 2
    StepsPerPost = 1
    LargeSteps = 1
    Posts = 2
    Strangers = 1
    Troubles = {{"lost", "unseen", "raise"}, {"redis", "row"}, {"deadline"}}
INVARIANTS ResumeRunsNoCompletedNode CheckpointIsConsistent FinishedRunsLivePaths
INVARIANTS NoResultAhead HistoryIsReachable
INVARIANTS StepLogsAreOwn  VariableMeansSuccess
INVARIANTS SelectSeesLatest SuccessMeansCommitted StopMeansNothing PooledHoldsNoWrites PagesAreOpen
INVARIANTS ReadersSeeTheirRound ToldIsRecorded AcknowledgedIsDelivered ConsoleHasNoGap
PROPERTIES ProcessEnds
CHECK_DEADLOCK FALSE
