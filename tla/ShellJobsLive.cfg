\* Liveness under fair threads, with one operator.
CONSTANTS
    Jobs = {j1}
    Operators = {o1}
    Calls = {c1}
    Notes = {}
    NoCall = NoCall
    MaxSteps = 2
    Strategies = {"tool-loop", "direct"}
    Backends = {"process", "inline"}
    Origins = {"bg"}
    Commands = {"cancel", "pause", "resume", "approve", "deny"}
    MaxCommands = 3
SPECIFICATION FairSpec
PROPERTIES CancelReachesWorker ResumedJobEnds
CHECK_DEADLOCK FALSE
