\* One tool loop that asks twice or more, two operators that answer and cancel.
CONSTANTS
    Jobs = {j1}
    Operators = {o1, o2}
    Calls = {c1}
    Notes = {}
    NoCall = NoCall
    MaxSteps = 2
    Strategies = {"tool-loop"}
    Backends = {"inline"}
    Origins = {"bg"}
    Commands = {"cancel", "resume", "approve", "deny", "decide"}
    MaxCommands = 2
SPECIFICATION Spec
SYMMETRY Symmetry
INVARIANTS TypeOK ApprovedBeforeRun NoDuplicateRequest
PROPERTIES DecisionFinal KeepsPromise
CHECK_DEADLOCK FALSE
