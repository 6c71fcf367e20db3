\* A note injected between the SELECT and the UPDATE of the loop.
CONSTANTS
    Jobs = {j1}
    Operators = {o1}
    Calls = {}
    Notes = {n1, n2}
    NoCall = NoCall
    MaxSteps = 2
    Strategies = {"tool-loop"}
    Backends = {"inline"}
    Origins = {"bg"}
    Commands = {"inject"}
    MaxCommands = 2
SPECIFICATION Spec
INVARIANT ConsumedIsDelivered
CHECK_DEADLOCK FALSE
