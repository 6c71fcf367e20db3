\* A pause or resume after a cancellation.
CONSTANTS
    Jobs = {j1}
    Operators = {o1}
    Calls = {}
    Notes = {}
    NoCall = NoCall
    MaxSteps = 2
    Strategies = {"tool-loop"}
    Backends = {"inline"}
    Origins = {"bg"}
    Commands = {"cancel", "pause", "resume"}
    MaxCommands = 2
SPECIFICATION Spec
PROPERTY CancelStands
CHECK_DEADLOCK FALSE
