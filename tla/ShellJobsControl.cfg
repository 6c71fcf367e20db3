\* One job, two operators that cancel, pause and resume it.
CONSTANTS
    Jobs = {j1}
    Operators = {o1, o2}
    Calls = {}
    Notes = {n1}
    NoCall = NoCall
    MaxSteps = 2
    Strategies = {"tool-loop", "direct"}
    Backends = {"process", "inline"}
    Origins = {"bg", "delegate"}
    Commands = {"cancel", "pause", "resume", "inject"}
    MaxCommands = 2
SPECIFICATION Spec
SYMMETRY Symmetry
INVARIANTS StatusTellsOutcome StopsWithinAStep NoNoteTwice
CHECK_DEADLOCK FALSE
