\* The same step in two threads.
CONSTANTS
    Actors = {a1, a2}
    Commands = {"run"}
    DraftSizes = {1, 2, 3}
    MaxNo = 4
    MaxRows = 6
SPECIFICATION Spec
INVARIANT NothingSkipped
CHECK_DEADLOCK FALSE
