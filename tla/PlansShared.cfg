\* Two actors that move the cursor and the steps under each other.
CONSTANTS
    Actors = {a1, a2}
    Commands = {"insert", "insertHere", "drop", "select", "advance", "block", "replan"}
    DraftSizes = {2}
    MaxNo = 3
    MaxRows = 4
SPECIFICATION Spec
SYMMETRY Symmetry
INVARIANT TypeOK
PROPERTY DropKeepsCursor
CHECK_DEADLOCK FALSE
