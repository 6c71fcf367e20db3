\* One session at a time, behind the cursor.
CONSTANTS
    Actors = {a1}
    Commands = {"run", "insertHere", "drop", "replanHere"}
    DraftSizes = {1, 3}
    MaxNo = 4
    MaxRows = 5
SPECIFICATION Spec
INVARIANTS EarlierStepsDone DoneWasExecuted
PROPERTIES DoneWhenAllDone KeepsItsPlace
CHECK_DEADLOCK FALSE
