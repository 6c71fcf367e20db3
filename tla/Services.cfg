SPECIFICATION Spec
CONSTANTS
    Writers = {w1, w2}
    Logs = {l1, l2}
    MaxEvents = 3
    Nobody = Nobody
    Sources = {s1, s2}
    Models = {m0, m1}
    DefaultModel = m0
    Workers = {thread}
    Commands = {command}
    Batch = 2
    MaxLocks = 1
    Names = {a, b}
    ChunkTexts = {{alpha}, {gamma}}
    Ingesters = {i1, i2}
    MaxRows = 2
    MaxFile = 1
    NoName = NoName
    NumServers = 2
    MaxNotes = 2
    MaxOutput = 2
    PipeSize = 1
INVARIANT ServicesTypeOK EventsKeepTheirPlaces IndexedHasVector EveryChunkIsFound
INVARIANT ToolsAreTheAnswer NoProcessIsLeft
PROPERTY EveryJobSettles CancelEndsProcess
CHECK_DEADLOCK FALSE
