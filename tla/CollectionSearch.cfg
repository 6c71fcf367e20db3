SPECIFICATION CollectionsSpec
CONSTANTS
    Names = {a, b}
    ChunkTexts = {{alpha}, {gamma}}
    Ingesters = {i1}
    MaxRows = 2
    MaxFile = 1
    NoName = NoName
INVARIANT SearchFindsOnlyWhatMatches
CHECK_DEADLOCK FALSE
