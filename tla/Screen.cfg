SPECIFICATION ScreenSpec
CONSTANTS
    r1 = r1
    r2 = r2
    r3 = r3
    s1 = s1
    s2 = s2
    s3 = s3
    p1 = p1
    a1 = a1
    a2 = a2
    a3 = a3
    j1 = j1
    j2 = j2
    e1 = e1
    e2 = e2
    x1 = x1
    x2 = x2
    x3 = x3
    x4 = x4
    Nothing = Nothing
    Slots = 2
    Lists = {"runs", "sessions", "plans", "approvals", "jobs", "activity"}
    Ids <- MCIds
    Limit <- MCLimit
    Scenarios <- MCScenarios
    RunOf <- MCRunOf
    Files <- MCFiles
    Steps = {x1, x2, x3, x4}
    StepsAtFirst <- MCStepsAtFirst
INVARIANT ScreenTypeOK
PROPERTY WritesWhatIsDrawn SaveGoesWhereItWasOpened BusyEnds
CHECK_DEADLOCK FALSE
