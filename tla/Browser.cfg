SPECIFICATION BrowserSpec
CONSTANTS
    c1 = c1
    c2 = c2
    c3 = c3
    i1 = i1
    t1 = t1
    t2 = t2
    Callers <- ThreeCallers
    Stoppers <- IdleStop
    IdleTimers <- IdleStop
    MaxLaunches = 2
    Tasks <- TwoTasks
    Waiting <- OneTask
INVARIANT ChromiumHasKeeper
INVARIANT SuspensionHasOwner
INVARIANT RowTellsTheEnd
INVARIANT QuietMeansFree
PROPERTY CrashIsNoticed
CHECK_DEADLOCK FALSE
