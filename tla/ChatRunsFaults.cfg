SPECIFICATION FairSpec
CONSTANTS
    r1 = r1
    r2 = r2
    c1 = c1
    c2 = c2
    Runs <- OneRun
    Cancels <- OneCancel
    Faults <- FaultKinds
    MaxText = 2
    BusCap = 2
    MaxStops = 2
INVARIANT RepliesOK
INVARIANT CompletedHasWholeReply
PROPERTY SettledForGood
PROPERTY RunLeavesRunning
CHECK_DEADLOCK FALSE
