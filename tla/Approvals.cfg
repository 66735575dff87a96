SPECIFICATION FairSpec
CONSTANTS
    r1 = r1
    r2 = r2
    a1 = a1
    a2 = a2
    a3 = a3
    Runs <- TwoRuns
    MaxMode <- FirstMax
    Asks <- ThreeAsks
    Owner <- Owners
    Answers <- OnlyYes
    Stoppable <- FirstMax
    Ending <- FirstMax
    UiLosses = 1
INVARIANT VerdictsOK
INVARIANT AcceptedDecisionHolds
PROPERTY EveryAskEnds
CHECK_DEADLOCK FALSE
