SPECIFICATION FairRecordSpec
CONSTANTS
    BigResults = {1}
    Presets <- QuickAndStandard
    MaxFollowUps = 2
    RolesRaise = TRUE
INVARIANT AnswerDisclosesGaps
INVARIANT RecordOK
PROPERTY StopIsHonoured
PROPERTY RunEnds
CHECK_DEADLOCK FALSE
