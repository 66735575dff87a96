SPECIFICATION RecordSpec
CONSTANTS
    BigResults = {1}
    Presets <- OnlyQuick
    MaxFollowUps = 1
    RolesRaise = FALSE
INVARIANT FailsOnlyWithoutResults
CHECK_DEADLOCK FALSE
