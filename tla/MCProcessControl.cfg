CONSTANTS
    reason = reason
    open_id = open_id
    state = state
    Pid = {1, 2, 3, 4}
    NoPid = 0
    Start = {"start", "start_foreground"}
    Foreground = {"start_foreground"}
    Stop = {"stop"}
    Restart = {"restart"}
    Columns <- MCColumns
    Legacy <- MCLegacy
    MaxCrash = 1
    MaxOverlap = 0
    MaxAgain = 0
SPECIFICATION FairSpec
CHECK_DEADLOCK FALSE
INVARIANTS
    ServesOnWholeSchema
    EveryServiceIsNamed
PROPERTIES
    StartedServe
