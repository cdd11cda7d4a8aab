CONSTANTS
    reason = reason
    open_id = open_id
    state = state
    Pid = {1, 2, 3, 4}
    NoPid = 0
    Start = {"start", "start_again"}
    Foreground = {}
    Stop = {"stop"}
    Restart = {}
    Columns <- MCColumns
    Legacy <- MCLegacy
    MaxCrash = 1
    MaxOverlap = 0
    MaxAgain = 1
SPECIFICATION Spec
CHECK_DEADLOCK FALSE
INVARIANTS
    StopStopsAll
