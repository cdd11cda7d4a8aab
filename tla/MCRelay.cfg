CONSTANTS
    d = d
    t1 = t1
    t2 = t2
    http = http
    game = game
    Side = {http, game}
    Target = {d, t1, t2}
    Loops = {d}
    Initial = {d, t1}
    MaxCalls = 2
    MaxFaults = 2
SPECIFICATION FairSpec
CHECK_DEADLOCK FALSE
INVARIANTS
    TypeOK
    RunningIsWhole
    NoListenerLeaks
    SavedWasRunning
    OnlyRecoveryUndoesStop
PROPERTIES
    StatusSettles
