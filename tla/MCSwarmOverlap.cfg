SPECIFICATION Spec
CONSTANTS
    Users = {1, 3}
    Rates = {1, 2}
    HasStats = TRUE
    MaxSwarm = 2
    MaxStop = 1
    MaxFail = 1
INVARIANT OnlyCurrentRuns
CHECK_DEADLOCK FALSE
