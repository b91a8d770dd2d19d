SPECIFICATION FairSpec
CONSTANTS
    Users = {1, 3}
    Rates = {2}
    HasStats = TRUE
    MaxSwarm = 3
    MaxStop = 1
    MaxFail = 2
INVARIANTS OrderlyRuns CountIsTrue RunningIsComplete
PROPERTY HatchingEnds
CHECK_DEADLOCK FALSE
