SPECIFICATION FairSpec
CONSTANTS
    Worker = {w1, w2}
    MaxPush = 2
    MaxMore = 1
INVARIANTS NoSleeperAfterQuit
PROPERTIES ReadyIsTaken Shutdown StuckIsNoticed
CHECK_DEADLOCK FALSE
