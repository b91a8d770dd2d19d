CONSTANTS
    Counter = {c1}
    Stat = {s1, s2}
    Agent = {a1, a2}
    MaxCall = 1
    MaxService = 3
    MaxReset = 2
    None = None
SPECIFICATION Spec
INVARIANTS RowsAreTrue UniqueReporter NothingLost
CHECK_DEADLOCK FALSE
