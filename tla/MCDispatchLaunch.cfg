SPECIFICATION FairSpec
CONSTANTS
    a = a
    b = b
    c = c
    w1 = w1
    w2 = w2
    x = x
    None = None
    Service = {a, c}
    Boot = {a}
    NoCb = {}
    Monitor = a
    Worker = {w1, w2}
    External = {}
    Divisor <- MixedWeights
    MaxSend = 1
INVARIANTS InitBeforeDispatch
PROPERTIES EventuallyServed EventuallyReclaimed
CHECK_DEADLOCK FALSE
