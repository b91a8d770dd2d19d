SPECIFICATION FairSpec
CONSTANTS
    c1 = c1
    c2 = c2
    c3 = c3
    c4 = c4
    c5 = c5
    l1 = l1
    l2 = l2
    ab = ab
    None = None
    Context = {c1, c2, c3}
    Launcher = {l1}
    Aborter = {ab}
    Name = {1, 2}
    SlotSize = 1
    HandleMask = 3
    MaxRegister = 4
INVARIANTS Reachable NamesAreMap NoSlotTaken AbortComplete
PROPERTY AbortReturns
CHECK_DEADLOCK FALSE
