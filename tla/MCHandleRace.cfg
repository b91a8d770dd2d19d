SPECIFICATION Spec
CONSTANTS
    c1 = c1
    c2 = c2
    c3 = c3
    c4 = c4
    c5 = c5
    l1 = l1
    l2 = l2
    ab = ab
    None = None
    Context = {c1, c2, c3, c4, c5}
    Launcher = {l1, l2}
    Aborter = {}
    Name = {}
    SlotSize = 4
    HandleMask = 31
    MaxRegister = 9
INVARIANT NoSlotTaken
SYMMETRY Sym
CHECK_DEADLOCK FALSE
