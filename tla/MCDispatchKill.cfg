SPECIFICATION Spec
CONSTANTS
    a = a
    b = b
    c = c
    w1 = w1
    w2 = w2
    x = x
    None = None
    Service = {a, b}
    Boot = {a, b}
    NoCb = {}
    Monitor = None
    Worker = {w1, w2}
    External = {x}
    Divisor <- MixedWeights
    MaxSend = 2
INVARIANTS SingleOwner NoIdleBacklog RefCount MemorySafe PerSenderOrder
PROPERTY MailboxSpec
SYMMETRY Sym
CHECK_DEADLOCK FALSE
