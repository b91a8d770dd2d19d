SPECIFICATION Spec
CONSTANTS
    Worker = {w1, w2}
    NSlot = 1
    MsgSize = 2
    MaxRef = 1
    MaxId = 2
    MaxSend = 2
    MaxCmd = 1
    MaxPeer = 1
    None = None
SYMMETRY Perms
CHECK_DEADLOCK FALSE
INVARIANTS StreamOK EventOrder NoSilentDeath CountersHold WriteArmed
