SPECIFICATION Spec
CONSTANTS
    a = a
    b = b
    Service = {a, b}
    Co = {1, 2}
    Uses <- ClientServer
    MaxSession <- Bounds
    None = None
INVARIANTS NoOrphanCall TrueOutcome NothingLeft Resumable Handover
CHECK_DEADLOCK FALSE
