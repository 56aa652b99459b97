SPECIFICATION Spec
CONSTANTS
    e1 = e1
    e2 = e2
    Events = {e1, e2}
    Rejected = {}
    TTL = 2
    RoundTime = 1
    SeenLimit = 1
SYMMETRY Symmetry
INVARIANTS
    AckKept
    AtMostOnce
