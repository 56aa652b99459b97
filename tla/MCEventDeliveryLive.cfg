SPECIFICATION FairSpec
CONSTANTS
    e1 = e1
    e2 = e2
    Events = {e1, e2}
    Rejected = {e2}
    TTL = 2
    RoundTime = 1
    SeenLimit = 2
INVARIANTS
    RetiredWereCarriedOut
PROPERTIES
    KeepsPromise
    EventuallyRetired
