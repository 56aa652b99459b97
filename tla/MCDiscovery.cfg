SPECIFICATION LiveSpec
CONSTANTS
    p1 = p1
    t1 = t1
    t2 = t2
    t3 = t3
    Procs = {p1}
    Tokens = {t1, t2, t3}
    Empty = Empty
    Broken = Broken
    None = None
    Homes = {TRUE, FALSE}
    MaxFaults = 1
INVARIANTS
    UsedIsStored
    Accounted
    FileWhole
PROPERTIES
    IdentityKept
    SettlesDown
