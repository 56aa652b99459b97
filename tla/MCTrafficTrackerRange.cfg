SPECIFICATION Spec
CONSTANTS
    n1 = n1
    NICs = {n1}
    None = None
    Retention = 2
    SaveEvery = 1
    MaxLag = 0
    MaxTime = 2
    MaxBytes = 1
INVARIANTS
    TotalsInRange
