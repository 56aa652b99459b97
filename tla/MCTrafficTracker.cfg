SPECIFICATION Spec
CONSTANTS
    n1 = n1
    n2 = n2
    NICs = {n1, n2}
    None = None
    Retention = 1
    SaveEvery = 1
    MaxLag = 1
    MaxTime = 3
    MaxBytes = 1
INVARIANTS
    TypeOK
    NeverOvercounts
    LosesLittle
    RestampBounded
    AllowedOnly
PROPERTIES
    HistoryKept
