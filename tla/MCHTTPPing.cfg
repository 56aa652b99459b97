SPECIFICATION Spec
CONSTANTS
    Fields <- MCFields
    Default <- MCDefault
    Malformed <- MCMalformed
    Refused <- MCRefused
    Path = "e"
    NoFile = NoFile
    Broken = Broken
    Users = {u1}
    Wanted <- MCWanted
    DefaultTimeout = 30
    Families <- MCFamilies
    Resolutions <- MCResolutions
    Customs <- MCCustoms
    Fallbacks <- MCFallbacks
    DialTimeout = 2
    Handshake = 2
    None = None
    NICs = {n1, n2}
    Virtual = {}
    MaxBytes = 2
    NoTotal = NoTotal
    Word = 8
    Invocations <- MCInvocations
    Samples <- MCSamples
    SwapSamples <- MCSwaps
    Tables <- MCTables
    Kinds = {"http"}
    Lookups = {0, 2}
    Rtts = {1, 2, 10, 11, 29}
    Timeout = 30
    High = 10
    Drop = 8
    Retries = 3
    Unset = Unset
    Failed = Failed
    FirstYear = 2023
    LastYear = 2024
    Retention = 31
INVARIANT
    ExcludesLookup
CHECK_DEADLOCK FALSE
