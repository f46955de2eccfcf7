SPECIFICATION Spec
CONSTANTS
    L = 3
    MaxWBs = 1
    k1 = k1
    k2 = k2
    Key <- MCKey
    GenesisKey = k1
    MaxEpoch = 2
    MaxRefs = 3
    MaxFees = 3
INVARIANTS
    CeasedIffUncertified
    EpochWithinLimit
    RecordsForCertificates
    FeesArePaidOnce
    RotationsTakeEffect
CHECK_DEADLOCK FALSE
