SPECIFICATION Spec
CONSTANTS
    f1 = f1
    f2 = f2
    d1 = d1
    d2 = d2
    Forger = {f1, f2}
    Delegator = {d1, d2}
    OldStakes <- MCOldStakes
    Funds = 0
    MinStake = 1
    MaxEpoch = 2
INVARIANTS
    ForgerStakeIsSumOfDelegators
    ContractCoversStakes
    QueriesAgreeWithCheckpoints
PROPERTIES
    PastStakesAreFrozen
CHECK_DEADLOCK FALSE
