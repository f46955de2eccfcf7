SPECIFICATION Spec
CONSTANTS
    alice = alice
    bob = bob
    Account = {alice, bob}
    Tx <- MCTx
    Balances <- MCBalances
    MaxNonceGap = 3
    MaxSlotsPerAccount = 3
    MaxMemPoolSlots = 4
    MaxNonExecSlots = 2
    MaxNumOfSlotsForTx = 2
    MaxBlocks = 3
    MaxBranch = 2
    MaxBlockTxs = 1
    MaxTimedOut = 1
INVARIANTS
    ExecutableNoncesAreContiguous
    CacheMatchesMaps
    PoolWithinLimits
PROPERTIES
    ValidTransactionsSurvive
    UpdateAnnouncesNewExecutables
CHECK_DEADLOCK FALSE
