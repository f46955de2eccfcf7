SPECIFICATION Spec
CONSTANTS
    Tx <- MCTx
    Inputs <- MCInputs
    Outputs <- MCOutputs
    Slot <- MCSlot
    Mainchain <- MCMainchain
    OpenStake <- MCOpenStake
    Stakes <- MCStakes
    Forgers = 1
    Withdrawals <- MCWithdrawals
    Fee <- MCFee
    Size <- MCSize
    GenesisBoxes <- MCGenesisBoxes
    minFeeRate = 1
    maxPoolSizeBytes = 4
    MaxBlocks = 2
    MaxTxs = 2
    MaxApplied = 3
INVARIANTS
    PoolFitsInOneBlock
PROPERTIES
    LostTransactionsWereOutbid
CHECK_DEADLOCK FALSE
