CONSTANTS
    Block <- ForkBlock
    Genesis = "g"
    Parent <- ForkParent
    Anc <- ForkAnc
    Height <- ForkHeight
    Score <- ForkScore
    Epoch <- ForkEpoch
    Dubious = {"a2", "a3", "b1", "b2", "b3", "c2"}
    StateOrder <- UtxoState
    WalletOrder <- UtxoWallet
    VersionStorage = "state"
    ForgingStorage = "forgingBoxesInfo"
    MaxRewrite = 2
    Keep = 9
    CrashFrom <- AfterGenesis
    CrashInSwitch = FALSE
    CrashIfRefused = FALSE
    MaxCrashes = 2
SPECIFICATION Spec
INVARIANTS
    InStep
    BestChainIsActive
    RemovedBlocksLeaveActiveChain
    NeverHalted
PROPERTIES
    Settles
CHECK_DEADLOCK FALSE
