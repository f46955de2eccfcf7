CONSTANTS
    Block <- ForkBlock
    Genesis = "g"
    Parent <- ForkParent
    Anc <- ForkAnc
    Height <- ForkHeight
    Score <- ForkScore
    Epoch <- ForkEpoch
    Dubious = {"a2", "b2", "c2"}
    StateOrder <- AccountState
    WalletOrder <- AccountWallet
    VersionStorage = "stateMetadata"
    ForgingStorage = "none"
    MaxRewrite = 2
    Keep = 4
    CrashFrom <- ForkBlock
    CrashInSwitch = TRUE
    CrashIfRefused = TRUE
    MaxCrashes = 2
SPECIFICATION Spec
INVARIANTS
    ActiveChainValid
    StateIsOnActiveChain
PROPERTIES
    BestMovesAlongActiveChain
CHECK_DEADLOCK FALSE
