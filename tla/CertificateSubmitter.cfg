SPECIFICATION FairSpec
CONSTANTS
    Signer = {0, 1}
    WalletKeys = {0}
    EnclaveKeys = {1}
    Threshold = 1
    MaxEpoch = 1
    MaxReorgs = 1
    MaxCalls = 2
    MaxMail = 2
INVARIANTS
    OneSubmissionAtATime
    StatusFollowsChain
PROPERTIES
    FirstMessageLeadsToCertificate
CHECK_DEADLOCK FALSE
