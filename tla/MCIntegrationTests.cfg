SPECIFICATION Spec
CONSTANTS
    Scripts <- AllScripts
    MAX_BLOCKS_REQUEST = 50
    MAX_TX_REQUESTS = 9
INVARIANTS
    CertificatesPayRequests
    CoinsAreConserved
    ReferencesFollowMainchain
    AssertionsHold
PROPERTY
    SyncedNodesAgree
