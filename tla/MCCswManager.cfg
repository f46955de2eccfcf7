SPECIFICATION FairSpec
CONSTANTS
    Box = {b1, b2}
    Receiver = {r1, r2}
    Owned <- MCOwned
    MaxCeasings = 2
    MaxRequests = 3
    MaxMail = 2
INVARIANTS
    GeneratedProofsMatch
PROPERTIES
    PromisedProofsEnd
CHECK_DEADLOCK FALSE
