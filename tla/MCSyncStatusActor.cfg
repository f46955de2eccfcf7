SPECIFICATION Spec
CONSTANTS
    Block <- LongBlock
    Genesis = "g"
    Parent <- LongParent
    Anc <- LongAnc
    Height <- LongHeight
    Score <- LongScore
    StandardRate = 2
    Timeouts = FALSE
    MaxSwitches = 2
    MaxEvents = 8
INVARIANTS
    CurrentHeightIsRight
PROPERTIES
    SyncingEnds
CHECK_DEADLOCK FALSE
