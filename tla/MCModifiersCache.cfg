SPECIFICATION Spec
CONSTANTS
    None = None
    Block <- CacheBlock
    Genesis = "g"
    Parent <- CacheParent
    Anc <- CacheAnc
    Height <- CacheHeight
    Score <- CacheScore
    FarAhead <- CacheFarAhead
    Unappendable <- CacheUnappendable
    MaxSize = 2
    MaxApplied = 2
    MaxMessages = 3
INVARIANTS
    EveryBlockIsReported
PROPERTIES
    ApplicableBlocksLeave
CHECK_DEADLOCK FALSE
