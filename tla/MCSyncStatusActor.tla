------------------------ MODULE MCSyncStatusActor ------------------------
EXTENDS SyncStatusActor, MCBlockTree

\* Two branches from g: five blocks a and four blocks b.
LongParent ==
    [g |-> "g", a1 |-> "g", a2 |-> "a1", a3 |-> "a2", a4 |-> "a3", a5 |-> "a4",
     b1 |-> "g", b2 |-> "b1", b3 |-> "b2", b4 |-> "b3", c3 |-> "a2"]
LongBlock == DOMAIN LongParent
LongAnc == AncOf(LongParent, "g")
LongHeight == HeightOf(LongParent, "g")
LongScore == LongHeight
=============================================================================
