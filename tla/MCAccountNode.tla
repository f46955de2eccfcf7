--------------------------- MODULE MCAccountNode ---------------------------
EXTENDS AccountNodeViewHolder, MCBlockTree
=============================================================================
