-------------------------- MODULE MCSidechainNode --------------------------
EXTENDS SidechainNodeViewHolder, MCBlockTree
=============================================================================
