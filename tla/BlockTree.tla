----------------------------- MODULE BlockTree -----------------------------
(***************************************************************************)
(* The block tree: the sidechain blocks that may ever reach a node, with   *)
(* what SidechainBlockInfo records of each one (parent, height, score of   *)
(* the chain it ends) and the chain operations of AbstractHistory on it.   *)
(***************************************************************************)
EXTENDS Integers, Sequences

CONSTANTS
    Block,      \* block ids
    Genesis,    \* params.sidechainGenesisBlockId
    Parent,     \* block -> parent id
    Anc,        \* block -> the blocks from genesis to it, itself included
    Height,     \* block -> height in its chain
    Score       \* block -> score of the chain that ends in it

\* What makes it a tree: the blocks of a chain have the heights from genesis
\* on, and the lower ones are the ancestors of the higher ones.
ASSUME TreeAssumption ==
    /\ Genesis \in Block
    /\ Parent \in [Block -> Block]
    /\ Anc \in [Block -> SUBSET Block]
    /\ Height \in [Block -> Nat]
    /\ Score \in [Block -> Nat]
    /\ Anc[Genesis] = {Genesis}
    /\ \A b \in Block \ {Genesis} :
          /\ Anc[b] = Anc[Parent[b]] \cup {b}
          /\ Height[b] = Height[Parent[b]] + 1
          /\ Score[b] > Score[Parent[b]]
    /\ \A b \in Block :
          /\ Genesis \in Anc[b]
          /\ \A h \in Height[Genesis] .. Height[b] : \E c \in Anc[b] : Height[c] = h
          /\ \A c \in Anc[b] : Height[Genesis] <= Height[c] /\ Height[c] <= Height[b]
          /\ \A c \in Anc[b], d \in Anc[b] : Height[c] <= Height[d] => c \in Anc[d]

\* The block of b's chain at height h.
AncestorAt(b, h) == CHOOSE c \in Anc[b] : Height[c] = h

\* The blocks after a on the way to its descendant b, in order.
PathFromTo(a, b) ==
    [i \in 1 .. (Height[b] - Height[a]) |-> AncestorAt(b, Height[a] + i)]

\* Where chainBack(b, isInActiveChain) stops: the highest block that b's
\* chain shares with the chain that ends in tip.
LastCommon(b, tip) ==
    CHOOSE c \in Anc[b] \cap Anc[tip] :
        \A d \in Anc[b] \cap Anc[tip] : Height[d] <= Height[c]
=============================================================================
