---------------------------- MODULE MCBlockTree ----------------------------
(***************************************************************************)
(* Block trees for the runs.  A tree is given by its parents and by the    *)
(* score each block adds to its chain (1, and 1 for each ommer).           *)
(***************************************************************************)
EXTENDS Integers, FiniteSets

RECURSIVE Ancestors(_, _, _)
Ancestors(parent, genesis, b) ==
    IF b = genesis THEN {b} ELSE Ancestors(parent, genesis, parent[b]) \cup {b}

AncOf(parent, genesis) == [b \in DOMAIN parent |-> Ancestors(parent, genesis, b)]

HeightOf(parent, genesis) ==
    [b \in DOMAIN parent |-> Cardinality(Ancestors(parent, genesis, b))]

RECURSIVE ChainScore(_, _, _, _)
ChainScore(parent, own, genesis, b) ==
    IF b = genesis THEN own[b]
    ELSE own[b] + ChainScore(parent, own, genesis, parent[b])

ScoreOf(parent, own, genesis) ==
    [b \in DOMAIN parent |-> ChainScore(parent, own, genesis, b)]

\* Two branches from g of three blocks each, a and b; b2 brings an ommer, so
\* that the b branch wins with fewer blocks; c is a second child of a1.
ForkParent ==
    [g |-> "g", a1 |-> "g", a2 |-> "a1", a3 |-> "a2",
     b1 |-> "g", b2 |-> "b1", b3 |-> "b2", c2 |-> "a1"]
ForkOwnScore ==
    [g |-> 1, a1 |-> 1, a2 |-> 1, a3 |-> 1, b1 |-> 1, b2 |-> 2, b3 |-> 1, c2 |-> 3]
ForkEpoch ==
    [g |-> 1, a1 |-> 2, a2 |-> 3, a3 |-> 3, b1 |-> 2, b2 |-> 3, b3 |-> 3, c2 |-> 3]
ForkBlock == DOMAIN ForkParent
AfterGenesis == ForkBlock \ {"g"}
ForkAnc == AncOf(ForkParent, "g")
ForkHeight == HeightOf(ForkParent, "g")
ForkScore == ScoreOf(ForkParent, ForkOwnScore, "g")

\* The storages of the two ledger models, in the order they are updated.
UtxoState == <<"appState", "utxoMerkleTree", "state", "forgerBox">>
UtxoWallet == <<"appWallet", "walletBox", "walletTransaction", "forgingBoxesInfo", "csw">>
AccountState == <<"stateMetadata">>
AccountWallet == << >>
=============================================================================
