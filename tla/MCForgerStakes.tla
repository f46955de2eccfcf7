--------------------------- MODULE MCForgerStakes ---------------------------
(***************************************************************************)
(* Two forgers, two delegators; one forger comes from the first contract   *)
(* with a stake of each delegator.  The search of getForgerStakesPerEpoch  *)
(* is checked apart, over every ordered history of up to nine checkpoints, *)
(* long enough for the jump to the most recent ones, and every range of up *)
(* to four epochs.                                                         *)
(***************************************************************************)
EXTENDS ForgerStakesV2

CONSTANTS f1, f2, d1, d2

MCOldStakes == [f \in Forger |-> [d \in Delegator |-> IF f = f1 THEN 1 ELSE 0]]

LastEpoch == 8

\* The history with a checkpoint at each of the epochs of S.
HistoryOf(S) ==
    [i \in 1 .. Cardinality(S) |->
       Checkpoint(CHOOSE e \in S : Cardinality({x \in S : x <= e}) = i, i)]

\* For every ordered history and every range of epochs the binary search and the
\* walk backwards (getForgerStakesPerEpoch) give the amount of the last
\* checkpoint that is not after the epoch, zero before the first.
ASSUME SearchFindsCheckpoints ==
    \A S \in SUBSET (0 .. LastEpoch), first \in 0 .. LastEpoch :
        LET history == HistoryOf(S)
        IN  \A last \in first .. first + 3 :
                LET stakes == StakesPerEpoch(history, first, last)
                IN  \A e \in first .. last : stakes[e] = StakeAt(history, e)

=============================================================================
