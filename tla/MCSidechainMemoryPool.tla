---------------------- MODULE MCSidechainMemoryPool ----------------------
EXTENDS SidechainMemoryPool

\* 1 and 2 open the same box, 3 spends what 1 makes, 4 and 5 rotate the same
\* key, 6 comes with a mainchain reference, 7 opens the stake, which 2 needs.
MCTx == 1 .. 7
MCInputs == <<{"a"}, {"a"}, {"d"}, {"b"}, {"c"}, {}, {"j"}>>
MCOutputs == <<{"d"}, {"e"}, {"f"}, {"g"}, {"h"}, {"i"}, {"k"}>>
MCSlot == <<0, 0, 0, 1, 1, 0, 2>>
MCMainchain == {6}
MCOpenStake == {7}
MCStakes == {2}
MCWithdrawals == <<1, 0, 2, 0, 1, 0, 0>>
MCFee == <<2, 1, 2, 6, 1, 0, 1>>
MCSize == <<2, 1, 1, 3, 1, 1, 1>>
MCGenesisBoxes == {"a", "b", "c", "j"}
=============================================================================
