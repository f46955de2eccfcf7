-------------------------- MODULE MCWithdrawalEpochs --------------------------
(***************************************************************************)
(* Small withdrawal epochs for model checking.                             *)
(***************************************************************************)
EXTENDS WithdrawalEpochs

CONSTANTS k1, k2

MCKey == {k1, k2}

=============================================================================
