---------------------- MODULE SidechainNodeViewHolder ----------------------
(***************************************************************************)
(* The node of the UTXO model: NodeViewHolder with the four state and the  *)
(* five wallet storages, and SidechainNodeViewHolder.checkAndRecoverStorages *)
(* at every start.                                                         *)
(***************************************************************************)
EXTENDS NodeViewHolder

ASSUME StoragesAssumption ==
    /\ StateOrder = <<"appState", "utxoMerkleTree", "state", "forgerBox">>
    /\ WalletOrder = <<"appWallet", "walletBox", "walletTransaction",
                       "forgingBoxesInfo", "csw">>
    /\ VersionStorage = "state"
    /\ ForgingStorage = "forgingBoxesInfo"

\* SidechainState.ensureStorageConsistencyAfterRestore: forgerBox is written
\* last and rolled back first, so the state is brought to its version.
ensureStateConsistency ==
    LET versionFb == Top("forgerBox")
        appStateOk == Top("appState") = versionFb
        allOk == \A s \in StateStorages : Top(s) = versionFb
    IN  /\ phase = "down"
        /\ phase' = IF ~appStateOk THEN "stateRollback"
                    ELSE IF allOk THEN "compare" ELSE "halted"
        /\ left' = IF appStateOk THEN << >> ELSE StateOrder
        /\ branch' = versionFb[1]
        /\ booting' = ~appStateOk
        /\ UNCHANGED <<history, versions, toRemove, toApply, done, crashes, refused>>

\* SidechainWallet.ensureStorageConsistencyAfterRestore: all storages at one
\* version, but forgingBoxesInfo may be one version ahead.
WalletAligned ==
    \A s \in {"walletTransaction", "csw", "appWallet"} : Top(s) = Top("walletBox")

ForgingAligned == Top("forgingBoxesInfo") = Top("walletBox")

\* Mutant: no tolerance for epoch information on top of the last block.
ForgingNeverAhead == FALSE

ForgingOneAhead ==
    LET v == versions["forgingBoxesInfo"]
    IN  v[IF Len(v) < 2 THEN Len(v) ELSE 2] = Top("walletBox")

ForgingToRollBack ==
    ~ForgingAligned /\ ForgingOneAhead /\ Len(versions["forgingBoxesInfo"]) # 2

walletConsistent == WalletAligned /\ (ForgingAligned \/ ForgingOneAhead)

\* state and history agree: the wallet has to agree as well.
checkWallet ==
    /\ phase = "compare"
    /\ stateVersion = IdVersion(best)
    /\ phase' = IF walletConsistent /\ Top("walletBox") = IdVersion(best)
                THEN "idle" ELSE "halted"
    /\ versions' =
          IF walletConsistent /\ ForgingToRollBack
          THEN [versions EXCEPT !["forgingBoxesInfo"] =
                   RolledBack("forgingBoxesInfo", Top("walletBox"))]
          ELSE versions
    /\ booting' = FALSE
    /\ UNCHANGED <<history, left, progress, crashes, refused>>

\* Mutant: the wallet is brought to the state and the state stays.
rollbackToStateVersion ==
    /\ phase = "compare"
    /\ stateVersion # IdVersion(best)
    /\ phase' = RollbackStart
    /\ left' = RollbackLeft
    /\ branch' = stateVersion[1]
    /\ booting' = FALSE
    /\ UNCHANGED <<history, versions, toRemove, toApply, done, crashes, refused>>

\* They do not: wallet and state go back to the last block of the state's
\* chain that is in the active chain.
rollbackToActiveChain ==
    /\ phase = "compare"
    /\ stateVersion # IdVersion(best)
    /\ phase' = RollbackStart
    /\ left' = RollbackLeft
    /\ branch' = LastCommon(stateVersion[1], best)
    /\ booting' = FALSE
    /\ UNCHANGED <<history, versions, toRemove, toApply, done, crashes, refused>>

Recover == ensureStateConsistency \/ checkWallet \/ rollbackToActiveChain

Next == Receive \/ Process \/ Crash \/ Recover

Spec == Init /\ [][Next]_vars /\ WF_vars(Process) /\ WF_vars(Recover)

\* The comment in checkAndRecoverStorages on the case where the wallet storages
\* agree with each other but not with the state: "wallet and state are not
\* consistent, while state and history are, this should never happen".
WalletIsAtStateVersion ==
    phase = "compare" /\ stateVersion = IdVersion(best) /\ walletConsistent =>
        Top("walletBox") = IdVersion(best)

\* The comment in SidechainWallet.ensureStorageConsistencyAfterRestore on the
\* forging box info storage: "it can be ahead by one version only".
ForgingStorageAheadByOne ==
    phase = "compare" /\ stateVersion = IdVersion(best) /\ WalletAligned =>
        ForgingAligned \/ ForgingOneAhead
=============================================================================
