----------------------- MODULE AccountNodeViewHolder -----------------------
(***************************************************************************)
(* The node of the account model: NodeViewHolder with the state metadata   *)
(* storage as its only versioned storage (the EVM database is reached      *)
(* through the root stored there, the wallet keeps secrets only), and      *)
(* AccountSidechainNodeViewHolder.checkAndRecoverStorages at every start.  *)
(***************************************************************************)
EXTENDS NodeViewHolder

ASSUME StoragesAssumption ==
    /\ StateOrder = <<"stateMetadata">>
    /\ WalletOrder = << >>
    /\ VersionStorage = "stateMetadata"
    /\ ForgingStorage \notin Storages

\* Mutant: the node starts on the storages as they are.
startWithoutCheck ==
    /\ phase = "down"
    /\ phase' = "idle"
    /\ left' = << >>
    /\ branch' = best
    /\ UNCHANGED <<history, versions, toRemove, toApply, done, booting, crashes, refused>>

\* The state goes back to the last block of its chain that is in the active
\* chain, unless it is at the best block.
checkAndRecoverStorages ==
    /\ phase = "down"
    /\ IF stateVersion = IdVersion(best)
       THEN phase' = "idle" /\ left' = << >> /\ branch' = best
       ELSE /\ phase' = RollbackStart
            /\ left' = RollbackLeft
            /\ branch' = LastCommon(stateVersion[1], best)
    /\ UNCHANGED <<history, versions, toRemove, toApply, done, booting, crashes, refused>>

Next == Receive \/ Process \/ Crash \/ checkAndRecoverStorages

Spec == Init /\ [][Next]_vars /\ WF_vars(Process) /\ WF_vars(checkAndRecoverStorages)

\* Whenever the node takes a block, however often it was stopped before, the
\* state is at a block of the active chain and can go back from there.
StateIsOnActiveChain ==
    phase = "idle" => \E b \in ActiveChain : stateVersion = IdVersion(b)

\* The claim at the end of checkAndRecoverStorages, "A consistent view of it
\* will be built using the db-root got from the metadata state db, that is now
\* consistent with history storage": the state is at the best block whenever
\* the node takes a block.
RecoveredStateIsConsistent ==
    phase = "idle" => stateVersion = IdVersion(best)
=============================================================================
