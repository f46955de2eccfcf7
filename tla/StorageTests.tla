---------------------------- MODULE StorageTests ----------------------------
(***************************************************************************)
(* The tests of the recovery of storages that lost their last updates:     *)
(* node 2 is stopped, its storages are rolled back as if it had been       *)
(* stopped during an update, and it is started again.                      *)
(***************************************************************************)
EXTENDS TestSteps

RecoveryNetwork(csw) ==
    [Network(1, {}, [n \in {1, 2} |-> [SCNodeConfiguration(IF n = 1 THEN 1 ELSE 0) EXCEPT !.cert_submitter_enabled = FALSE]],
             600 * COIN, 10)
     EXCEPT !.csw_enabled = csw]

startAndSyncScNode2 == start_sc_node(2) \o time_sleep \o connect_sc_nodes(1, 2) \o sc_sync_all({1, 2})

\* The storages whose versions are compared at the end
forgeBlockAndCheckSync(storages) ==
    Flat(<< generate_next_block(1, "tip"), time_sleep, startAndSyncScNode2,
            check(<<same_best(1, 2)>>), stop_sc_node(2), time_sleep,
            check(<<checkStoragesVersion(2, storages, "tip")>>) >>)

\* The storages lose versions, the node recovers.
Recovers(history, lost, storages) ==
    rollbackStorages(2, {"history"}, history) \o rollbackStorages(2, lost, 2) \o forgeBlockAndCheckSync(storages)

\* Node 2 is stopped after the genesis block and node 1 goes on.
recovery_start(storages) == Flat(<<
    stop_sc_node(2), generate_next_blocks(1, <<"", "", "", "", "tip">>), generate(1, 1, ""),
    check(<<checkStoragesVersion(2, storages, "genesis")>>) >>)

\* CHUNK_SIZE, 90 in the tests, and REMAINDER; 7 chunks. The last block is the
\* first of a consensus epoch.
CHUNK_SIZE == 2
REMAINDER == 4

until_next_epoch ==
    Flat([i \in 1 .. 7 |-> generate(1, 1, "") \o generate_next_blocks(1, [k \in 1 .. CHUNK_SIZE |-> ""]) \o sc_sync_all({1, 2})])
    \o generate(1, 1, "") \o generate_next_blocks(1, [k \in 1 .. REMAINDER - 1 |-> "tip"])
    \o slice("tip", 1, 1, "previous") \o generate_next_block_in_next_epoch(1, "tip") \o sc_sync_all({1, 2})

----------------------------------------------------------------------------
(* The UTXO model: storages are updated in the order of these lists, from  *)
(* the last to the first.                                                  *)

Wallets(csw) == {"wallet", "walletTransaction", "walletForgingStake"} \cup IF csw THEN {"walletCswDataStorage"} ELSE {}
AppWallets == {"appWallet1", "appWallet2"}
States(csw) == {"state", "stateForgerBox"} \cup IF csw THEN {"stateUtxoMerkleTree"} ELSE {}

utxo_start(csw) ==
    recovery_start((Wallets(csw) \cup States(csw)) \ {"walletForgingStake"})
    \o check(<<versionsList(2, "walletForgingStake", "genesis")>>)
    \o startAndSyncScNode2 \o check(<<same_best(1, 2)>>) \o stop_sc_node(2)

wallets_behind(csw) == Flat(<<
    Recovers(2, {}, Wallets(csw) \cup States(csw)), Recovers(3, {}, Wallets(csw) \cup States(csw)),
    IF csw THEN Recovers(3, {"walletCswDataStorage"}, Wallets(csw) \cup States(csw)) ELSE <<>>,
    Recovers(3, Wallets(csw) \ {"wallet", "walletTransaction"}, Wallets(csw) \cup States(csw)),
    Recovers(3, Wallets(csw) \ {"wallet"}, Wallets(csw) \cup States(csw)),
    Recovers(3, Wallets(csw), Wallets(csw) \cup States(csw)),
    Recovers(3, Wallets(csw) \cup {"appWallet2"}, Wallets(csw) \cup States(csw)) >>)

states_behind(csw) == Flat(<<
    Recovers(3, Wallets(csw) \cup AppWallets \cup {"stateForgerBox"}, Wallets(csw) \cup States(csw)),
    Recovers(3, Wallets(csw) \cup AppWallets \cup {"state", "stateForgerBox"}, Wallets(csw) \cup States(csw)),
    IF csw THEN Recovers(3, Wallets(csw) \cup AppWallets \cup States(csw), Wallets(csw) \cup States(csw)) ELSE <<>>,
    Recovers(3, Wallets(csw) \cup AppWallets \cup States(csw) \cup {"appState2"}, Wallets(csw) \cup States(csw)),
    Recovers(4, Wallets(csw) \cup AppWallets \cup States(csw) \cup {"appState1", "appState2"}, Wallets(csw) \cup States(csw)),
    startAndSyncScNode2 >>)

\* Without the first block of an epoch the storage of forging stakes is ahead.
epoch_switch(csw) == Flat(<<
    until_next_epoch, check(<<same_best(1, 2)>>), stop_sc_node(2),
    rollbackStorages(2, {"history"}, 3),
    rollbackStorages(2, Wallets(csw) \cup AppWallets \cup States(csw) \cup {"appState1", "appState2"}, 2),
    check(<<checkStoragesVersion(2, {"wallet"}, "previous"), versionsList(2, "walletForgingStake", "previous")>>),
    forgeBlockAndCheckSync(Wallets(csw) \cup States(csw)) >>)

\* Versions that no update leaves: node 2 does not start.
beyond_repair(csw) == Flat(<<
    rollbackStorages(2, {"history"}, 7),
    IF csw THEN rollbackStorages(2, {"stateUtxoMerkleTree", "walletCswDataStorage"}, 5) ELSE <<>>,
    rollbackStorages(2, {"stateForgerBox"} \cup IF csw THEN {"walletCswDataStorage"} ELSE {}, 2),
    rollbackStorages(2, {"state", "wallet", "walletTransaction", "walletForgingStake"}, 13),
    generate_next_block(1, ""), time_sleep, start_sc_node_fails(2) >>)

recovery(csw) == <<utxo_start(csw), wallets_behind(csw), states_behind(csw), epoch_switch(csw), beyond_repair(csw)>>

sc_storage_recovery_with_csw == Test(RecoveryNetwork(TRUE), recovery(TRUE))
sc_storage_recovery_without_csw == Test(RecoveryNetwork(FALSE), recovery(FALSE))

----------------------------------------------------------------------------
(* The account model has the state beside the history. A state far behind  *)
(* the history is kept, and node 2 starts but takes no block.              *)

evm_recovery_steps == <<
    recovery_start({"state"}), check(<<checkStoragesVersion(1, {"state"}, "tip")>>),
    startAndSyncScNode2, check(<<same_best(1, 2)>>), stop_sc_node(2),
    Recovers(2, {}, {"state"}), Recovers(3, {}, {"state"}), Recovers(3, {"state"}, {"state"}), Recovers(4, {"state"}, {"state"}),
    startAndSyncScNode2, until_next_epoch, check(<<same_best(1, 2)>>), stop_sc_node(2),
    rollbackStorages(2, {"history"}, 7), rollbackStorages(2, {"state"}, 13),
    generate_next_block(1, "tip"), time_sleep, start_sc_node(2), connect_sc_nodes(1, 2), time_sleep,
    check(<<[q |-> OfNode("sc_tip", 2), rel |-> "not", want |-> "tip"]>>), stop_sc_node(2) >>

sc_evm_storage_recovery == Test([RecoveryNetwork(FALSE) EXCEPT !.evm = TRUE], evm_recovery_steps)
=============================================================================
