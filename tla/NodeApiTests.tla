---------------------------- MODULE NodeApiTests ----------------------------
(***************************************************************************)
(* The tests of the closed list of forgers and of what the nodes tell of   *)
(* their state.                                                            *)
(***************************************************************************)
EXTENDS TestSteps

OneNode(amount, length) == Network(1, {}, <<SCNodeConfiguration(1)>>, amount * COIN, length)

\* A block of the only node
ForgeOne == generate_next_block(1, "block") \o sc_sync_all({1})

----------------------------------------------------------------------------
(* sc_closed_forger. Four forgers are allowed besides the genesis one; a   *)
(* signing key of one and a VRF key of another are a forger that is not.   *)

ClosedForgers == restrict_forgers(OneNode(600, LARGE_WITHDRAWAL_EPOCH_LENGTH), <<"forger0", "forger1", "forger2", "forger3">>)

closed_forger_stakes == <<
    generate_next_block(1, ""), forward_transfer_to_sidechain(1, "forger0", 600 * COIN, "mcblock"), sc_sync_all({1}), ForgeOne,
    wallet_createPrivateKey25519(1, "new_public_key"),
    makeForgerStake_refused(1, "forger0", "new_public_key, vrf 0", 1000),
    makeForgerStake_refused(1, "forger0", "forger0, new vrf", 1000),
    makeForgerStake_refused(1, "forger0", "new_public_key", 1000),
    makeForgerStake(1, "forger0", "forger0", 1000, 0, ""), sc_sync_all({1}), ForgeOne,
    Send(1, [i \in 1 .. 4 |-> ZenTo(<<"forger0", "forger1", "forger2", "forger3">>[i], 1000)] \o <<ZenTo("new_public_key", 1500)>>,
         0, "", FALSE), sc_sync_all({1}), ForgeOne,
    find_box(1, "new_public_key", "new_public_key_box"), check(<<consensus_epoch(1, 2)>>),
    createOpenStakeTransaction(1, "new_public_key_box", "new_public_key", 0, 0, "tx"), sendTransaction_refused(1, "tx"),
    generate_next_block_in_next_epoch(1, ""), check(<<consensus_epoch(1, 3)>>) >>

closed_forger_refused == <<
    createOpenStakeTransaction_refused(1, "new_public_key_box", "new_public_key", -1),
    createOpenStakeTransaction_refused(1, "new_public_key_box", "", 0),
    createOpenStakeTransaction_refused(1, "", "new_public_key", 0),
    createOpenStakeTransaction(1, "new_public_key_box", "new_public_key", 5, 0, "tx"), sendTransaction_refused(1, "tx"),
    find_box(1, "forger0", "forger0_box"),
    createOpenStakeTransaction(1, "forger0_box", "new_public_key", 2, 0, "tx"), sendTransaction_refused(1, "tx"),
    createOpenStakeTransaction(1, "forger0_box", "new_public_key", 0, -1, "tx"), sendTransaction(1, "tx", ""), sc_sync_all({1}),
    find_box(1, "forger0", "forger0_box2"),
    createOpenStakeTransaction(1, "forger0_box2", "new_public_key", 0, 0, "tx"), sendTransaction_refused(1, "tx"),
    ForgeOne, check(<<no_new_boxes(1, "block")>>),
    sendTransaction_refused(1, "tx") >>

\* The coins for the vote of a forger
CoinsTo(forger) == sendCoinsToAddress(1, forger, 1500, 0, "") \o sc_sync_all({1}) \o ForgeOne

closed_forger_opened == <<
    CoinsTo("forger1"), find_box(1, "forger1", "forger1_box"),
    createOpenStakeTransaction(1, "forger1_box", "new_public_key", 1, 0, "tx"), sendTransaction(1, "tx", ""), sc_sync_all({1}), ForgeOne,
    makeForgerStake_refused(1, "forger0", "new_public_key", 1000),
    CoinsTo("forger2"), createOpenStakeTransactionSimplified(1, "forger2", 2, -1, "tx"), sendTransaction(1, "tx", ""),
    sc_sync_all({1}), ForgeOne, check(<<no_new_boxes(1, "block")>>),
    makeForgerStake(1, "forger0", "new_public_key", 1000, 0, ""), sc_sync_all({1}), ForgeOne,
    CoinsTo("forger3"), createOpenStakeTransactionSimplified(1, "forger3", 3, 0, "tx"), sendTransaction_refused(1, "tx") >>

sc_closed_forger == Test(ClosedForgers, closed_forger_stakes \o closed_forger_refused \o closed_forger_opened)

----------------------------------------------------------------------------
(* sc_fork_one_forced_tx *)

forced_tx_steps == <<
    generate_next_block(1, ""), forward_transfer_to_sidechain(1, "forger0", 600 * COIN, "mcblock"), sc_sync_all({1}), ForgeOne,
    wallet_createPrivateKey25519(1, "new_public_key"),
    Send(1, <<ZenTo("forger0", 1000), ZenTo("forger1", 1000)>>, 0, "", FALSE), sc_sync_all({1}), ForgeOne,
    sendCoinsToAddress(1, "new_public_key", 1500, 0, ""), sc_sync_all({1}), ForgeOne,
    find_box(1, "new_public_key", "new_public_key_box"), check(<<consensus_epoch(1, 2)>>),
    sendCoinsToAddressDryRun(1, "new_public_key", 0, "low_amount_tx"), ForceTx(1, "low_amount_tx", "", TRUE, TRUE),
    find_box(1, "forger0", "forger0_box"),
    createOpenStakeTransaction(1, "forger0_box", "new_public_key", 0, -1, "open_stake_tx"),
    ForceTx(1, "open_stake_tx", "block_id", TRUE, FALSE),
    check(<<consensus_epoch(1, 3), first_transaction(1, "block_id", "open")>>) >>

sc_fork_one_forced_tx ==
    Test(restrict_forgers(OneNode(600, LARGE_WITHDRAWAL_EPOCH_LENGTH), <<"forger0", "forger1">>), forced_tx_steps)

----------------------------------------------------------------------------
(* sc_evm_closed_forger *)

AllNodes == {1, 2, 3}

StakeFrom(owner, forger, value, label) ==
    <<[EvmStep(1, "evm_address", "", value, -1, label)
       EXCEPT !.outs = <<[type |-> "ForgerBox", owner |-> owner, value |-> value, forger |-> forger]>>]>>

tryMakeForgerStake(forger, status) ==
    StakeFrom("evm_address", forger, 33, "tx_hash") \o sc_sync_all(AllNodes) \o generate_next_block(1, "")
    \o sc_sync_all(AllNodes) \o check(<<receipt_status(1, "tx_hash", status)>>)

tryOpenForgerList(index, status) ==
    open_forger_list(1, index, "tx_hash", FALSE) \o generate_next_block(1, "")
    \o sc_sync_all(AllNodes) \o check(<<receipt_status(1, "tx_hash", status)>>)

ForgeThree(n) == generate_next_blocks(n, <<"", "", "">>) \o sc_sync_all(AllNodes)

evm_closed_start == <<
    sc_ac_setup(AllNodes, 500 * COIN), check(<<allForgingStakes(1, 1), allowedForgerList(1, <<0, 0, 0>>)>>),
    wallet_createPrivateKey25519(2, "evm_address_2"), forward_transfer_to_sidechain(1, "evm_address_2", COIN, ""), time_sleep,
    wallet_createPrivateKey25519(3, "evm_address_3"), forward_transfer_to_sidechain(1, "evm_address_3", 100 * COIN, ""), time_sleep,
    generate_next_block(1, ""), sc_sync_all(AllNodes), check(<<http_wallet_balance(1, "evm_address", 500 * COIN)>>),
    ForgeThree(1), check(<<same_best(1, 2)>>) >>

evm_closed_votes == <<
    tryMakeForgerStake("outlaw, vrf 0", 0), tryMakeForgerStake("forger0, outlaw vrf", 0), tryMakeForgerStake("outlaw", 0),
    tryMakeForgerStake("forger0", 1), ForgeThree(1), check(<<same_best(1, 2)>>),
    tryOpenForgerList(0, 1), check(<<allowedForgerList(1, <<1, 0, 0>>)>>),
    tryMakeForgerStake("outlaw, vrf 0", 0), sc_sync_all(AllNodes), tryOpenForgerList(0, 0),
    open_forger_list(2, 1, "", TRUE), open_forger_list(1, -1, "", TRUE),
    tryOpenForgerList(1, 1), check(<<allowedForgerList(1, <<1, 1, 0>>)>>),
    tryMakeForgerStake("outlaw, vrf 0", 1), tryOpenForgerList(2, 0), check(<<allowedForgerList(1, <<1, 1, 0>>)>>) >>

evm_closed_new_forger == <<
    wallet_createPrivateKey25519(3, "forger_3"), StakeFrom("evm_address_3", "forger_3", 50 * COIN, ""), sc_sync_all(AllNodes),
    generate_next_block(1, ""), sc_sync_all(AllNodes), check(<<same_best(1, 2)>>),
    generate_next_block_in_next_epoch(1, ""), sc_sync_all(AllNodes),
    NextBlock(3, "", FALSE, TRUE), sc_sync_all(AllNodes),
    generate_next_block_in_next_epoch(1, ""), sc_sync_all(AllNodes),
    ForgeThree(3), check(<<same_best(3, 1), same_best(3, 2)>>),
    ForgeThree(1), check(<<same_best(1, 2), same_best(1, 3)>>) >>

sc_evm_closed_forger ==
    Test([restrict_forgers(AccountChainSetup(3, LARGE_WITHDRAWAL_EPOCH_LENGTH), <<"forger0", "forger1">>) EXCEPT !.prompt = TRUE],
         evm_closed_start \o evm_closed_votes \o evm_closed_new_forger)

----------------------------------------------------------------------------
(* sc_node_info, sc_evm_node_info. The second node is asked right after    *)
(* the first has forged.                                                   *)

\* The certificate of epoch 0, and the block that refers to it
FirstCertificate == <<
    generate(1, 8, "we0_end"), generate_next_block(1, "scblock2"), check(<<check_mcreferencedata_presence(1, "scblock2", {"we0_end"})>>),
    generate(1, 1, "we1_1"), generate_next_block(1, "scblock3"), check(<<check_mcreference_presence(1, "scblock3", {"we1_1"})>>),
    wait_for_certificates(1, 1, {1}), check(<<mc_mempool_size(1, 1)>>),
    generate(1, 1, "we1_2"), generate_next_block(1, "scblock4"), check(<<check_mcreferencedata_presence(1, "scblock4", {"we1_2"})>>) >>

node_info_steps ==
    << time_sleep, connect_sc_nodes(1, 2), generate(1, 1, "mcblock1"), generate_next_block(1, "scblock1"),
       check(<<check_mcreferencedata_presence(1, "scblock1", {"mcblock1"})>>) >>
    \o FirstCertificate \o << check(<<node_info(1, 1, 0, 0, 7), node_info(2, 1, 0, 0, 7)>>) >>

sc_node_info ==
    Test([Network(1, {}, <<SCNodeConfiguration(1), [SCNodeConfiguration(1) EXCEPT !.cert_submitter_enabled = FALSE]>>, 100 * COIN, 10)
          EXCEPT !.prompt = TRUE], node_info_steps)

evm_node_info_steps ==
    << time_sleep, sc_ac_setup({1, 2}, 10 * COIN), connect_sc_nodes(1, 2),
       check(<<isCertificateSubmitterEnabled(1, TRUE), isCertificateSubmitterEnabled(2, FALSE),
               http_wallet_balance(1, "evm_address", 10 * COIN)>>) >>
    \o FirstCertificate \o << check(<<node_info(1, 1, 0, 0, 6), node_info(2, 1, 0, 0, 6)>>) >>

sc_evm_node_info ==
    Test([AccountChainSetup(2, 10) EXCEPT !.sc_nodes[1].submitter_private_keys = 1 .. 3, !.sc_nodes[2].submitter_private_keys = 4 .. 6,
                                          !.non_ceasing = TRUE, !.key_rotation = TRUE, !.prompt = TRUE], evm_node_info_steps)

----------------------------------------------------------------------------
(* sc_cum_comm_tree_hash *)

tree_hash_steps == <<
    read(OfNode("mc_tip", 1), "best"), check(<<same_cumulative_hashes(1, 1, {"best"})>>),
    generate(1, 1, "mcblock"), generate_next_block(1, ""), check(<<same_cumulative_hashes(1, 1, {"mcblock"})>>),
    generate(1, 3, "mcblocks"), generate_next_block(1, ""), check(<<same_cumulative_hashes(1, 1, {"mcblocks"})>>),
    generate_next_blocks(1, <<"", "">>), generate(1, 1, "mcblock"), generate_next_block(1, ""),
    check(<<same_cumulative_hashes(1, 1, {"mcblock"})>>),
    generate(1, 10, "mcblocks"), generate_next_block(1, ""), check(<<same_cumulative_hashes(1, 1, {"mcblocks"})>>) >>

sc_cum_comm_tree_hash == Test(OneNode(100, LARGE_WITHDRAWAL_EPOCH_LENGTH), tree_hash_steps)

----------------------------------------------------------------------------
(* sc_blockid_for_backup *)

\* The certificate of the epoch that has ended
CertifyEpoch == generate(1, 1, "") \o generate_next_block(1, "") \o wait_for_certificates(1, 1, {1}) \o check(<<mc_mempool_size(1, 1)>>)

backup_steps == <<
    check(<<isCertificateSubmitterEnabled(1, TRUE)>>), wallet_createPrivateKey25519(1, "sc_address_1"), generate_next_block(1, ""),
    forward_transfer_to_sidechain(1, "sc_address_1", 600 * COIN, ""), sc_sync_all({1}), ForgeOne,
    check(<<no_backup(1)>>), generate(1, 8, ""), generate_next_block(1, "blockIdToRollback"),
    CertifyEpoch, check(<<getscinfo(1, "ALIVE", 1), no_backup(1)>>),
    generate(1, 9, ""), generate_next_block(1, ""), CertifyEpoch, check(<<getscinfo(1, "ALIVE", 2), no_backup(1)>>),
    generate(1, 9, ""), generate_next_block(1, ""), CertifyEpoch, check(<<getBlockIdForBackup(1, "blockIdToRollback")>>) >>

sc_blockid_for_backup == Test(OneNode(600, 10), backup_steps)

----------------------------------------------------------------------------
(* sc_evm_eoa2eoa. The forms of a transaction and of an address make no    *)
(* difference to the model. A balance is 425 zen without what is sent in   *)
(* the first of the transactions below and 9 fees once they are mined.     *)

Pair == {1, 2}

balance_of(n, owner) == [get |-> "balance", node |-> n, owner |-> owner]

\* makeEoa2Eoa: the balances before it are read, and compared with those after it
\* is in a block with status.
makeEoa2Eoa(to, n, value, status) == Flat(<<
    read(balance_of(1, "evm_address"), "initial_balance_from"), read(balance_of(n, to), "initial_balance_to"),
    EvmSend(1, "evm_address", to, value, -1, "tx_hash"), sc_sync_all(Pair), check(<<mempool_has(1, "tx_hash")>>),
    generate_next_block(1, ""), sc_sync_all(Pair), check(<<receipt_status(1, "tx_hash", status)>>),
    check(<<EqPlus(balance_of(1, "evm_address"), "initial_balance_from",
                   (IF status = 0 \/ to = "evm_address" THEN 0 ELSE -value) - EVM_FEE),
            EqPlus(balance_of(n, to), "initial_balance_to",
                   IF to = "evm_address" THEN -EVM_FEE ELSE IF status = 0 THEN 0 ELSE value)>>) >>)

eoa2eoa_transfers == <<
    sc_ac_setup(Pair, 500 * COIN), wallet_createPrivateKey25519(2, "evm_address_sc2"),
    makeEoa2Eoa("evm_address_sc2", 2, 11 * COIN, 1), makeEoa2Eoa("evm_address_sc2", 2, 11 * COIN, 1),
    wallet_createPrivateKey25519(1, "evm_address_sc1_b"), makeEoa2Eoa("evm_address_sc1_b", 2, 22 * COIN, 1),
    makeEoa2Eoa("evm_address", 1, 33 * COIN, 1), makeEoa2Eoa("evm_address_sc2", 2, 1, 1),
    makeEoa2Eoa("evm_address_sc2", 2, 0, 1), makeEoa2Eoa("not_existing_address", 2, COIN, 1),
    makeEoa2Eoa("evm_address_sc2", 2, 15 * COIN, 1), makeEoa2Eoa("evm_address_sc2", 2, 15 * COIN, 1) >>

eoa2eoa_refused == <<
    check(<<http_wallet_balance(1, "evm_address", 425 * COIN - 1 - 9 * EVM_FEE)>>),
    EvmSend_refused(1, "evm_address", "evm_address_sc2", 425 * COIN - 1 - 9 * EVM_FEE, -1),
    wallet_createPrivateKey25519(2, "not_owned_address"), EvmSend_refused(1, "not_owned_address", "evm_address_sc2", COIN, -1),
    EvmSend_refused(1, "evm_address", "evm_address_sc2", -(COIN \div 10), -1),
    EvmSend_refused(1, "evm_address", "evm_address_sc2", 33 * COIN, 0),
    EvmSend_refused(1, "evm_address", "evm_address_sc2", 5678 * COIN, -1),
    makeEoa2Eoa(FORGER_STAKE, 2, COIN, 0), makeEoa2Eoa(WITHDRAWAL_REQ, 2, COIN, 0) >>

sc_evm_eoa2eoa == Test(AccountChainSetup(2, LARGE_WITHDRAWAL_EPOCH_LENGTH), eoa2eoa_transfers \o eoa2eoa_refused)

----------------------------------------------------------------------------
(* sc_evm_orphan_txs. The sum of the balances of a node is left out.       *)

not_in_mempool(n, tx) == Eq([get |-> "in_pool", node |-> n, tx |-> tx], FALSE)

forge_pair(label) == sc_sync_all(Pair) \o generate_next_block(1, label) \o sc_sync_all(Pair)

orphan_missing_nonce == <<
    wallet_createPrivateKey25519(1, "evm_1"), wallet_createPrivateKey25519(2, "evm_2"),
    forward_transfer_to_sidechain(1, "evm_1", 500 * COIN, ""), generate_next_block(1, ""), sc_sync_all(Pair),
    EvmSend(1, "evm_1", "evm_2", 11 * COIN, 1, "orphan_tx_hash"), sc_sync_all(Pair), check(<<mempool_has(1, "orphan_tx_hash")>>),
    forge_pair("block"), check(<<block_transactions(1, "block", 0), mempool_has(1, "orphan_tx_hash")>>),
    EvmSend(1, "evm_1", "evm_2", 11 * COIN, 0, "tx_hash_nonce_0"), sc_sync_all(Pair), check(<<mempool_has(1, "tx_hash_nonce_0")>>),
    forge_pair("block"), check(<<block_is(1, "block", <<"tx_hash_nonce_0", "orphan_tx_hash">>), mempool_is(1, 0)>>) >>

\* The tips of three transactions of a sender above the base fee
three_txs(from, tips, labels) == Flat([i \in 1 .. 3 |-> EvmSendWithTip(1, from, "evm_2", 1, i - 1, tips[i], labels[i])])

orphan_tips == <<
    wallet_createPrivateKey25519(1, "A"), wallet_createPrivateKey25519(1, "B"), wallet_createPrivateKey25519(1, "C"),
    forward_transfer_to_sidechain(1, "A", 500 * COIN, ""), forward_transfer_to_sidechain(1, "B", 500 * COIN, ""),
    forward_transfer_to_sidechain(1, "C", 500 * COIN, ""), generate_next_block(1, ""), sc_sync_all(Pair),
    three_txs("A", <<3, 1, 1100>>, <<"A0", "A1", "A2">>), three_txs("B", <<5, 2, 190>>, <<"B0", "B1", "B2">>),
    three_txs("C", <<100, 2000, 60>>, <<"C0", "C1", "C2">>), forge_pair("block"),
    check(<<block_is(1, "block", <<"C0", "C1", "C2", "B0", "A0", "B1", "B2", "A1", "A2">>)>>) >>

orphan_replaced == <<
    EvmSendWithTip(1, "A", "evm_2", 1, 3, 0, "oldTxId"), check(<<mempool_has(1, "oldTxId")>>),
    EvmSendWithTip(1, "A", "evm_2", 1, 3, 500, "newTxId"), check(<<not_in_mempool(1, "oldTxId"), mempool_has(1, "newTxId")>>),
    forge_pair("block"), check(<<block_is(1, "block", <<"newTxId">>)>>) >>

sc_evm_orphan_txs ==
    Test([AccountChainSetup(2, LARGE_WITHDRAWAL_EPOCH_LENGTH) EXCEPT !.prompt = TRUE],
         orphan_missing_nonce \o orphan_tips \o orphan_replaced)

----------------------------------------------------------------------------
(* sc_evm_mempool *)

TxsTo(n, from, to, first, labels) ==
    Flat([i \in 1 .. Len(labels) |-> EvmSend(n, from, to, 1, first + i - 1, labels[i])])
TxsOf1(first, labels) == TxsTo(1, "evm_1", "evm_2", first, labels)
TxsOf2(first, labels) == TxsTo(2, "evm_2", "evm_1", first, labels)

\* Four transactions of each node, in turn, that both nodes have
common_txs(nonce1, nonce2) ==
    Flat([i \in 1 .. 4 |-> TxsOf1(nonce1 + i - 1, <<"">>) \o TxsOf2(nonce2 + i - 1, <<"">>)]) \o sc_sync_all(Pair)

mempool_start == <<
    wallet_createPrivateKey25519(1, "evm_1"), wallet_createPrivateKey25519(2, "evm_2"),
    forward_transfer_to_sidechain(1, "evm_1", 500 * COIN, ""), forward_transfer_to_sidechain(1, "evm_2", 500 * COIN, ""),
    generate_next_block(1, ""), sc_sync_all(Pair), wallet_createPrivateKey25519(2, "sign_2"),
    ac_makeForgerStake(1, "evm_1", "sign_2", 300 * COIN, ""), sc_sync_all(Pair),
    Flat([i \in 1 .. 3 |-> generate_next_block_in_next_epoch(1, "") \o sc_sync_all(Pair)]) >>

\* Node 2 keeps what only it has when it gets the block of node 1.
mempool_disjoint == <<
    common_txs(1, 0), check(<<mempool_is(1, 8), mempool_is(2, 8)>>), disconnect_sc_nodes(1, 2),
    TxsOf1(5, <<"", "", "">>), TxsOf2(4, <<"t0", "t1", "t2", "t3", "t4">>), check(<<mempool_is(1, 11), mempool_is(2, 13)>>),
    generate_next_block(1, ""), check(<<mempool_is(1, 0)>>), connect_sc_nodes(1, 2), sync_sc_blocks(Pair),
    check(<<mempool_is(1, 0), mempool_is(2, 5)>> \o [i \in 1 .. 5 |-> mempool_has(2, <<"t0", "t1", "t2", "t3", "t4">>[i])]),
    generate_next_block(2, ""), sc_sync_all(Pair) >>

\* The block of node 1 is reverted, and its own transactions are back in its pool.
mempool_reverted == <<
    common_txs(8, 9), disconnect_sc_nodes(1, 2),
    TxsOf1(12, <<"t0", "t1", "t2">>), generate_next_block(1, ""), check(<<mempool_is(1, 0)>>),
    TxsTo(2, "evm_2", "evm_2", 13, <<"", "", "">>), generate_next_block(2, ""),
    TxsOf2(16, <<"", "", "", "", "">>), generate_next_block(2, ""), connect_sc_nodes(1, 2), sync_sc_blocks(Pair),
    check(<<same_best(1, 2), mempool_is(1, 3), mempool_has(1, "t0"), mempool_has(1, "t1"), mempool_has(1, "t2")>>) >>

sc_evm_mempool ==
    Test([AccountChainSetup(2, LARGE_WITHDRAWAL_EPOCH_LENGTH) EXCEPT !.prompt = TRUE], mempool_start \o mempool_disjoint \o mempool_reverted)

----------------------------------------------------------------------------
(* sc_evm_txpool: the nonces that can follow the state and those that      *)
(* wait.                                                                   *)

txpool_is(pending1, queued1, pending2, queued2) ==
    check(<<txpool_contentFrom(1, "evm_address", pending1, queued1), txpool_contentFrom(1, "evm_address_2", pending2, queued2)>>)

RawTx(nonce) == EvmSend(1, "evm_address", "evm_address_2", 12 * (COIN \div 10), nonce, "")

txpool_steps == <<
    sc_ac_setup({1}, 1000 * COIN), wallet_createPrivateKey25519(1, "evm_address_2"),
    RawTx(0), RawTx(1), RawTx(2), txpool_is({0, 1, 2}, {}, {}, {}), generate_next_block(1, ""),
    RawTx(3), EvmSend(1, "evm_address_2", "evm_address", 12 * (COIN \div 10), 0, ""), RawTx(8),
    txpool_is({3}, {8}, {0}, {}), generate_next_block(1, ""),
    EvmDeploy(1, "evm_address", "StorageTestContract", ""), txpool_is({4}, {8}, {}, {}), generate_next_block(1, ""),
    RawTx(5), RawTx(6), txpool_is({5, 6}, {8}, {}, {}), generate_next_block(1, "") >>

sc_evm_txpool == Test(AccountChainSetup(1, 80), txpool_steps)
=============================================================================
