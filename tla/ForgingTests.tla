----------------------------- MODULE ForgingTests -----------------------------
(***************************************************************************)
(* Tests of forging on top of a mainchain with forks: which mainchain      *)
(* headers, references and ommers the blocks of the sidechain have.        *)
(***************************************************************************)
EXTENDS TestSteps

Star == {{1, 2}, {1, 3}}
All3 == {1, 2, 3}

ThreeMcNodes == Network(3, Star, <<SCNodeConfiguration(1)>>, 600 * COIN, LARGE_WITHDRAWAL_EPOCH_LENGTH)
OneMcNode == [ThreeMcNodes EXCEPT !.mc_nodes = 1, !.mc_links = {}]
TwoMcNodes == [ThreeMcNodes EXCEPT !.mc_nodes = 2, !.mc_links = {{1, 2}}]

WithDelay(setup) == [setup EXCEPT !.sc_nodes[1].delay = 1]
Evm(test) == [test EXCEPT !.setup.evm = TRUE]

mc_sc_forging1_run_test == <<
    sync_nodes(All3), disconnect_nodes_bi(1, 2), disconnect_nodes_bi(1, 3),
    generate_next_block(1, "sc0"),
    check(<<check_amounts(1, "sc0", 0, 0, 0)>>),
    generate(1, 1, "mc1"), generate_next_block(1, "sc1"),
    check(<<check_scparent(1, "sc1", "sc0"), check_amounts(1, "sc1", 1, 1, 0),
            check_mcheader_presence(1, "sc1", {"mc1"}),
            check_mcreferencedata_presence(1, "sc1", {"mc1"})>>),
    generate(2, 1, "fork1"), generate(2, 1, "fork2"),
    connect_nodes_bi(1, 2), sync_nodes({1, 2}), check(<<best_is(1, "fork2")>>),
    generate_next_block(1, "sc2"),
    check(<<check_scparent(1, "sc2", "sc0"), check_amounts(1, "sc2", 2, 0, 1),
            check_mcheader_presence(1, "sc2", {"fork1", "fork2"}),
            check_ommers_cumulative_score(1, "sc2", 1),
            check_ommer(1, "sc2", "sc1", {"mc1"})>>),
    generate(1, 1, "mc3"), generate(1, 1, "mc4"), generate_next_block(1, "sc3"),
    check(<<check_scparent(1, "sc3", "sc2"), check_amounts(1, "sc3", 2, 4, 0),
            check_mcheader_presence(1, "sc3", {"mc3", "mc4"}),
            check_mcreferencedata_presence(1, "sc3", {"fork1", "fork2", "mc3", "mc4"})>>),
    generate_next_block(1, "sc4"),
    check(<<check_scparent(1, "sc4", "sc3"), check_amounts(1, "sc4", 0, 0, 0)>>),
    generate(3, 5, "another"), connect_nodes_bi(1, 3), sync_nodes(All3),
    check(<<best_is(1, "another")>>),
    generate_next_block(1, "sc5"),
    check(<<check_scparent(1, "sc5", "sc0"), check_amounts(1, "sc5", 5, 0, 3),
            check_mcheader_presence(1, "sc5", {"another"}),
            check_ommers_cumulative_score(1, "sc5", 4),
            check_ommer(1, "sc5", "sc2", {}), check_ommer(1, "sc5", "sc3", {}),
            check_ommer(1, "sc5", "sc4", {}),
            check_subommer(1, "sc5", "sc2", "sc1", {"mc1"})>>),
    generate_next_block(1, "sc6"),
    check(<<check_scparent(1, "sc6", "sc5"), check_amounts(1, "sc6", 0, 5, 0),
            check_mcreferencedata_presence(1, "sc6", {"another"})>>) >>

mc_sc_forging1 == Test(ThreeMcNodes, mc_sc_forging1_run_test)

mc_sc_forging1_with_mc_block_delay_run_test == <<
    sync_nodes(All3), disconnect_nodes_bi(1, 2), disconnect_nodes_bi(1, 3),
    generate_next_block(1, "sc0"),
    check(<<check_amounts(1, "sc0", 0, 0, 0)>>),
    generate(1, 1, "mc1"), generate_next_block(1, "sc1"),
    check(<<check_scparent(1, "sc1", "sc0"), check_amounts(1, "sc1", 0, 0, 0)>>),
    generate(1, 1, "mc2"), generate_next_block(1, "sc2"),
    check(<<check_amounts(1, "sc2", 1, 1, 0), check_mcheader_presence(1, "sc2", {"mc1"}),
            check_mcreferencedata_presence(1, "sc2", {"mc1"})>>),
    generate(2, 1, "fork1"), generate(2, 1, "fork2"), generate(2, 1, "fork3"),
    connect_nodes_bi(1, 2), sync_nodes({1, 2}), check(<<best_is(1, "fork3")>>),
    generate_next_block(1, "sc3"),
    check(<<check_scparent(1, "sc3", "sc1"), check_amounts(1, "sc3", 2, 0, 1),
            check_mcheader_presence(1, "sc3", {"fork1", "fork2"}),
            check_ommers_cumulative_score(1, "sc3", 1),
            check_ommer(1, "sc3", "sc2", {"mc1"})>>),
    generate(1, 1, "mc3"), generate(1, 1, "mc4"), generate_next_block(1, "sc4"),
    check(<<check_scparent(1, "sc4", "sc3"), check_amounts(1, "sc4", 2, 4, 0),
            check_mcheader_presence(1, "sc4", {"fork3", "mc3"}),
            check_mcreferencedata_presence(1, "sc4", {"fork1", "fork2", "fork3", "mc3"})>>),
    generate_next_block(1, "sc5"),
    check(<<check_scparent(1, "sc5", "sc4"), check_amounts(1, "sc5", 0, 0, 0)>>),
    generate(3, 6, "another"), connect_nodes_bi(1, 3), sync_nodes(All3),
    check(<<best_is(1, "another")>>), slice("another", 1, 5, "included"),
    generate_next_block(1, "sc6"),
    check(<<check_scparent(1, "sc6", "sc1"), check_amounts(1, "sc6", 5, 0, 3),
            check_mcheader_presence(1, "sc6", {"included"}),
            check_ommers_cumulative_score(1, "sc6", 4),
            check_ommer(1, "sc6", "sc3", {}), check_ommer(1, "sc6", "sc4", {}),
            check_ommer(1, "sc6", "sc5", {}),
            check_subommer(1, "sc6", "sc3", "sc2", {"mc1"})>>),
    generate_next_block(1, "sc7"),
    check(<<check_scparent(1, "sc7", "sc6"), check_amounts(1, "sc7", 0, 5, 0),
            check_mcreferencedata_presence(1, "sc7", {"included"})>>) >>

mc_sc_forging1_with_mc_block_delay == Test(WithDelay(ThreeMcNodes), mc_sc_forging1_with_mc_block_delay_run_test)

\* The account model forges the same blocks.
mc_sc_evm_forging1_with_mc_block_delay == Evm(mc_sc_forging1_with_mc_block_delay)

mc_sc_forging2_run_test == <<
    sync_nodes({1, 2}),
    generate_next_block(1, "sc0"),
    check(<<check_amounts(1, "sc0", 0, 0, 0)>>),
    generate(1, 1, "mc1"), sync_nodes({1, 2}), disconnect_nodes_bi(1, 2),
    generate(1, 1, "mc2"), generate_next_block(1, "sc1"),
    check(<<check_scparent(1, "sc1", "sc0"), check_amounts(1, "sc1", 2, 2, 0),
            check_mcheader_presence(1, "sc1", {"mc1", "mc2"}),
            check_mcreferencedata_presence(1, "sc1", {"mc1", "mc2"})>>),
    generate(2, 1, "fork1"), generate(2, 1, "fork2"),
    connect_nodes_bi(1, 2), sync_nodes({1, 2}), check(<<best_is(1, "fork2")>>),
    generate_next_block(1, "sc2"),
    check(<<check_scparent(1, "sc2", "sc0"), check_amounts(1, "sc2", 3, 0, 1),
            check_mcheader_presence(1, "sc2", {"mc1", "fork1", "fork2"}),
            check_ommers_cumulative_score(1, "sc2", 1),
            check_ommer(1, "sc2", "sc1", {"mc1", "mc2"})>>),
    check(<<block_best_is(2, "genesis")>>),
    connect_sc_nodes(1, 2), sc_sync_all({1, 2}),
    check(<<block_best_is(1, "sc2"), block_best_is(2, "sc2")>>) >>

mc_sc_forging2 == Test([TwoMcNodes EXCEPT !.sc_nodes = <<SCNodeConfiguration(1), SCNodeConfiguration(0)>>], mc_sc_forging2_run_test)

mc_sc_forging3_run_test == <<
    sync_nodes(All3), disconnect_nodes_bi(1, 2), disconnect_nodes_bi(1, 3),
    generate_next_block(1, "sc0"),
    check(<<check_amounts(1, "sc0", 0, 0, 0)>>),
    generate(1, 1, "mc1"),
    connect_nodes_bi(1, 3), sync_nodes({1, 3}), disconnect_nodes_bi(1, 3),
    generate_next_block(1, "sc1"),
    check(<<check_scparent(1, "sc1", "sc0"), check_amounts(1, "sc1", 1, 1, 0),
            check_mcheader_presence(1, "sc1", {"mc1"}),
            check_mcreferencedata_presence(1, "sc1", {"mc1"})>>),
    generate(2, 1, "fork1"), generate(2, 1, "fork2"),
    connect_nodes_bi(1, 2), sync_nodes({1, 2}), check(<<best_is(1, "fork2")>>),
    generate_next_block(1, "sc2"),
    check(<<check_scparent(1, "sc2", "sc0"), check_amounts(1, "sc2", 2, 0, 1),
            check_mcheader_presence(1, "sc2", {"fork1", "fork2"}),
            check_ommers_cumulative_score(1, "sc2", 1),
            check_ommer(1, "sc2", "sc1", {"mc1"})>>),
    generate(3, 1, "mc2"), generate(3, 1, "mc3"),
    connect_nodes_bi(1, 3), sync_nodes({1, 3}), disconnect_nodes_bi(1, 3),
    check(<<best_is(1, "mc3")>>),
    generate_next_block(1, "sc3"),
    check(<<check_scparent(1, "sc3", "sc0"), check_amounts(1, "sc3", 3, 0, 1),
            check_mcheader_presence(1, "sc3", {"mc1", "mc2", "mc3"}),
            check_ommers_cumulative_score(1, "sc3", 2),
            check_ommer(1, "sc3", "sc2", {"fork1", "fork2"}),
            check_subommer(1, "sc3", "sc2", "sc1", {"mc1"})>>) >>

mc_sc_forging3 == Test(ThreeMcNodes, mc_sc_forging3_run_test)

mc_sc_forging3_with_mc_block_delay_run_test == <<
    sync_nodes(All3), disconnect_nodes_bi(1, 2), disconnect_nodes_bi(1, 3),
    generate_next_block(1, "sc0"),
    check(<<check_amounts(1, "sc0", 0, 0, 0)>>),
    generate(1, 1, "mc1"), generate(1, 1, "mc2"),
    connect_nodes_bi(1, 3), sync_nodes({1, 3}), disconnect_nodes_bi(1, 3),
    generate_next_block(1, "sc1"),
    check(<<check_scparent(1, "sc1", "sc0"), check_amounts(1, "sc1", 1, 1, 0),
            check_mcheader_presence(1, "sc1", {"mc1"}),
            check_mcreferencedata_presence(1, "sc1", {"mc1"})>>),
    generate(2, 1, "fork1"), generate(2, 1, "fork2"), generate(2, 1, "fork3"),
    connect_nodes_bi(1, 2), sync_nodes({1, 2}), check(<<best_is(1, "fork3")>>),
    generate_next_block(1, "sc2"),
    check(<<check_scparent(1, "sc2", "sc0"), check_amounts(1, "sc2", 2, 0, 1),
            check_mcheader_presence(1, "sc2", {"fork1", "fork2"}),
            check_ommers_cumulative_score(1, "sc2", 1),
            check_ommer(1, "sc2", "sc1", {"mc1"})>>),
    generate(3, 1, "mc3"), generate(3, 1, "mc4"),
    connect_nodes_bi(1, 3), sync_nodes({1, 3}), disconnect_nodes_bi(1, 3),
    check(<<best_is(1, "mc4")>>),
    generate_next_block(1, "sc3"),
    check(<<check_scparent(1, "sc3", "sc0"), check_amounts(1, "sc3", 3, 0, 1),
            check_mcheader_presence(1, "sc3", {"mc1", "mc2", "mc3"}),
            check_ommers_cumulative_score(1, "sc3", 2),
            check_ommer(1, "sc3", "sc2", {"fork1", "fork2"}),
            check_subommer(1, "sc3", "sc2", "sc1", {"mc1"})>>) >>

mc_sc_forging3_with_mc_block_delay == Test(WithDelay(ThreeMcNodes), mc_sc_forging3_with_mc_block_delay_run_test)

mc_sc_evm_forging3_with_mc_block_delay == Evm(mc_sc_forging3_with_mc_block_delay)

----------------------------------------------------------------------------

\* The references of one block and the next ones, when there are more than one
\* request to the mainchain node returns.
Included(b, size, hashes) ==
    check(<<check_amounts(1, b, size, size, 0), check_mcheader_presence(1, b, {hashes}),
            check_mcreferencedata_presence(1, b, {hashes})>>)

mc_sc_forging4_run_test == <<
    generate(1, 200, "mc"),
    generate_next_blocks(1, <<"sc1", "sc2", "sc3", "sc4", "sc5">>),
    slice("mc", 1, 49, "part"), Included("sc1", 49, "part"),
    slice("mc", 50, 98, "part"), Included("sc2", 49, "part"),
    slice("mc", 99, 147, "part"), Included("sc3", 49, "part"),
    slice("mc", 148, 196, "part"), Included("sc4", 49, "part"),
    slice("mc", 197, 200, "part"), Included("sc5", 4, "part") >>

mc_sc_forging4 == Test(OneMcNode, mc_sc_forging4_run_test)

mc_sc_forging4_with_mc_block_delay_run_test == <<
    generate(1, 1, "mc0"), generate_next_block(1, "sc0"),
    check(<<check_amounts(1, "sc0", 0, 0, 0)>>),
    generate(1, 200, "mc"),
    generate_next_blocks(1, <<"sc1", "sc2", "sc3", "sc4", "sc5">>),
    slice("mc", 1, 47, "part"), Included("sc1", 48, "part"), check(<<check_mcreference_presence(1, "sc1", {"mc0"})>>),
    slice("mc", 48, 95, "part"), Included("sc2", 48, "part"),
    slice("mc", 96, 143, "part"), Included("sc3", 48, "part"),
    slice("mc", 144, 191, "part"), Included("sc4", 48, "part"),
    slice("mc", 192, 199, "part"), Included("sc5", 8, "part") >>

mc_sc_forging4_with_mc_block_delay == Test(WithDelay(OneMcNode), mc_sc_forging4_with_mc_block_delay_run_test)
mc_sc_evm_forging4_with_mc_block_delay == Evm(mc_sc_forging4_with_mc_block_delay)

mc_sc_forging5_run_test == <<
    sync_nodes({1, 2}),
    wallet_createPrivateKey25519(1, "address_1"),
    sc_send(1, <<ZenTo("address_1", 10 * COIN)>>), generate(1, 1, "mc0"), generate_next_block(1, "sc0"),
    check(<<boxes_of_type(1, "ZenBox", 1, 10 * COIN)>>),
    sync_nodes({1, 2}), disconnect_nodes_bi(1, 2),
    generate(1, 1, "mc1"),
    wallet_createPrivateKey25519(1, "address_2"),
    sendCoinsToAddress(1, "address_2", 10 * COIN, 0, "tx1"), generate_next_block(1, "sc1"),
    check(<<boxes_of_type(1, "ZenBox", 1, 10 * COIN), check_box_balance(1, "address_2", "ZenBox", 1, 10 * COIN)>>),
    wallet_createPrivateKey25519(1, "address_3"),
    sendCoinsToAddress(1, "address_3", 10 * COIN, 0, "tx2"),
    check(<<mempool_is(1, 1), mempool_has(1, "tx2")>>),
    generate(2, 1, "fork1"), generate(2, 1, "fork2"),
    connect_nodes_bi(1, 2), sync_nodes({1, 2}), check(<<best_is(1, "fork2")>>),
    generate_next_block(1, "sc2"),
    check(<<check_scparent(1, "sc2", "sc0"), check_amounts(1, "sc2", 2, 0, 1),
            check_mcheader_presence(1, "sc2", {"fork1", "fork2"}),
            check_ommers_cumulative_score(1, "sc2", 1), check_ommer(1, "sc2", "sc1", {"mc1"}),
            no_transactions(1, "sc2"), mempool_is(1, 1), mempool_has(1, "tx1")>>) >>

mc_sc_forging5 == Test(TwoMcNodes, mc_sc_forging5_run_test)

\* Two nodes on one mainchain node, the first with a delay.
mc_sc_forging_different_delay_run_test == <<
    wallet_createPrivateKey25519(2, "node2"),
    sc_send(1, <<ZenTo("node2", 500 * COIN)>>), check(<<mc_mempool_size(1, 1)>>),
    generate(1, 3, "mc"), slice("mc", 1, 1, "mc1"), generate_next_block(1, "sc0"),
    check(<<check_mcreference_presence(1, "sc0", {"mc1"})>>),
    connect_sc_nodes(1, 2), sc_sync_all({1, 2}),
    check(<<check_wallet_coins_balance(2, 500 * COIN), check_box_balance(2, "node2", "ZenBox", 1, 500 * COIN)>>),
    wallet_createPrivateKey25519(2, "node2_rewards"),
    makeForgerStake(2, "node2", "node2_rewards", 499 * COIN, 1, "stake"),
    sc_sync_all({1, 2}),
    generate_next_block(1, ""), generate_next_block_in_next_epoch(1, ""), sc_sync_all({1, 2}),
    generate_next_block_in_next_epoch(2, ""),
    check(<<check_box_balance(2, "node2", "ForgerBox", 1, 499 * COIN)>>),
    disconnect_sc_nodes(1, 2), sc_sync_all({1, 2}), connect_sc_nodes(1, 2), sc_sync_all({1, 2}),
    generate_next_block(1, "sc0"), check(<<check_amounts(1, "sc0", 0, 0, 0)>>),
    generate(1, 1, "mc1"), generate(1, 2, "mc2"),
    generate_next_block(1, "sc1"),
    check(<<check_scparent(1, "sc1", "sc0"), check_amounts(1, "sc1", 1, 1, 0),
            check_mcreference_presence(1, "sc1", {"mc1"})>>),
    connect_sc_nodes(1, 2), sc_sync_all({1, 2}),
    check(<<check_amounts(2, "sc1", 1, 1, 0), check_mcreference_presence(2, "sc1", {"mc1"})>>),
    disconnect_sc_nodes(1, 2),
    generate(1, 1, "mc3"), generate(1, 1, "mc4"),
    generate_next_block(2, "sc2"),
    check(<<check_scparent(2, "sc2", "sc1"), check_amounts(2, "sc2", 4, 4, 0),
            check_mcreference_presence(2, "sc2", {"mc2", "mc3", "mc4"})>>),
    connect_sc_nodes(1, 2), sc_sync_all({1, 2}),
    check(<<check_amounts(1, "sc2", 4, 4, 0), check_mcreference_presence(1, "sc2", {"mc2", "mc3", "mc4"})>>) >>

\* --mcblockdelay 2
mc_sc_forging_different_delay ==
    Test([OneMcNode EXCEPT !.sc_nodes = <<[SCNodeConfiguration(1) EXCEPT !.delay = 2],
                                          [SCNodeConfiguration(1) EXCEPT !.cert_submitter_enabled = FALSE]>>],
         mc_sc_forging_different_delay_run_test)

sc_evm_mc_fork_run_test == <<
    sync_nodes({1, 2}),
    wallet_createPrivateKey25519(1, "address_1"),
    sc_send(1, <<ZenTo("address_1", 10 * COIN)>>), time_sleep, sendtoaddress(1), sync_nodes({1, 2}),
    generate(1, 1, "mc0"), generate_next_block(1, "sc0"),
    check(<<http_wallet_balance(1, "address_1", 10 * COIN)>>),
    sync_nodes({1, 2}), disconnect_nodes_bi(1, 2),
    generate(1, 1, "mc1"),
    wallet_createPrivateKey25519(1, "address_2"),
    EvmSend(1, "address_1", "address_2", COIN, 0, "tx1"), generate_next_block(1, "sc1"),
    generate(2, 1, "fork1"), time_sleep,
    wallet_createPrivateKey25519(1, "address_3"),
    sc_send(2, <<ZenTo("address_3", COIN)>>), time_sleep, generate(2, 1, "fork2"), time_sleep,
    check(<<mc_block_txs(2, "fork2", 2)>>),
    connect_nodes_bi(1, 2), sync_nodes({1, 2}), check(<<best_is(1, "fork2")>>),
    generate_next_block(1, "sc2"),
    check(<<check_scparent(1, "sc2", "sc0"), check_amounts(1, "sc2", 2, 0, 1),
            check_mcheader_presence(1, "sc2", {"fork1", "fork2"}),
            check_ommers_cumulative_score(1, "sc2", 1), check_ommer(1, "sc2", "sc1", {"mc1"}),
            no_transactions(1, "sc2"), http_wallet_balance(1, "address_3", 0),
            mempool_is(1, 1), mempool_has(1, "tx1")>>),
    generate_next_block(1, "sc3"),
    check(<<http_wallet_balance(1, "address_3", COIN)>>) >>

sc_evm_mc_fork ==
    Test([AccountChainSetup(1, LARGE_WITHDRAWAL_EPOCH_LENGTH) EXCEPT !.mc_nodes = 2, !.mc_links = {{1, 2}}],
         sc_evm_mc_fork_run_test)

----------------------------------------------------------------------------
(* Nodes that start, connect and synchronize *)

TwoScNodes(amount, length) == Network(1, {}, <<SCNodeConfiguration(1), SCNodeConfiguration(1)>>, amount, length)
OneScNode(amount, length) == Network(1, {}, <<SCNodeConfiguration(1)>>, amount, length)

GenesisBalance(amount) ==
    <<check_box_balance(1, "genesis", "ForgerBox", 1, amount), check_wallet_coins_balance(1, amount)>>

sc_bootstrap_run_test == << check(StartsAtGenesis(1)), check(GenesisBalance(100 * COIN)) >>

sc_bootstrap == Test(OneScNode(100 * COIN, LARGE_WITHDRAWAL_EPOCH_LENGTH), sc_bootstrap_run_test)

sc_evm_bootstrap_run_test == <<
    check(StartsAtGenesis(1)),
    wallet_createPrivateKey25519(1, "evm_address"),
    generate_next_block(1, ""), sc_sync_all({1, 2}), check(<<height_is(2, 2)>>) >>

sc_evm_bootstrap == Test(AccountChainSetup(2, LARGE_WITHDRAWAL_EPOCH_LENGTH), sc_evm_bootstrap_run_test)

\* The nodes are connected by sc_setup_network.
sc_nodes_initialize_run_test == <<
    sc_sync_all(All3),
    check(<<connected_to(1, {2, 3}), connected_to(2, {1, 3}), connected_to(3, {1, 2})>>) >>

sc_nodes_initialize ==
    Test([OneMcNode EXCEPT !.sc_nodes = [n \in All3 |-> SCNodeConfiguration(0)],
                           !.sc_links = {{1, 2}, {2, 3}, {1, 3}}], sc_nodes_initialize_run_test)

mc_sc_connected_nodes_run_test == <<
    check(StartsAtGenesis(1)), check(StartsAtGenesis(2)), check(GenesisBalance(600 * COIN)),
    generate(1, 1, "new"), generate_next_block(1, ""),
    check(<<height_is(1, 2), in_best_block(1, "new", TRUE), in_best_block(2, "new", FALSE),
            best_reference_is(1, "new", TRUE), best_reference_is(2, "new", FALSE)>>),
    connect_nodes_bi(1, 2), sync_nodes({1, 2}),
    connect_sc_nodes(1, 2), sc_sync_all({1, 2}),
    check(<<in_best_block(2, "new", TRUE)>>) >>

mc_sc_connected_nodes ==
    Test([TwoMcNodes EXCEPT !.mc_links = {}, !.sc_nodes = <<SCNodeConfiguration(1), SCNodeConfiguration(2)>>],
         mc_sc_connected_nodes_run_test)

sc_sync_after_fork_run_test == <<
    generate_next_block(1, ""),
    generate_next_block_in_next_epoch(1, ""), generate_next_block_in_next_epoch(1, ""),
    generate_next_block_in_next_epoch(1, ""), generate_next_block_in_next_epoch(1, ""),
    generate_next_block_in_next_epoch(1, ""), generate_next_block_in_next_epoch(1, ""),
    connect_sc_nodes(1, 2), generate_next_block(1, ""), sc_sync_all({1, 2}),
    check(<<same_best(1, 2)>>) >>

sc_sync_after_fork == Test(TwoScNodes(100 * COIN, 100), sc_sync_after_fork_run_test)

sc_forward_transfer_run_test == <<
    check(StartsAtGenesis(1)), check(GenesisBalance(100 * COIN)),
    forward_transfer_to_sidechain(1, "genesis", 100 * COIN, "mc"),
    generate_next_block(1, ""),
    check(<<height_is(1, 2), in_best_block(1, "mc", TRUE), best_reference_is(1, "mc", TRUE),
            check_wallet_coins_balance(1, 200 * COIN), check_box_balance(1, "genesis", "any", 2, 200 * COIN)>>) >>

sc_forward_transfer == Test(OneScNode(100 * COIN, 5), sc_forward_transfer_run_test)

\* 33.22 coins
DEFAULT_FT == 3322000

sc_evm_forward_transfer_run_test == <<
    sc_ac_setup({1}, DEFAULT_FT),
    check(<<http_wallet_balance(1, "evm_address", DEFAULT_FT),
            Eq(OfBlock("transfers", 1, "block_id"), <<ZenTo("evm_address", DEFAULT_FT)>>)>>) >>

sc_evm_forward_transfer == Test(AccountChainSetup(1, 20), sc_evm_forward_transfer_run_test)
=============================================================================
