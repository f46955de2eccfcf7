------------------------------ MODULE FeeTests ------------------------------
(***************************************************************************)
(* The tests of the stakes of forgers and of the fees they are paid at the *)
(* end of a withdrawal epoch.                                              *)
(***************************************************************************)
EXTENDS TestSteps

Nodes12 == {1, 2}

\* Two sidechain nodes of one mainchain node
TwoForgers(amount, length) == Network(1, {}, <<SCNodeConfiguration(1), SCNodeConfiguration(1)>>, amount * COIN, length)

----------------------------------------------------------------------------
(* What the scripts expect: fees is the sequence of [node, own, shared] of *)
(* the blocks of the epoch.                                                *)

FeeInfo(node, own, shared) == [node |-> node, own |-> own, shared |-> shared]
Repeat(info, n) == [i \in 1 .. n |-> info]

ExpectedOf(fees, node, pool) ==
    SumRange([i \in 1 .. Len(fees) |->
                 IF fees[i].node # node THEN 0
                 ELSE fees[i].own + (pool \div Len(fees)) + (IF i - 1 < pool % Len(fees) THEN 1 ELSE 0)], 1, Len(fees))

Expected(fees, node) == ExpectedOf(fees, node, SumRange([i \in 1 .. Len(fees) |-> fees[i].shared], 1, Len(fees)))

\* computeForgedTxFee: a transaction of the account model in a block
ForgedTx(node) == FeeInfo(node, EVM_TIP, EVM_FEE - EVM_TIP)
\* Ceiling and floor of the 0.3 and 0.7 of a fee of the UTXO model
UtxoFee(node, fee) == FeeInfo(node, (fee * 7) \div 10, (fee * 3 + 9) \div 10)

----------------------------------------------------------------------------
(* mc_sc_forging_fee_payments *)

fee_payments_stake == <<
    connect_sc_nodes(1, 2), sc_sync_all(Nodes12), wallet_createPrivateKey25519(2, "node2_address"),
    mc_make_forward_transfer(1, "node2_address", 500 * COIN, "mcblock1"),
    generate_next_block(1, "scblock1"), check(<<check_mcreference_presence(1, "scblock1", {"mcblock1"})>>),
    sc_sync_all(Nodes12),
    check(<<check_wallet_coins_balance(2, 500 * COIN), check_box_balance(2, "node2_address", "ZenBox", 1, 500 * COIN)>>),
    wallet_createPrivateKey25519(2, "node2_rewards"),
    makeForgerStake(2, "node2_address", "node2_rewards", 499 * COIN, 1000, ""), sc_sync_all(Nodes12),
    generate_next_block(1, ""), sc_sync_all(Nodes12),
    check(<<check_box_balance(2, "node2_address", "ForgerBox", 1, 499 * COIN)>>),
    generate_next_block_in_next_epoch(1, ""), sc_sync_all(Nodes12) >>

UtxoFees == <<FeeInfo(1, 0, 0), FeeInfo(1, 0, 0), UtxoFee(1, 1000), FeeInfo(1, 0, 0), UtxoFee(2, 201), FeeInfo(2, 0, 0)>>
UtxoFeePayments == << <<"genesis", Expected(UtxoFees, 1)>>, <<"node2_rewards", Expected(UtxoFees, 2)>> >>

fee_payments_paid == <<
    sendCoinsToAddress(2, "node2_address", 100, 201, ""), generate_next_block_in_next_epoch(2, "middle"),
    sc_sync_all(Nodes12), generate(1, 3, ""),
    read(OfNode("coins", 1), "balance1"), read(OfNode("coins", 2), "balance2"),
    generate_next_block(2, "last"), sc_sync_all(Nodes12),
    check(<<EqPlus(OfNode("coins", 1), "balance1", Expected(UtxoFees, 1)),
            EqPlus(OfNode("coins", 2), "balance2", Expected(UtxoFees, 2)),
            fee_payments(1, "middle", <<>>), fee_payments(2, "middle", <<>>),
            fee_payments(1, "last", UtxoFeePayments), fee_payments(2, "last", UtxoFeePayments)>>) >>

mc_sc_forging_fee_payments == Test(TwoForgers(500, 5), fee_payments_stake \o fee_payments_paid)

----------------------------------------------------------------------------
(* The account model *)

\* Node 2 may have a reward address. Balances of node 2 are read right after a
\* block of node 1: the network is taken to be faster than the script.
EvmForgers(amount, reward) ==
    [AccountChainSetup(2, 20) EXCEPT !.forward_amount = amount * COIN, !.sc_nodes[2].reward = reward, !.prompt = TRUE]

\* One block in each of the next epochs
advance(epochs) == Flat([i \in 1 .. epochs |-> generate_next_block_in_next_epoch(1, "") \o sync_sc_blocks(Nodes12)])

\* A stake of node 2, paid from a forward transfer
evm_stake(ft, stake) == Flat(<<
    wallet_createPrivateKey25519(2, "evm_address_2"), mc_make_forward_transfer(1, "evm_address_2", ft, "mcblock1"),
    generate_next_block(1, "scblock1"), check(<<check_mcreference_presence(1, "scblock1", {"mcblock1"})>>),
    sc_sync_all(Nodes12), check(<<http_wallet_balance(2, "evm_address_2", ft)>>),
    wallet_createPrivateKey25519(2, "sign_2"), ac_makeForgerStake(2, "evm_address_2", "sign_2", stake, "tx0"),
    sc_sync_all(Nodes12), generate_next_block(1, ""),
    check(<<wallet_getTotalBalance(2, ft - stake - EVM_FEE), allForgingStakes(1, 2)>>),
    generate_next_block_in_next_epoch(1, ""), sc_sync_all(Nodes12) >>)

\* A legacy transaction in a block of node 1, then one of EIP-1559 in a block of
\* node 2
evm_payments == Flat(<<
    EvmSend(2, "evm_address_2", "recipient", 2200, -1, "tx1"), sc_sync_all(Nodes12),
    generate_next_block(1, ""), sc_sync_all(Nodes12),
    EvmSend(2, "evm_address_2", "recipient", 100, -1, "tx2"), sc_sync_all(Nodes12),
    generate_next_block_in_next_epoch(2, "middle"), sc_sync_all(Nodes12) >>)

\* The blocks of the first withdrawal epoch, after the first n
EvmFees(n) == Repeat(FeeInfo(1, 0, 0), n) \o <<FeeInfo(1, 0, 0), ForgedTx(1), FeeInfo(1, 0, 0), ForgedTx(1), ForgedTx(2), FeeInfo(2, 0, 0)>>
EvmFeePayments(n, address) == << <<"genesis", Expected(EvmFees(n), 1)>>, <<address, Expected(EvmFees(n), 2)>> >>

SpentBy2(ft, stake) == ft - stake - 2300 - 3 * EVM_FEE

----------------------------------------------------------------------------
(* sc_evm_fee_payments_rpc *)

rpc_transactions == <<evm_stake(2 * COIN, 1500), evm_payments>>
rpc_payments == <<
    generate(1, 18, ""), check(<<wallet_getTotalBalance(2, SpentBy2(2 * COIN, 1500))>>),
    generate_next_block(2, "last"), sc_sync_all(Nodes12),
    check(<<fee_payments(1, "middle", <<>>), fee_payments(1, "last", EvmFeePayments(1, "evm_address_2"))>>) >>

sc_evm_fee_payments_rpc == Test(EvmForgers(1, ""), rpc_transactions \o rpc_payments)

----------------------------------------------------------------------------
(* sc_evm_forging_fee_payments: the forger pool is paid out from a fork    *)
(* on, and from a later one up to a limit. The part about the paged        *)
(* queries of the contract is left out.                                    *)

evm_fees_transactions == <<
    advance(34), connect_sc_nodes(1, 2), sc_sync_all(Nodes12), evm_stake(12 * COIN, 11 * COIN), evm_payments >>

evm_fees_paid == <<
    sc_send(1, <<ZenTo(FORGER_POOL, 100 * COIN)>>), generate(1, 18, ""),
    check(<<wallet_getTotalBalance(2, SpentBy2(12 * COIN, 11 * COIN))>>), read(TotalBalance(1), "balance1"),
    generate_next_block(2, "last"), sc_sync_all(Nodes12),
    check(<<FORGER_POOL_RECIPIENT(1, 100 * COIN), EqPlus(TotalBalance(1), "balance1", Expected(EvmFees(35), 1)),
            http_wallet_balance(2, "reward", Expected(EvmFees(35), 2)),
            wallet_getTotalBalance(2, SpentBy2(12 * COIN, 11 * COIN)),
            fee_payments(1, "middle", <<>>), fee_payments(2, "middle", <<>>),
            fee_payments(1, "last", EvmFeePayments(35, "reward")), fee_payments(2, "last", EvmFeePayments(35, "reward"))>>) >>

\* 22 blocks of node 1 and 3 of node 2 from the fork of epoch 60 on
evm_fees_pool == <<
    generate_next_blocks(1, <<"", "">>), wait_for_certificates(1, 1, {1}), check(<<mc_mempool_size(1, 1)>>),
    read(TotalBalance(1), "balance1"), read([get |-> "balance", node |-> 2, owner |-> "reward"], "balance2"),
    advance(43), generate_next_block(1, ""), generate_next_blocks(2, <<"", "">>),
    generate(1, 20, ""), sc_sync_all(Nodes12), generate_next_block(2, "last"), sc_sync_all(Nodes12),
    check(<<EqPlus(TotalBalance(1), "balance1", 22 * COIN),
            EqPlus([get |-> "balance", node |-> 2, owner |-> "reward"], "balance2", 3 * COIN),
            FORGER_POOL_RECIPIENT(1, 75 * COIN),
            fee_payments(1, "last", << <<"genesis", 22 * COIN>>, <<"reward", 3 * COIN>> >>),
            fee_payments(2, "last", << <<"genesis", 22 * COIN>>, <<"reward", 3 * COIN>> >>)>>) >>

sc_evm_forging_fee_payments == Test(EvmForgers(3, "reward"), evm_fees_transactions \o evm_fees_paid \o evm_fees_pool)

----------------------------------------------------------------------------
(* sc_evm_forging_fee_payments_rollback: the end of a withdrawal epoch is  *)
(* reverted with the payments it made.                                     *)

\* One transaction, of node 2, in the block of node 1 that is the third from the
\* fork of epoch 60 on; n1 and n2 blocks of the nodes since that fork.
RollbackFees(n1, n2) ==
    Repeat(FeeInfo(1, 0, 0), 61) \o <<ForgedTx(1)>> \o Repeat(FeeInfo(1, 0, 0), 1) \o Repeat(FeeInfo(2, 0, 0), n2)
    \o Repeat(FeeInfo(1, 0, 0), n1 - 4)

RollbackPayments(n1, n2, pool) ==
    << <<"genesis", Expected(RollbackFees(n1, n2), 1) + (pool \div (n1 + n2)) * n1>>,
       <<"evm_address_2", Expected(RollbackFees(n1, n2), 2) + (pool \div (n1 + n2)) * n2>> >>

RollbackPaid(n1, n2, pool) ==
    check(<<FORGER_POOL_RECIPIENT(1, 0),
            EqPlus(TotalBalance(1), "balance1", RollbackPayments(n1, n2, pool)[1][2]),
            EqPlus(TotalBalance(2), "balance2", RollbackPayments(n1, n2, pool)[2][2]),
            fee_payments(1, "last", RollbackPayments(n1, n2, pool))>>)

rollback_transactions == <<
    advance(59), connect_sc_nodes(1, 2), sc_sync_all(Nodes12), evm_stake(2 * COIN, COIN),
    generate_next_block_in_next_epoch(2, ""), sc_sync_all(Nodes12) >>

rollback_epoch_end == <<
    generate(1, 16, ""), generate_next_block(2, ""), sc_sync_all(Nodes12),
    sc_send(1, <<ZenTo(FORGER_POOL, COIN \div 2)>>), generate(1, 1, "ft_to_revert"),
    generate_next_block(2, ""), sc_sync_all(Nodes12), check(<<FORGER_POOL_RECIPIENT(1, COIN \div 2)>>),
    generate(1, 1, "last_to_revert"), read(TotalBalance(1), "balance1"), read(TotalBalance(2), "balance2"),
    generate_next_block(2, "last"), sc_sync_all(Nodes12), RollbackPaid(4, 4, COIN \div 2) >>

rollback_reverted == <<
    invalidateblock(1, "ft_to_revert"), invalidateblock(1, "last_to_revert"), time_sleep,
    sc_send(1, <<ZenTo(FORGER_POOL, COIN)>>), generate(1, 3, ""),
    generate_next_block(1, ""), generate_next_block(1, "last"), sc_sync_all(Nodes12),
    RollbackPaid(6, 2, 3 * (COIN \div 2)) >>

sc_evm_forging_fee_payments_rollback ==
    Test(EvmForgers(3, ""), rollback_transactions \o rollback_epoch_end \o rollback_reverted)

----------------------------------------------------------------------------
(* mc_sc_forging_delegation *)

delegation_stakes == <<
    wallet_createPrivateKey25519(1, "node1_address"), mc_make_forward_transfer(1, "node1_address", 500 * COIN, "mcblock1"),
    generate_next_block(1, "scblock1"), check(<<check_mcreference_presence(1, "scblock1", {"mcblock1"})>>),
    check(<<check_wallet_coins_balance(1, 600 * COIN), check_box_balance(1, "node1_address", "ZenBox", 1, 500 * COIN)>>),
    wallet_createPrivateKey25519(2, "node2_address"),
    Send(1, <<[ZenTo("node1_address", 300 * COIN) EXCEPT !.type = "ForgerBox", !.forger = "node2_address"],
              [ZenTo("node1_address", 200 * COIN) EXCEPT !.type = "ForgerBox", !.forger = "node2_address"]>>, 0, "", FALSE),
    generate_next_block(1, ""), connect_sc_nodes(1, 2), sc_sync_all(Nodes12),
    check(<<check_wallet_coins_balance(1, 600 * COIN), check_box_balance(1, "node1_address", "ForgerBox", 2, 500 * COIN),
            check_wallet_coins_balance(2, 0)>>),
    generate_next_block_in_next_epoch(1, ""), sc_sync_all(Nodes12),
    generate_next_block_in_next_epoch(2, "scnode2_block"), sc_sync_all(Nodes12),
    check(<<forging_stake_info(2, "scnode2_block", 500 * COIN, "node2_address")>>) >>

\* A block fails without stakes two epochs before, and without stakes at the end
\* of the epoch before it.
delegation_spent == <<
    wallet_box(1, "ForgerBox", {}, 1, "forger_box"),
    SpendBox(1, "forger_box", "ForgerBox", <<ZenTo("node1_address", 100 * COIN)>>, "tx"),
    generate_next_block(1, ""), generate_next_block_in_next_epoch(1, ""), NextBlock(1, "", TRUE, TRUE),
    wallet_box(1, "ForgerBox", {}, 1, "forger_box_1"), wallet_box(1, "ForgerBox", {}, 2, "forger_box_2"),
    SpendBox(1, "forger_box_1", "ForgerBox", <<ZenTo("node1_address", 300 * COIN)>>, "tx"), sc_sync_all(Nodes12),
    SpendBox(1, "forger_box_2", "ForgerBox", <<ZenTo("node1_address", 200 * COIN)>>, "tx"), sc_sync_all(Nodes12),
    check(<<mempool_is(1, 2)>>), NextBlock(2, "", FALSE, FALSE), sc_sync_all(Nodes12),
    check(<<boxes_of_type(1, "ForgerBox", 0, 0), boxes_of_type(2, "ForgerBox", 0, 0)>>),
    NextBlock(2, "", TRUE, TRUE) >>

mc_sc_forging_delegation ==
    Test(TwoForgers(100, LARGE_WITHDRAWAL_EPOCH_LENGTH), delegation_stakes \o delegation_spent)

----------------------------------------------------------------------------
(* sc_evm_forger_delegation *)

Nodes123 == {1, 2, 3}

delegation_made(n, owner, signer, value) == ac_makeForgerStake(n, owner, signer, value * COIN, "tx") \o sc_sync_all(Nodes123)

evm_delegation_stakes == <<
    wallet_createPrivateKey25519(1, "evm_1"), wallet_createPrivateKey25519(2, "evm_2"), wallet_createPrivateKey25519(3, "evm_3"),
    forward_transfer_to_sidechain(1, "evm_1", 100 * COIN, ""), forward_transfer_to_sidechain(1, "evm_2", 100 * COIN, ""),
    forward_transfer_to_sidechain(1, "evm_3", 100 * COIN, ""), generate_next_block(1, ""), sc_sync_all(Nodes123),
    wallet_createPrivateKey25519(2, "sign_2"), delegation_made(1, "evm_1", "sign_2", 50),
    wallet_createPrivateKey25519(3, "sign_3"), delegation_made(1, "evm_1", "sign_3", 4),
    delegation_made(3, "evm_3", "sign_2", 60), delegation_made(2, "evm_2", "sign_2", 33), check(<<mempool_is(1, 4)>>) >>

evm_delegation_blocks == <<
    generate_next_block(1, ""), sc_sync_all(Nodes123),
    check(<<boxes_of_type(1, "ForgerBox", 3, (99 + 50 + 4) * COIN), boxes_of_type(2, "ForgerBox", 1, 33 * COIN),
            boxes_of_type(3, "ForgerBox", 1, 60 * COIN), allForgingStakes(1, 5),
            getSignerStakeAmount(1, "genesis", 99 * COIN), getSignerStakeAmount(1, "sign_2", 143 * COIN),
            getSignerStakeAmount(1, "sign_3", 4 * COIN)>>),
    generate_next_block_in_next_epoch(1, "b1"), sc_sync_all(Nodes123),
    check(<<block_best_is(3, "b1"), forging_stake_info(3, "b1", 99 * COIN, "genesis")>>),
    generate_next_block_in_next_epoch(2, "b2"), sc_sync_all(Nodes123),
    check(<<block_best_is(3, "b2"), forging_stake_info(3, "b2", 143 * COIN, "sign_2")>>) >>

sc_evm_forger_delegation ==
    Test([AccountChainSetup(3, LARGE_WITHDRAWAL_EPOCH_LENGTH) EXCEPT !.forward_amount = 99 * COIN],
         evm_delegation_stakes \o evm_delegation_blocks)

----------------------------------------------------------------------------
(* sc_evm_forger: stakes are made and spent until none is left. The calls  *)
(* of the contract by another contract are left out.                       *)

\* A transaction in the next block of node n, and its receipt
in_block(tx, n, switch) == Flat(<<tx, sc_sync_all(Nodes12), NextBlock(n, "", switch, FALSE), sc_sync_all(Nodes12)>>)
forged(tx, n, switch, status) == in_block(tx, n, switch) \o check(<<receipt_status(1, "tx_hash", status)>>)

stake_for(owner, value) == ac_makeForgerStake(1, owner, "sign_2", value, "tx_hash")

Stake1 == 300 * COIN
\* What is left after the first stake and its fee, without the amount for fees
Stake2 == 200 * COIN - (COIN \div 100) - EVM_FEE

evm_forger_funds == <<
    check(<<allForgingStakes(1, 1), allForgingStakes(2, 1), FORGER_STAKE_balance(1, 100 * COIN), FORGER_STAKE_balance(2, 100 * COIN),
            getSignerStakeAmount(1, "genesis", 100 * COIN), boxes_of_type(1, "ForgerBox", 1, 100 * COIN)>>),
    read_list(StakeIds(1, "", FALSE), "stake_id_genesis"),
    wallet_createPrivateKey25519(2, "evm_2"), sc_send(1, <<ZenTo("evm_2", COIN)>>), time_sleep,
    wallet_createPrivateKey25519(1, "evm_1"), forward_transfer_to_sidechain(1, "evm_1", 500 * COIN, ""),
    generate_next_block(1, ""), sc_sync_all(Nodes12),
    check(<<http_wallet_balance(2, "evm_2", COIN), http_wallet_balance(1, "evm_1", 500 * COIN)>>),
    spendForgingStake_refused(2, "stake_id_genesis"), wallet_createPrivateKey25519(2, "sign_2") >>

\* A contract cannot own a stake, a native or a deployed one.
evm_forger_contracts == <<
    forged(stake_for(WITHDRAWAL_REQ, Stake1), 1, FALSE, 0), check(<<http_wallet_balance(1, "evm_1", 500 * COIN - EVM_FEE)>>),
    forged(EvmDeploy(1, "evm_1", "TestDeployingContract", "tx_hash"), 1, FALSE, 1),
    check(<<http_wallet_balance(1, "evm_1", 500 * COIN - 2 * EVM_FEE)>>),
    forged(stake_for("TestDeployingContract", Stake1), 1, FALSE, 0),
    check(<<http_wallet_balance(1, "evm_1", 500 * COIN - 3 * EVM_FEE)>>) >>

\* Node 2 forges two epochs after it has stakes.
evm_forger_stakes == <<
    forged(stake_for("evm_1", Stake1), 1, FALSE, 1),
    check(<<allForgingStakes(1, 2), http_wallet_balance(1, "evm_1", 500 * COIN - Stake1 - 4 * EVM_FEE)>>),
    forged(stake_for("evm_1", Stake2), 1, FALSE, 1),
    check(<<allForgingStakes(1, 3), http_wallet_balance(1, "evm_1", 500 * COIN - Stake1 - Stake2 - 5 * EVM_FEE)>>),
    NextBlock(2, "", FALSE, TRUE), sc_sync_all(Nodes12), generate_next_block_in_next_epoch(1, ""), sc_sync_all(Nodes12),
    NextBlock(2, "", FALSE, TRUE), sc_sync_all(Nodes12), generate_next_block_in_next_epoch(1, ""), sc_sync_all(Nodes12),
    generate_next_block(2, ""), sc_sync_all(Nodes12), check(<<FORGER_STAKE_balance(1, 100 * COIN + Stake1 + Stake2)>>) >>

\* What the owner of the genesis stake and evm_1 have, and the contract
after_genesis_stake ==
    check(<<http_wallet_balance(1, "genesis", 100 * COIN), FORGER_STAKE_balance(1, Stake1 + Stake2),
            http_wallet_balance(1, "evm_1", 500 * COIN - Stake1 - Stake2 - 6 * EVM_FEE)>>)

\* Node 1 forges until the second epoch after it has none.
evm_forger_genesis == <<
    forged(spendForgingStake(1, "stake_id_genesis", "tx_hash"), 1, FALSE, 1), after_genesis_stake,
    generate_next_block_in_next_epoch(1, ""), sc_sync_all(Nodes12), generate_next_block(1, ""), sc_sync_all(Nodes12),
    NextBlock(1, "", TRUE, TRUE), check(<<allForgingStakes(1, 2)>>), after_genesis_stake,
    read_list(StakeIds(1, "", FALSE), "stakes"), slice("stakes", 1, 1, "stake_id_1"), slice("stakes", 2, 2, "stake_id_2") >>

\* The first key that can pays the fees, the one of the genesis stake.
evm_forger_none == <<
    read([get |-> "balance", node |-> 1, owner |-> "evm_1"], "balance"),
    forged(spendForgingStake(1, "stake_id_1", "tx_hash"), 2, TRUE, 1),
    check(<<allForgingStakes(1, 1), EqPlus([get |-> "balance", node |-> 1, owner |-> "evm_1"], "balance", Stake1)>>),
    forged(spendForgingStake(1, "stake_id_2", "tx_hash"), 2, TRUE, 1),
    check(<<allForgingStakes(1, 0), EqPlus([get |-> "balance", node |-> 1, owner |-> "evm_1"], "balance", Stake1 + Stake2)>>),
    generate_next_block(2, ""), sc_sync_all(Nodes12), NextBlock(2, "", TRUE, TRUE), sc_sync_all(Nodes12) >>

sc_evm_forger ==
    Test(AccountChainSetup(2, LARGE_WITHDRAWAL_EPOCH_LENGTH),
         evm_forger_funds \o evm_forger_contracts \o evm_forger_stakes \o evm_forger_genesis \o evm_forger_none)

----------------------------------------------------------------------------
(* sc_evm_forger_v2: the storage of the stakes is upgraded. Estimates of   *)
(* gas and the calls by another contract are left out.                     *)

\* The stakes before the upgrade: owner and amount
StakesBefore == << <<"evm_1", 2>>, <<"evm_2", 1>>, <<"evm_2", 6>>, <<"evm_3", 2>>, <<"evm_2", 1>>, <<"evm_4", 3>>,
                   <<"evm_3", 3>>, <<"evm_5", 1>> >>
Owners == <<"evm_1", "evm_2", "evm_3", "evm_4", "evm_5">>
Amounts == <<2 * COIN, 8 * COIN, 5 * COIN, 3 * COIN, COIN>>

v2_stakes == <<
    wallet_createPrivateKey25519(2, "evm_2"), sc_send(1, <<ZenTo("evm_2", 500 * COIN)>>), time_sleep,
    wallet_createPrivateKey25519(1, "evm_1"), forward_transfer_to_sidechain(1, "evm_1", 1000 * COIN, ""),
    generate_next_block(1, ""), sc_sync_all(Nodes12), wallet_createPrivateKey25519(2, "sign_2"),
    wallet_createPrivateKey25519(1, "evm_3"), wallet_createPrivateKey25519(2, "evm_4"), wallet_createPrivateKey25519(1, "evm_5"),
    in_block(Flat([i \in 1 .. 8 |-> StakeWithNonce(1, StakesBefore[i][1], "genesis", StakesBefore[i][2] * COIN, i - 1)]), 1, FALSE),
    check(<<allForgingStakes(1, 9)>>), read_list(StakeIds(1, "", FALSE), "orig"), read_list(StakeIds(1, "", TRUE), "reversed"),
    slice("orig", 1, 1, "genesis_stake"),
    Flat([i \in 1 .. 5 |-> read_list(StakeIds(1, Owners[i], TRUE), Owners[i])]),
    slice("evm_2", 1, 2, "evm_2_first"), slice("evm_2", 3, 3, "evm_2_last") >>

\* The new commands fail before the fork and before the upgrade.
v2_upgrade == <<
    check(<<page_fails(1, "evm_1", 0, 1, "op code not supported"), stakeOf_fails(1, "evm_1", "op code not supported"),
            upgrade_fails(1, "op code not supported")>>),
    advance(V1_3_EPOCH - 2), check(<<consensus_epoch(1, V1_3_EPOCH)>>),
    check(<<page_fails(1, "evm_1", 0, 1, "Forger stake storage not upgraded yet"),
            stakeOf_fails(1, "evm_1", "Forger stake storage not upgraded yet"), upgrade_fails(1, "")>>),
    upgrade(1, "evm_1", "tx_hash"), generate_next_block(1, ""), check(<<receipt_status(1, "tx_hash", 1)>>),
    check(<<EqLists(StakeIds(1, "", FALSE), <<"reversed">>)>>) >>

v2_pages == <<
    page_is(1, "evm_1", 0, 2, -1, <<"evm_1">>), page_is(1, "evm_2", 0, 2, 2, <<"evm_2_first">>),
    page_is(1, "evm_2", 2, 2, -1, <<"evm_2_last">>), page_is(1, "evm_3", 0, 2, -1, <<"evm_3">>),
    page_is(1, "evm_4", 0, 2, -1, <<"evm_4">>), page_is(1, "evm_5", 0, 2, -1, <<"evm_5">>),
    check([i \in 1 .. 5 |-> stakeOf(1, Owners[i], Amounts[i])]) >>

v2_refused == <<
    spendForgingStake_refused(2, "evm_1"), in_block(stake_for(WITHDRAWAL_REQ, Stake1), 1, FALSE),
    EvmDeploy(1, "evm_1", "SimpleProxyContract", "proxy"), generate_next_block(1, ""), sc_sync_all(Nodes12),
    generate_next_block(1, ""), sc_sync_all(Nodes12),
    forged(stake_for("SimpleProxyContract", Stake1), 1, FALSE, 0) >>

\* What evm_1 has after the first stake for node 2, and the second one
V2Balance == (1000 - 19) * COIN - Stake1 - 13 * EVM_FEE
V2Stake2 == V2Balance - (COIN \div 100) - Stake1 - EVM_FEE

v2_new_stakes == <<
    forged(stake_for("evm_1", Stake1), 1, FALSE, 1), check(<<allForgingStakes(1, 10), http_wallet_balance(1, "evm_1", V2Balance)>>),
    forged(stake_for("evm_1", V2Stake2), 1, FALSE, 1),
    check(<<allForgingStakes(1, 11), http_wallet_balance(1, "evm_1", V2Balance - V2Stake2 - EVM_FEE)>>),
    read_list(StakeIds(1, "", FALSE), "latest"),
    NextBlock(2, "", FALSE, TRUE), sc_sync_all(Nodes12), generate_next_block_in_next_epoch(1, ""), sc_sync_all(Nodes12),
    NextBlock(2, "", FALSE, TRUE), sc_sync_all(Nodes12), generate_next_block_in_next_epoch(1, ""), sc_sync_all(Nodes12),
    generate_next_block(2, ""), sc_sync_all(Nodes12), check(<<FORGER_STAKE_balance(1, 119 * COIN + Stake1 + V2Stake2)>>),
    read_list(StakeIds(1, "evm_1", FALSE), "evm_1"), slice("evm_1", 1, 2, "evm_1_first"), slice("evm_1", 3, 3, "evm_1_last"),
    page_is(1, "evm_1", 0, 2, 2, <<"evm_1_first">>), page_is(1, "evm_1", 2, 2, -1, <<"evm_1_last">>),
    check(<<stakeOf(1, "evm_1", 2 * COIN + Stake1 + V2Stake2)>>) >>

\* The last stake takes the place of the one that is removed.
v2_genesis_spent == <<
    in_block(spendForgingStake(1, "genesis_stake", "tx_hash"), 1, FALSE),
    check(<<http_wallet_balance(1, "genesis", 100 * COIN), FORGER_STAKE_balance(1, 19 * COIN + Stake1 + V2Stake2),
            http_wallet_balance(1, "evm_1", V2Balance - V2Stake2 - 2 * EVM_FEE)>>),
    slice("latest", 1, 8, "first8"), slice("latest", 10, 10, "l10"), slice("latest", 11, 11, "l11"),
    check(<<EqLists(StakeIds(1, "", FALSE), <<"first8", "l11", "l10">>)>>),
    page_is(1, "genesis", 0, 2, -1, <<>>), check(<<stakeOf(1, "genesis", 0)>>) >>

\* The first eight stakes, those of evm_2 and evm_4 by node 2
v2_spent == <<
    read_list(StakeIds(1, "", FALSE), "latest"),
    Flat([i \in 1 .. 8 |-> slice("latest", i, i, "stake_id") \o
             in_block(spendForgingStake(IF i \in {3, 4, 6, 7} THEN 2 ELSE 1, "stake_id", ""), 1, FALSE)]),
    check(<<allForgingStakes(1, 2)>>), read_list(StakeIds(1, "", FALSE), "latest"),
    generate_next_block_in_next_epoch(2, ""), generate_next_block_in_next_epoch(2, ""), sc_sync_all(Nodes12), NextBlock(1, "", FALSE, TRUE) >>

v2_last_stakes == <<
    slice("latest", 1, 1, "first"), slice("latest", 2, 2, "second"),
    forged(spendForgingStake(1, "first", "tx_hash"), 2, TRUE, 1), check(<<allForgingStakes(1, 1)>>),
    page_is(1, "evm_1", 0, 2, -1, <<"second">>), check(<<stakeOf(1, "evm_1", V2Stake2)>>),
    in_block(spendForgingStake(1, "second", "tx_hash"), 2, TRUE), check(<<allForgingStakes(1, 0)>>),
    page_is(1, "evm_1", 0, 2, -1, <<>>), check(<<stakeOf(1, "evm_1", 0)>>) >>

sc_evm_forger_v2 ==
    Test([AccountChainSetup(2, LARGE_WITHDRAWAL_EPOCH_LENGTH) EXCEPT !.prompt = TRUE],
         v2_stakes \o v2_upgrade \o v2_pages \o v2_refused \o v2_new_stakes \o v2_genesis_spent \o v2_spent \o v2_last_stakes)

----------------------------------------------------------------------------
(* sc_evm_forger_stakes_pager. NUM_OF_STAKES is 9 for 51, and a block has  *)
(* at most NUM_OF_STAKE_TXES of them, 8 for 50. The calls of the contract  *)
(* by another contract are left out.                                       *)

NUM_OF_STAKES == 9
NUM_OF_STAKE_TXES == 8

\* A page of the contract of node 2 and of the API of node 1
page_of(start, size, next, label) ==
    page_is(2, "", start, size, next, <<label>>)
    \o check(<<http_page(1, start, size, <<"", next>>), EqLists(PageQuery("page_ids", 1, "", start, size), <<label>>)>>)

\* The genesis stake and the new ones in pages of a size
all_pages(size) ==
    Flat([i \in 1 .. (NUM_OF_STAKES + size) \div size |->
             slice("stakes", 1 + ((i - 1) * size), Min({i * size, NUM_OF_STAKES + 1}), "page")
             \o page_of((i - 1) * size, size, IF i * size >= NUM_OF_STAKES + 1 THEN -1 ELSE i * size, "page")])

invalid_page(start, size) ==
    check(<<page_fails(2, "", start, size, "invalid page"), http_page(1, start, size, <<"invalid page", 0>>)>>)

pager_upgrade == <<
    wallet_createPrivateKey25519(1, "evm_1"), wallet_createPrivateKey25519(2, "evm_2"),
    forward_transfer_to_sidechain(1, "evm_1", 100 * COIN, ""), forward_transfer_to_sidechain(1, "evm_2", 100 * COIN, ""),
    generate_next_block(1, ""), sc_sync_all(Nodes12),
    check(<<page_fails(2, "", 0, 10, "op code not supported"), http_page(1, 0, 10, <<"can not invoke", 0>>)>>),
    advance(V1_3_EPOCH - 2), check(<<consensus_epoch(1, V1_3_EPOCH)>>),
    check(<<page_fails(2, "", 0, 10, "Forger stake storage not upgraded yet"), http_page(1, 0, 10, <<"invalid page", 0>>)>>),
    upgrade(2, "evm_2", ""), generate_next_block(1, "") >>

pager_stakes == <<
    wallet_createPrivateKey25519(2, "sign_2"),
    Flat([i \in 1 .. NUM_OF_STAKES |->
             StakeWithNonce(1, "evm_1", "sign_2", 100, i - 1)
             \o (IF (i - 1) % NUM_OF_STAKE_TXES = 0 THEN generate_next_block(1, "") \o sc_sync_all(Nodes12) ELSE <<>>)]),
    generate_next_block(1, ""), sc_sync_all(Nodes12) >>

pager_pages == <<
    read_list(StakeIds(1, "", FALSE), "stakes"), all_pages(NUM_OF_STAKES + 1), all_pages(NUM_OF_STAKES \div 3), all_pages(1),
    invalid_page(2 * NUM_OF_STAKES, 10), invalid_page(0, -2), invalid_page(0, 0) >>

sc_evm_forger_stakes_pager ==
    Test([AccountChainSetup(2, LARGE_WITHDRAWAL_EPOCH_LENGTH) EXCEPT !.forward_amount = 99 * COIN, !.prompt = TRUE],
         pager_upgrade \o pager_stakes \o pager_pages)
=============================================================================
