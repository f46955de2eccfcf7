--------------------------- MODULE CertificateTests ---------------------------
(***************************************************************************)
(* Tests of withdrawal epochs: backward transfers, certificates and the    *)
(* nodes that sign and submit them.                                        *)
(***************************************************************************)
EXTENDS TestSteps

Epochs(length, scNodes, amount) == Network(1, {}, scNodes, amount * COIN, length)

\* A node with its submitter and its signer on or off and the keys ks.
CertNode(submits, signs, ks) ==
    [SCNodeConfiguration(1) EXCEPT !.cert_submitter_enabled = submits, !.cert_signing_enabled = signs,
                                   !.submitter_private_keys = ks]

NonCeasing(test) == [test EXCEPT !.setup.non_ceasing = TRUE]

\* The mainchain reaches the end of the epoch, and then its next block; node n
\* makes a block after each.
next_epoch(n, left, end, scEnd, first, scFirst) ==
    generate(1, left, end) \o generate_next_block(n, scEnd)
    \o check(<<check_mcreferencedata_presence(n, scEnd, {end})>>)
    \o generate(1, 1, first) \o generate_next_block(n, scFirst)
    \o check(<<check_mcreference_presence(n, scFirst, {first})>>)

\* The certificate arrives, a new block does not start another one, the
\* certificate is mined and referenced.
certificate_cycle(n, epoch, end, payments) ==
    wait_for_certificates(1, 1, {n}) \o check(<<mc_mempool_size(1, 1)>>)
    \o generate_next_block(n, "extra") \o submitter_inactive(n)
    \o mempool_certificate(1, epoch, end, payments, "cert")
    \o generate(1, 1, "mc_cert") \o mined_certificate(1, "mc_cert", "cert")
    \o generate_next_block(n, "sc_cert") \o check(<<check_mcreference_presence(n, "sc_cert", {"mc_cert"})>>)
    \o submitter_inactive(n)
    \o top_certificate(n, "sc_cert", epoch, end, payments, "cert")

TenKeys == [Epochs(10, <<CertNode(TRUE, TRUE, 1 .. 10)>>, 1000)
            EXCEPT !.cert_max_keys = 10, !.cert_sig_threshold = 6]

genesis_checks(amount) ==
    check(<<check_mcreference_presence(1, "genesis", {"creation"}),
            check_wallet_coins_balance(1, amount), check_box_balance(1, "genesis", "ForgerBox", 1, amount)>>)

sc_backward_transfer_epoch0 == <<
    genesis_checks(1000 * COIN),
    wallet_createPrivateKey25519(1, "sc_address"),
    sc_send(1, <<ZenTo("sc_address", 10 * COIN)>>), check(<<mc_mempool_size(1, 1)>>),
    generate(1, 1, "mc1"), generate_next_block(1, "sc1"),
    check(<<check_mcreference_presence(1, "sc1", {"mc1"}), check_wallet_coins_balance(1, 1010 * COIN),
            check_box_balance(1, "sc_address", "ZenBox", 1, 10 * COIN)>>),
    next_epoch(1, 8, "we0_end", "sc2", "we1_1", "sc3"),
    certificate_cycle(1, 0, "we0_end", <<>>) >>

TwoTransfers == << <<"mc_address1", 7 * COIN>>, <<"mc_address2", 3 * COIN>> >>

\* The second of two equal requests has no coins left and is refused.
sc_backward_transfer_epoch1 == <<
    withdrawCoins(1, <<RequestTo("mc_address1", 7 * COIN)>>, 0, ""), generate_next_block(1, ""),
    withdrawCoins(1, <<RequestTo("mc_address2", 3 * COIN)>>, 0, ""),
    Send(1, <<RequestTo("mc_address2", 3 * COIN)>>, 0, "", TRUE), generate_next_block(1, ""),
    next_epoch(1, 8, "we1_end", "sc_we1_end", "we2_1", "sc_we2_1"),
    certificate_cycle(1, 1, "we1_end", TwoTransfers) >>

sc_backward_transfer == Test(TenKeys, sc_backward_transfer_epoch0 \o sc_backward_transfer_epoch1)
sc_backward_transfer_nonceasing == NonCeasing(sc_backward_transfer)

sc_ceased_run_test == <<
    generate(1, 9, ""), generate_next_block(1, ""),
    generate(1, 1, ""), check(<<sc_state(1, "ALIVE")>>), generate_next_block(1, ""),
    generate(1, 1, "mc"), check(<<sc_state(1, "CEASED")>>), generate_next_block(1, "sc"),
    check(<<check_mcreference_presence(1, "sc", {"mc"}), hasCeased(1, TRUE)>>),
    NextBlock(1, "", FALSE, TRUE) >>

sc_ceased == Test(Epochs(10, <<CertNode(FALSE, TRUE, 1 .. 7)>>, 100), sc_ceased_run_test)

sc_withdrawal_epoch_last_block_run_test == <<
    forward_transfer_to_sidechain(1, "genesis", 100 * COIN, "mc1"), generate_next_block(1, ""),
    check(<<in_best_block(1, "mc1", TRUE), best_reference_is(1, "mc1", TRUE)>>),
    generate(1, 2, ""), generate_next_block(1, ""),
    forward_transfer_to_sidechain(1, "genesis", 100 * COIN, "mc_last"),
    sendCoinsToAddress(1, "genesis", 100 * COIN - 10, 10, "tx"), check(<<mempool_is(1, 1)>>),
    generate_next_block(1, "sc_last"),
    check(<<no_transactions(1, "sc_last"), in_best_block(1, "mc_last", TRUE),
            best_reference_is(1, "mc_last", TRUE), mempool_is(1, 1)>>) >>

sc_withdrawal_epoch_last_block ==
    Test(Epochs(5, <<SCNodeConfiguration(1)>>, 100), sc_withdrawal_epoch_last_block_run_test)
----------------------------------------------------------------------------
(* References that wait for later mainchain blocks *)

sc_backward_transfer_delay_epoch0 == <<
    genesis_checks(1000 * COIN),
    wallet_createPrivateKey25519(1, "sc_address"),
    sc_send(1, <<ZenTo("sc_address", 10 * COIN)>>), check(<<mc_mempool_size(1, 1)>>),
    generate(1, 2, "mc"), slice("mc", 1, 1, "mc1"), generate_next_block(1, "sc1"),
    check(<<check_mcreference_presence(1, "sc1", {"mc1"}), check_wallet_coins_balance(1, 1010 * COIN),
            check_box_balance(1, "sc_address", "ZenBox", 1, 10 * COIN)>>),
    generate(1, 17, "we0_end"),
    generate(1, 1, "we1_1"), generate_next_block(1, "sc2"),
    check(<<check_mcreferencedata_presence(1, "sc2", {"we0_end"})>>),
    generate(1, 1, ""), generate_next_block(1, "sc3"),
    check(<<check_mcreference_presence(1, "sc3", {"we1_1"})>>),
    wait_for_certificates(1, 1, {1}), check(<<mc_mempool_size(1, 1)>>),
    generate_next_block(1, ""), submitter_inactive(1),
    mempool_certificate(1, 0, "we0_end", <<>>, "cert"),
    generate(1, 1, "we1_3"), mined_certificate(1, "we1_3", "cert"), generate_next_block(1, ""),
    generate(1, 1, ""), generate_next_block(1, "sc5"),
    check(<<check_mcreference_presence(1, "sc5", {"we1_3"})>>), submitter_inactive(1),
    top_certificate(1, "sc5", 0, "we0_end", <<>>, "cert") >>

sc_backward_transfer_delay_epoch1 == <<
    withdrawCoins(1, <<RequestTo("mc_address1", 7 * COIN)>>, 0, ""), generate_next_block(1, ""),
    withdrawCoins(1, <<RequestTo("mc_address2", 3 * COIN)>>, 0, ""),
    Send(1, <<RequestTo("mc_address2", 3 * COIN)>>, 0, "", TRUE), generate_next_block(1, ""),
    generate(1, 16, "we1"), slice("we1", 16, 16, "we1_end"), generate_next_block(1, ""),
    generate(1, 1, "we2_1"), generate_next_block(1, "sc_we1_end"),
    check(<<check_mcreferencedata_presence(1, "sc_we1_end", {"we1_end"})>>),
    generate(1, 1, ""), generate_next_block(1, "sc_we2_1"),
    check(<<check_mcreference_presence(1, "sc_we2_1", {"we2_1"})>>),
    wait_for_certificates(1, 1, {1}), check(<<mc_mempool_size(1, 1)>>),
    generate_next_block(1, ""), submitter_inactive(1),
    mempool_certificate(1, 1, "we1_end", TwoTransfers, "cert"),
    generate(1, 1, "we2_3"), mined_certificate(1, "we2_3", "cert"),
    generate_next_block(1, ""), submitter_inactive(1),
    generate(1, 1, ""), generate_next_block(1, "sc_cert"),
    check(<<check_mcreference_presence(1, "sc_cert", {"we2_3"})>>),
    top_certificate(1, "sc_cert", 1, "we1_end", TwoTransfers, "cert") >>

sc_backward_transfer_with_mc_block_delay ==
    Test([TenKeys EXCEPT !.withdrawal_epoch_length = 20, !.sc_nodes[1].delay = 1],
         sc_backward_transfer_delay_epoch0 \o sc_backward_transfer_delay_epoch1)

----------------------------------------------------------------------------
(* Several nodes that submit or sign *)

All == 1 .. 7

sc_multiple_certs_epoch0 == <<
    connect_sc_nodes(1, 2),
    wallet_createPrivateKey25519(2, "sc_address"), mc_make_forward_transfer(1, "sc_address", 120 * COIN, "mc_ft"),
    generate_next_block(1, "sc1"), check(<<check_mcreference_presence(1, "sc1", {"mc_ft"})>>), sc_sync_all({1, 2}),
    sc_create_forging_stake_mempool(2, "forger2", 100 * COIN), sc_sync_all({1, 2}),
    generate_next_block(1, ""), generate_next_block_in_next_epoch(1, ""), sc_sync_all({1, 2}),
    generate_next_block_in_next_epoch(2, ""), sc_sync_all({1, 2}),
    generate(1, 12, ""), generate_next_block(1, ""), sc_sync_all({1, 2}),
    disconnect_sc_nodes(1, 2),
    withdrawCoins(2, <<RequestTo("mc_address", 20 * COIN)>>, 0, ""), generate_next_block(2, ""),
    generate(1, 2, ""), generate_next_blocks(2, <<"", "">>), sleep_until_idle({2}) >>

\* The certificate of node 1 is the better one and does not match the chain of
\* node 2, which cannot go on.
sc_multiple_certs_epoch1 == <<
    generate_next_blocks(1, <<"", "">>),
    wait_for_certificates(1, 2, {1, 2}), check(<<mc_mempool_size(1, 2)>>),
    generate_next_block(1, ""), submitter_inactive(1),
    generate(1, 1, "mc_certs"), check(<<mc_mempool_size(1, 0), certs_in_block(1, "mc_certs", 2)>>),
    generate_next_block(1, ""), generate_next_block(2, ""),
    generate(1, 1, ""), generate_next_block(1, ""), NextBlock(2, "", FALSE, TRUE),
    generate_next_block(1, ""),
    connect_sc_nodes(1, 2), sync_sc_blocks({1, 2}), check(<<same_best(1, 2)>>) >>

sc_multiple_certs == Test(Epochs(15, <<CertNode(TRUE, TRUE, All), CertNode(TRUE, TRUE, 1 .. 6)>>, 100),
                          sc_multiple_certs_epoch0 \o sc_multiple_certs_epoch1)

\* NUM_BLOCKS, 2000 in the test
BlocksToSync == 6

sc_cert_submitter_after_sync_1_run_test == <<
    generate_next_blocks(1, [i \in 1 .. BlocksToSync |-> ""]),
    connect_sc_nodes(1, 2), sync_sc_blocks({1, 2}),
    generate(1, 8, ""), generate_next_block(1, ""), sc_sync_all({1, 2}),
    generate(1, 2, ""), generate_next_blocks(1, <<"", "">>), sc_sync_all({1, 2}),
    wait_for_certificates(1, 1, {2}), check(<<mc_mempool_size(1, 1)>>) >>

sc_cert_submitter_after_sync_1 ==
    Test(Epochs(10, <<CertNode(FALSE, TRUE, {1, 2, 3}), CertNode(TRUE, TRUE, {4, 5, 6})>>, 1000),
         sc_cert_submitter_after_sync_1_run_test)

\* CYCLES and the number of blocks without references are 10 and 300 in the test,
\* with epochs of 100 blocks; they take longer than a submission that was begun
\* in the epoch before.
CYCLES == 3

do_cert_cycle(forger, submitter, left, additional) ==
    Flat([i \in 1 .. left - 1 |-> generate(1, 1, "") \o generate_next_block(forger, "")])
    \o generate_next_blocks(forger, [i \in 1 .. additional |-> ""]) \o sleep_until_idle({submitter})
    \o generate(1, 2, "") \o generate_next_blocks(forger, <<"", "">>)
    \o wait_for_certificates(1, 1, {submitter}) \o check(<<mc_mempool_size(1, 1)>>)

sc_cert_submitter_after_sync_2_run_test == <<
    Flat([i \in 1 .. CYCLES |-> do_cert_cycle(1, 1, 9, 3)]),
    connect_sc_nodes(1, 2), time_sleep, check(<<isCertificateSubmitterEnabled(2, TRUE)>>), sync_sc_blocks({1, 2}),
    disableCertificateSubmitter(1), do_cert_cycle(1, 2, 9, 2), time_sleep >>

sc_cert_submitter_after_sync_2 ==
    Test(Epochs(10, <<CertNode(TRUE, TRUE, 1 .. 5), CertNode(TRUE, TRUE, 5 .. 7)>>, 100),
         sc_cert_submitter_after_sync_2_run_test)

\* Two nodes make the same certificate: one sends it, the other finds it (the
\* messages in their logs).
one_sends ==
    wait_for_certificates(1, 1, {1, 2}) \o check(<<mc_mempool_size(1, 1)>>)
    \o sleep_until_idle({1, 2}) \o check(<<Eq([get |-> "one_sent"], TRUE)>>)

sc_multiple_cert_submitters_run_test == <<
    check(<<isCertificateSubmitterEnabled(1, TRUE), isCertificateSubmitterEnabled(2, TRUE)>>),
    connect_sc_nodes(1, 2),
    generate(1, 1, "mc0"), generate_next_block(1, "sc0"),
    check(<<check_mcreferencedata_presence(1, "sc0", {"mc0"})>>),
    next_epoch(1, 8, "we0_end", "sc1", "we1_1", "sc2"), one_sends >>

sc_multiple_cert_submitters ==
    Test(Epochs(10, <<SCNodeConfiguration(1), SCNodeConfiguration(1)>>, 100), sc_multiple_cert_submitters_run_test)

sc_evm_multiple_cert_submitters_run_test == <<
    sc_ac_setup({1, 2}, 10 * COIN), connect_sc_nodes(1, 2),
    check(<<http_wallet_balance(1, "evm_address", 10 * COIN)>>),
    next_epoch(1, 8, "we0_end", "sc2", "we1_1", "sc3"), one_sends >>

sc_evm_multiple_cert_submitters ==
    Test([AccountChainSetup(2, 10) EXCEPT !.non_ceasing = TRUE,
             !.sc_nodes = <<CertNode(TRUE, TRUE, {1, 2, 3}), CertNode(TRUE, TRUE, {4, 5, 6})>>],
         sc_evm_multiple_cert_submitters_run_test)
\* A new block without references is not asked for here.
certificate_is_mined(n, hash) ==
    generate(1, 1, "mc_cert") \o mined_certificate(1, "mc_cert", hash)
    \o generate_next_block(n, "sc_cert") \o check(<<check_mcreference_presence(n, "sc_cert", {"mc_cert"})>>)

sc_cert_submission_decentralization_epoch0 == <<
    connect_sc_nodes(1, 2), connect_sc_nodes(3, 2), connect_sc_nodes(4, 3), sc_sync_all(1 .. 4),
    check(<<peer_count(1, 1), peer_count(2, 2), peer_count(3, 2), peer_count(4, 1),
            isCertificateSubmitterEnabled(1, TRUE), isCertificateSignerEnabled(1, TRUE),
            isCertificateSubmitterEnabled(2, FALSE), isCertificateSignerEnabled(2, TRUE),
            isCertificateSubmitterEnabled(3, FALSE), isCertificateSignerEnabled(3, FALSE),
            isCertificateSubmitterEnabled(4, FALSE), isCertificateSignerEnabled(4, TRUE)>>),
    next_epoch(1, 9, "we0_end", "sc2", "we1_1", "sc3"),
    wait_for_certificates(1, 1, {1}), check(<<mc_mempool_size(1, 1)>>), read(PoolCert(1, "id"), "cert"),
    certificate_is_mined(1, "cert"), check(<<Eq(TopCert(1, "sc_cert", "quality"), 7)>>) >>

\* Without the signatures of node 4 there are not enough of them.
sc_cert_submission_decentralization_epoch1 == <<
    disconnect_sc_nodes(3, 4), check(<<peer_count(1, 1), peer_count(2, 2), peer_count(3, 1), peer_count(4, 0)>>),
    next_epoch(1, 8, "we1_end", "sc5", "we2_1", "sc6"),
    wait_for_certificates(1, 1, {1}), check(<<mc_mempool_size(1, 0)>>),
    connect_sc_nodes(3, 4), sc_sync_all(1 .. 4),
    wait_for_certificates(1, 1, {1}), check(<<mc_mempool_size(1, 1)>>), read(PoolCert(1, "id"), "cert"),
    certificate_is_mined(1, "cert"), check(<<Eq(TopCert(1, "sc_cert", "quality"), 7)>>) >>

sc_cert_submission_decentralization ==
    Test(Epochs(10, <<CertNode(TRUE, TRUE, {1, 2}), CertNode(FALSE, TRUE, {3, 4}),
                      CertNode(FALSE, FALSE, 1 .. 7), CertNode(FALSE, TRUE, {5, 6, 7})>>, 1000),
         sc_cert_submission_decentralization_epoch0 \o sc_cert_submission_decentralization_epoch1)

\* The fees of the certificates are left out.
sc_cert_fee_conf_run_test == <<
    connect_sc_nodes(1, 2),
    check(<<isCertificateSubmitterEnabled(1, TRUE), isCertificateSubmitterEnabled(2, FALSE)>>),
    next_epoch(1, 9, "we0_end", "sc2", "we1_1", "sc3"),
    wait_for_certificates(1, 1, {1}), mempool_certificate(1, 0, "we0_end", <<>>, "cert"),
    certificate_is_mined(1, "cert"),
    disableCertificateSubmitter(1), enableCertificateSubmitter(2),
    check(<<isCertificateSubmitterEnabled(1, FALSE), isCertificateSubmitterEnabled(2, TRUE)>>),
    generate(1, 8, "we1_end"), generate_next_blocks(1, <<"", "", "">>),
    generate(1, 1, "we2_1"), generate_next_block(1, "sc4"), check(<<check_mcreference_presence(1, "sc4", {"we2_1"})>>),
    wait_for_certificates(1, 1, {2}), mempool_certificate(1, 1, "we1_end", <<>>, "cert") >>

sc_cert_fee_conf ==
    Test([Epochs(10, <<CertNode(TRUE, TRUE, 1 .. 7), CertNode(FALSE, TRUE, 1 .. 7)>>, 100) EXCEPT !.in_a_hurry = TRUE],
         sc_cert_fee_conf_run_test)

\* mc 2 has a certificate; the coins that pay for it are left out.
second_submits(left) ==
    generate(1, left, "") \o generate_next_block(1, "") \o sc_sync_all({1, 2})
    \o generate(1, 1, "we_1") \o generate_next_block(1, "sc3") \o check(<<check_mcreference_presence(1, "sc3", {"we_1"})>>)
    \o sync_nodes({1, 2}) \o wait_for_certificates(2, 1, {2}) \o check(<<mc_mempool_size(2, 1)>>)

sc_cert_no_coin_record_run_test == <<
    connect_nodes_bi(1, 2), sync_nodes({1, 2}),
    sendtoaddress(1), generate(1, 1, ""), sync_nodes({1, 2}),
    connect_sc_nodes(1, 2), second_submits(13),
    sync_nodes({1, 2}), generate(1, 1, ""), sync_nodes({1, 2}),
    sendtoaddress(2), generate(1, 1, ""), sync_nodes({1, 2}),
    second_submits(12) >>

sc_cert_no_coin_record ==
    Test([Epochs(15, <<CertNode(FALSE, TRUE, {1}), [CertNode(TRUE, TRUE, 1 .. 7) EXCEPT !.mc = 2]>>, 100)
          EXCEPT !.mc_nodes = 2, !.in_a_hurry = TRUE],
         sc_cert_no_coin_record_run_test)

\* Three sidechains of other versions are created in the mainchain and get a
\* certificate each.
sc_versions_and_mc_certs_run_test == <<
    sendtoaddress(1), sendtoaddress(1), sendtoaddress(1), check(<<mc_mempool_size(1, 3)>>),
    generate(1, 1, "mc1"), generate_next_block(1, "sc1"), check(<<check_mcreference_presence(1, "sc1", {"mc1"})>>),
    next_epoch(1, 8, "we0_end", "sc2", "we1_1", "sc3"),
    wait_for_certificates(1, 1, {1}), check(<<mc_mempool_size(1, 1)>>), read(PoolCert(1, "id"), "cert"),
    alien_certificate(1), alien_certificate(1), alien_certificate(1),
    generate(1, 1, "mc_cert"),
    check(<<mc_mempool_size(1, 0), mc_block_txs(1, "mc_cert", 1), certs_in_block(1, "mc_cert", 4)>>),
    generate_next_block(1, "sc_cert"), check(<<check_mcreference_presence(1, "sc_cert", {"mc_cert"})>>),
    top_certificate(1, "sc_cert", 0, "we0_end", <<>>, "cert") >>

sc_versions_and_mc_certs == Test(Epochs(10, <<SCNodeConfiguration(1)>>, 100), sc_versions_and_mc_certs_run_test)

sc_cert_submitter_secure_enclave_run_test == <<
    generate(1, 8, ""), generate_next_block(1, ""), generate(1, 2, ""), generate_next_blocks(1, <<"", "">>),
    wait_for_certificates(1, 1, {1}), check(<<mc_mempool_size(1, 1), Eq(PoolCert(1, "quality"), 46)>>) >>

\* The keys of the enclave are as good as those of the node.
sc_cert_submitter_secure_enclave ==
    Test([Epochs(10, <<CertNode(TRUE, TRUE, {1, 2, 3} \cup 5 .. 47)>>, 100)
          EXCEPT !.cert_max_keys = 47, !.cert_sig_threshold = 5],
         sc_cert_submitter_secure_enclave_run_test)

----------------------------------------------------------------------------
(* Certificates that are late *)

wait_for_cert_to_appear_in_mc ==
    wait_for_certificates(1, 1, {1}) \o check(<<mc_mempool_size(1, 1)>>) \o read(PoolCert(1, "id"), "cert")

in_first_block(count) ==
    generate(1, count, "mc") \o sync_nodes({1, 2}) \o slice("mc", 1, 1, "mc_cert")
    \o check(<<certs_in_block(1, "mc_cert", 1), EqRef(MinedCert("mc_cert", "id"), "cert")>>)

headers_of(b, size) == Eq([get |-> "header_count", node |-> 1, block |-> b], size)

mainchain_disconnected == <<
    connect_nodes_bi(1, 2), check(<<isCertificateSubmitterEnabled(1, TRUE), get_withdrawal_epoch(1, 0)>>),
    generate(1, 9, "mc"), sync_nodes({1, 2}), check(<<best_is(1, "mc"), best_is(2, "mc")>>),
    generate_next_block(1, "sc"), check(<<headers_of("sc", 9)>>),
    generate(1, 1, ""), sync_nodes({1, 2}), generate_next_block(1, ""), check(<<get_withdrawal_epoch(1, 1)>>),
    wait_for_cert_to_appear_in_mc, in_first_block(10),
    generate_next_blocks(1, <<"", "", "", "", "">>), check(<<get_withdrawal_epoch(1, 2)>>),
    disconnect_nodes_bi(1, 2),
    Flat([i \in 1 .. 3 |-> generate(2, 9, "") \o generate_next_block(1, "")
                           \o generate(2, 1, "") \o generate_next_block(1, "")]),
    check(<<Eq(OfNode("mc_height", 1), 22), Eq(OfNode("mc_height", 2), 52), get_withdrawal_epoch(1, 2)>>),
    generate_next_block(1, "sc"), check(<<headers_of("sc", 0)>>),
    connect_nodes_bi(1, 2), sync_nodes({1, 2}), check(<<Eq(OfNode("mc_height", 1), 52)>>) >>

\* One certificate for every epoch that passed, one after the other.
mainchain_connected_again == <<
    generate_next_block(1, "sc"), check(<<headers_of("sc", 30), get_withdrawal_epoch(1, 2)>>),
    generate(1, 10, "mc"), sync_nodes({1, 2}), check(<<Eq(OfNode("mined_certs", 1), 1)>>),
    generate_next_blocks(1, <<"", "", "", "", "">>), check(<<get_withdrawal_epoch(1, 6)>>),
    Flat([i \in 1 .. 5 |-> generate_next_blocks(1, <<"", "", "", "", "">>)
                           \o wait_for_cert_to_appear_in_mc \o in_first_block(1)]),
    generate(1, 9, "mc"), sync_nodes({1, 2}), check(<<best_is(1, "mc"), best_is(2, "mc")>>),
    generate_next_block(1, "sc"), check(<<headers_of("sc", 10)>>),
    generate(1, 1, ""), sync_nodes({1, 2}), generate_next_block(1, ""), check(<<get_withdrawal_epoch(1, 7)>>),
    wait_for_cert_to_appear_in_mc, in_first_block(1) >>

sc_withdrawal_certificate_after_mainchain_nodes_were_disconnected ==
    Test([Epochs(10, <<SCNodeConfiguration(1)>>, 600)
          EXCEPT !.mc_nodes = 2, !.non_ceasing = TRUE, !.in_a_hurry = TRUE],
         mainchain_disconnected \o mainchain_connected_again)

\* Half of the epoch, the requests, the other half; the references reach the
\* sidechain delay blocks later.
pass_withdrawal_epoch(before, after, delay, requests, txs) ==
    generate(1, before, "mc") \o slice("mc", before - delay, before - delay, "mc_tip") \o requests
    \o generate_next_block(1, "block")
    \o check(<<check_mcreferencedata_presence(1, "block", {"mc_tip"}), block_is(1, "block", txs)>>)
    \o generate(1, after, "mc") \o slice("mc", after - delay, after - delay, "mc_tip")
    \o generate_next_block(1, "block") \o check(<<check_mcreferencedata_presence(1, "block", {"mc_tip"})>>)

PowersOf2 == <<1, 2, 4, 8>>
RequestsOf(e) == [i \in 1 .. e |-> RequestTo("mc_dest_address", PowersOf2[i] * COIN)]

utxo_epoch(e, half, delay) ==
    pass_withdrawal_epoch(IF e = 0 THEN half - 2 + delay ELSE half, half, delay,
                          IF e = 0 THEN <<>> ELSE withdrawCoins(1, RequestsOf(e), 0, "wr"),
                          IF e = 0 THEN <<>> ELSE <<"wr">>)

wr_labels == <<"wr1", "wr2", "wr3", "wr4">>
evm_epoch(e, half, delay) ==
    pass_withdrawal_epoch(IF e = 0 THEN half - 2 + delay ELSE half, half, delay,
                          Flat([i \in 1 .. e |-> EvmWithdraw(1, "evm_address", <<RequestsOf(e)[i]>>, wr_labels[i], FALSE)]),
                          SubSeq(wr_labels, 1, e))

\* A pending certificate is published, which makes the next one possible; its
\* end is the block with the one before.
publish_pending(e, delay) ==
    wait_for_certificates(1, 1, {1})
    \o check(<<mc_mempool_size(1, 1), Eq(PoolCert(1, "epoch"), e), EqRef(PoolCert(1, "end"), "end")>>)
    \o generate(1, 1 + delay, "mc") \o slice("mc", 1, 1, "end") \o submitter_inactive(1)
    \o generate_next_block(1, "block") \o check(<<check_mcreferencedata_presence(1, "block", {"end"})>>)
    \o sc_sync_all({1, 2})

publish_all(delay, left, atEnd) ==
    connect_sc_nodes(1, 2) \o sc_sync_all({1, 2})
    \o Flat([i \in 1 .. 5 |-> publish_pending(i - 1, delay)])
    \o generate(1, left, "") \o generate_next_block(1, "") \o generate(1, 1, "") \o generate_next_block(1, "")
    \o wait_for_certificates(1, 1, {1}) \o read([get |-> "getblockhash", node |-> 1, height |-> atEnd], "end")
    \o check(<<mc_mempool_size(1, 1), Eq(PoolCert(1, "epoch"), 5), EqRef(PoolCert(1, "end"), "end")>>)

end_of_epoch0(length) == read([get |-> "getblockhash", node |-> 1, height |-> 1 + length], "end")

sc_multiple_pending_certs_run_test == <<
    forward_transfer_to_sidechain(1, "genesis", 132 * COIN, ""), generate_next_block(1, ""),
    utxo_epoch(0, 5, 0), end_of_epoch0(10),
    utxo_epoch(1, 5, 0), utxo_epoch(2, 5, 0), utxo_epoch(3, 5, 0), utxo_epoch(4, 5, 0),
    publish_all(0, 5, 1 + 6 * 10) >>

Pending == Epochs(10, <<CertNode(TRUE, TRUE, {1, 2, 3}), CertNode(FALSE, TRUE, {4, 5, 6})>>, 100)

sc_multiple_pending_certs_non_ceasing == NonCeasing(Test(Pending, sc_multiple_pending_certs_run_test))

sc_multiple_pending_certs_with_delay_run_test == <<
    forward_transfer_to_sidechain(1, "genesis", 132 * COIN, ""), generate_next_block(1, ""),
    utxo_epoch(0, 15, 4), end_of_epoch0(30),
    utxo_epoch(1, 15, 4), utxo_epoch(2, 15, 4), utxo_epoch(3, 15, 4), utxo_epoch(4, 15, 4),
    publish_all(4, 5, 1 + 6 * 30) >>

sc_multiple_pending_certs_non_ceasing_with_delay ==
    NonCeasing(Test([Pending EXCEPT !.withdrawal_epoch_length = 30, !.sc_nodes[1].delay = 4, !.sc_nodes[2].delay = 4],
                    sc_multiple_pending_certs_with_delay_run_test))

sc_evm_multiple_pending_certs_run_test == <<
    sc_ac_setup({1, 2}, 100 * COIN), generate_next_block(1, ""),
    evm_epoch(0, 5, 0), end_of_epoch0(10),
    evm_epoch(1, 5, 0), evm_epoch(2, 5, 0), evm_epoch(3, 5, 0), evm_epoch(4, 5, 0),
    publish_all(0, 5, 1 + 6 * 10) >>

sc_evm_multiple_pending_certs_non_ceasing ==
    NonCeasing(Test([AccountChainSetup(2, 10) EXCEPT !.sc_nodes = Pending.sc_nodes, !.in_a_hurry = TRUE, !.prompt = TRUE],
                    sc_evm_multiple_pending_certs_run_test))
----------------------------------------------------------------------------
(* Withdrawal requests: their number and their value *)

\* n requests of 10000 satoshi; 999, 300, 98 and 80 of the test are 9, 3, 1 and 1
\* here, with 39 instead of 3999 requests in an epoch.
withdrawMultiCoins(n, label) == withdrawCoins(1, [i \in 1 .. n |-> RequestTo("bt_address", 10000)], 0, label)

block_with(b, size) == generate_next_block(1, b) \o check(<<block_transactions(1, b, size)>>)

sc_bt_limit_epoch0 == <<
    check(<<consensus_epoch(1, 1)>>), wallet_createPrivateKey25519(1, "sc_address_1"),
    forward_transfer_to_sidechain(1, "sc_address_1", 1000 * COIN, ""), time_sleep, generate_next_block(1, ""),
    Send(1, [i \in 1 .. 10 |-> ZenTo("sc_address_1", 10 * COIN)], 0, "", FALSE), generate_next_block(1, ""),
    withdrawMultiCoins(9, ""), block_with("sc", 1),
    generate(1, 9, "mc"), slice("mc", 1, 1, "mc_first"), generate_next_block(1, "sc"),
    check(<<check_mcreferencedata_presence(1, "sc", {"mc_first"})>>) >>

\* The number of requests grows with the references of the epoch.
sc_bt_limit_epoch1 == <<
    generate(1, 1, ""), generate_next_block(1, ""),
    wait_for_certificates(1, 1, {1}), check(<<mc_mempool_size(1, 1)>>),
    generate(1, 1, ""), generate_next_block_in_next_epoch(1, ""), check(<<consensus_epoch(1, 3)>>),
    withdrawMultiCoins(9, ""), block_with("sc", 0),
    generate(1, 1, ""), block_with("sc", 1),
    withdrawMultiCoins(1, ""), block_with("sc", 1),
    withdrawMultiCoins(1, ""), withdrawMultiCoins(1, ""), block_with("sc", 1),
    withdrawMultiCoins(9, ""), withdrawMultiCoins(9, ""), generate(1, 6, ""), block_with("sc", 3),
    withdrawMultiCoins(9, "left"), generate(1, 1, ""), generate_next_block(1, "sc"), check(<<block_is(1, "sc", <<"left">>)>>),
    withdrawMultiCoins(9, "not_included"), generate(1, 1, "mc_end"), generate_next_block(1, "sc"),
    check(<<check_mcreferencedata_presence(1, "sc", {"mc_end"})>>) >>

\* The last assertion of the test, one transaction in the mempool of the
\* mainchain, is left out: it is true of the payment that was just made, and
\* only while the certificate has not arrived.
sc_bt_limit_epoch2 == <<
    generate(1, 1, "we1_1"), block_with("sc", 0), check(<<check_mcreference_presence(1, "sc", {"we1_1"})>>),
    wait_for_certificates(1, 1, {1}), check(<<mc_mempool_size(1, 1)>>),
    generate(1, 1, "we1_2"), withdrawMultiCoins(3, "wbs"), generate_next_block(1, "sc"),
    check(<<check_mcreference_presence(1, "sc", {"we1_2"}), block_is(1, "sc", <<"wbs">>)>>),
    generate(1, 3, ""), generate_next_block(1, "sc"), check(<<block_is(1, "sc", <<"not_included">>)>>),
    generate(1, 6, "we1_end"), block_with("sc", 0), check(<<check_mcreferencedata_presence(1, "sc", {"we1_end"})>>),
    generate(1, 1, "we2_1"), generate_next_block(1, "sc"), check(<<check_mcreference_presence(1, "sc", {"we2_1"})>>),
    sendtoaddress(1) >>

sc_bt_limit == Test(Epochs(11, <<SCNodeConfiguration(1)>>, 1000),
                    sc_bt_limit_epoch0 \o sc_bt_limit_epoch1 \o sc_bt_limit_epoch2)

sc_bt_limit_across_fork_run_test == <<
    check(<<consensus_epoch(1, 1)>>), wallet_createPrivateKey25519(1, "sc_address_1"),
    forward_transfer_to_sidechain(1, "sc_address_1", 100 * COIN, ""), time_sleep, generate_next_block(1, ""),
    withdrawCoins(1, [i \in 1 .. 9 |-> RequestTo("bt_address", 54)], 0, ""), check(<<consensus_epoch(1, 2)>>),
    generate_next_block_in_next_epoch(1, "sc"), check(<<consensus_epoch(1, 3), block_transactions(1, "sc", 0)>>),
    generate(1, 1, ""), block_with("sc", 1) >>

sc_bt_limit_across_fork == Test(Epochs(11, <<SCNodeConfiguration(1)>>, 1000), sc_bt_limit_across_fork_run_test)

\* Coins below the dust threshold are refused after the fork, and leave the
\* mempools at the fork.
sc_dust_threshold_fork_run_test == <<
    wallet_createPrivateKey25519(1, "sc_address_1"), wallet_createPrivateKey25519(2, "sc_address_2"),
    connect_sc_nodes(1, 2), sc_sync_all({1, 2}),
    forward_transfer_to_sidechain(1, "genesis", 100 * COIN, ""), generate(1, 1, ""),
    generate_next_block(1, ""), check(<<consensus_epoch(1, 2)>>),
    sendCoinsToAddress(1, "sc_address_2", 50, 0, ""), generate_next_block(1, ""), sc_sync_all({1, 2}),
    check(<<check_wallet_coins_balance(2, 50)>>), disconnect_sc_nodes(1, 2),
    sendCoinsToAddress(1, "sc_address_2", 37, 0, ""), sendCoinsToAddress(2, "sc_address_1", 44, 0, ""),
    generate_next_block_in_next_epoch(1, "new_block"),
    check(<<consensus_epoch(1, 3), block_transactions(1, "new_block", 0)>>),
    connect_sc_nodes(1, 2), sc_sync_all({1, 2}),
    check(<<mempool_is(1, 0), mempool_is(2, 0), check_wallet_coins_balance(2, 50),
            check_wallet_coins_balance(1, 200 * COIN - 50)>>),
    Send(1, <<ZenTo("sc_address_2", 50)>>, 50, "", TRUE),
    sendCoinsToAddress(1, "sc_address_2", 100, 0, ""), generate_next_block(1, ""), sc_sync_all({1, 2}),
    check(<<check_wallet_coins_balance(2, 150), check_wallet_coins_balance(1, 200 * COIN - 150)>>) >>

sc_dust_threshold_fork ==
    Test(Epochs(10, <<SCNodeConfiguration(1), SCNodeConfiguration(1)>>, 100), sc_dust_threshold_fork_run_test)

Request53(address) == <<RequestTo(address, 53)>>
Request54(address) == <<RequestTo(address, 54)>>

sc_bwt_minimum_value_requests == <<
    genesis_checks(100 * COIN), wallet_createPrivateKey25519(1, "sc_address"),
    sc_send(1, <<ZenTo("sc_address", 10 * COIN)>>), check(<<mc_mempool_size(1, 1)>>),
    generate(1, 1, "mc1"), generate_next_block(1, "sc1"),
    check(<<check_mcreference_presence(1, "sc1", {"mc1"}), check_wallet_coins_balance(1, 110 * COIN),
            check_box_balance(1, "sc_address", "ZenBox", 1, 10 * COIN)>>),
    Send(1, Request53("mc_address1"), 0, "", TRUE), withdrawCoins(1, Request54("mc_address1"), 0, ""),
    generate_next_block(1, ""),
    Send(1, Request53("mc_address2"), 5, "", TRUE), withdrawCoins(1, Request54("mc_address2"), 5, ""),
    generate_next_block(1, "") >>

sc_bwt_minimum_value_certificate == <<
    SpendAll(1, "ForgerBox", Request53("mc_address3") \o <<ZenTo("sc_address", 100 * COIN - 100)>>, 47, "", TRUE),
    SpendAll(1, "ForgerBox", Request54("mc_address3") \o <<ZenTo("sc_address", 100 * COIN - 100)>>, 46, "", FALSE),
    generate_next_block(1, ""),
    next_epoch(1, 8, "we1_end", "sc3", "we2_1", "sc4"),
    certificate_cycle(1, 0, "we1_end", << <<"mc_address1", 54>>, <<"mc_address2", 54>>, <<"mc_address3", 54>> >>) >>

sc_bwt_minimum_value == Test(Epochs(10, <<SCNodeConfiguration(1)>>, 100),
                             sc_bwt_minimum_value_requests \o sc_bwt_minimum_value_certificate)

\* A request the message processor refuses: it is in the block, fails and pays
\* its fee.
reverted_withdrawal(value, before) ==
    EvmWithdraw(1, "evm_address", <<RequestTo("mc_address1", value)>>, "tx", FALSE)
    \o generate_next_block(1, "block")
    \o check(<<receipt_status(1, "tx", 0), withdrawal_requests(1, 0, <<>>),
               http_wallet_balance(1, "evm_address", before - EVM_FEE), block_is(1, "block", <<"tx">>)>>)

sc_evm_bwt_corner_cases_values == <<
    sc_ac_setup({1}, 10 * COIN),
    check(<<withdrawal_requests(1, 0, <<>>), http_wallet_balance(1, "evm_address", 10 * COIN)>>),
    EvmWithdraw(1, "evm_address", <<RequestTo("mc_address1", 13 * COIN)>>, "", TRUE), generate_next_block(1, ""),
    check(<<withdrawal_requests(1, 0, <<>>), http_wallet_balance(1, "evm_address", 10 * COIN)>>),
    reverted_withdrawal(53, 10 * COIN), reverted_withdrawal(0, 10 * COIN - EVM_FEE) >>

withdraw_100(n) == Flat([i \in 1 .. n |-> EvmWithdraw(1, "evm_address", <<RequestTo("mc_address2", 100)>>, "tx", FALSE)])
Requests100 == [i \in 1 .. 39 |-> <<"mc_address2", 100>>]

\* 39 requests in five blocks, 3999 in 15 blocks in the test; then one too many.
sc_evm_bwt_corner_cases_limit == <<
    Flat([b \in 1 .. 4 |-> withdraw_100(9) \o generate_next_block(1, "")]),
    withdraw_100(3), generate_next_block(1, ""),
    check(<<withdrawal_requests(1, 0, Requests100), http_wallet_balance(1, "evm_address", 10 * COIN - 39 * 100 - 41 * EVM_FEE)>>),
    withdraw_100(1), generate_next_block(1, "block"),
    check(<<withdrawal_requests(1, 0, Requests100), http_wallet_balance(1, "evm_address", 10 * COIN - 39 * 100 - 42 * EVM_FEE),
            block_is(1, "block", <<"tx">>)>>) >>

sc_evm_bwt_corner_cases ==
    Test(AccountChainSetup(1, 10), sc_evm_bwt_corner_cases_values \o sc_evm_bwt_corner_cases_limit)

EvmBalance(value) == http_wallet_balance(1, "evm_address", value)

EvmBackwardTransfer_epoch0(length) == <<
    sc_ac_setup({1}, 10 * COIN), check(<<withdrawal_requests(1, 0, <<>>), EvmBalance(10 * COIN)>>),
    next_epoch(1, length - 2, "we0_end", "sc2", "we1_1", "sc3"), certificate_cycle(1, 0, "we0_end", <<>>) >>

EvmBackwardTransfer_requests == <<
    EvmWithdraw(1, "evm_address", <<RequestTo("mc_address1", 7 * COIN)>>, "tx1", FALSE),
    check(<<EvmBalance(10 * COIN), withdrawal_requests(1, 1, <<>>)>>), generate_next_block(1, ""),
    check(<<receipt_status(1, "tx1", 1), EvmBalance(3 * COIN - EVM_FEE),
            withdrawal_requests(1, 1, << <<"mc_address1", 7 * COIN>> >>)>>),
    EvmWithdraw(1, "evm_address", <<RequestTo("mc_address2", COIN)>>, "tx2", FALSE), generate_next_block(1, ""),
    check(<<receipt_status(1, "tx2", 1), EvmBalance(2 * COIN - 2 * EVM_FEE),
            withdrawal_requests(1, 1, << <<"mc_address1", 7 * COIN>>, <<"mc_address2", COIN>> >>)>>) >>

EvmBackwardTransfer_epoch1(length) == <<
    next_epoch(1, length - 2, "we1_end", "sc_we1_end", "we2_1", "sc_we2_1"),
    certificate_cycle(1, 1, "we1_end", << <<"mc_address1", 7 * COIN>>, <<"mc_address2", COIN>> >>) >>

\* The request to an address of another kind, and the calls of the contract by
\* other contracts, are left out.
sc_evm_backward_transfer ==
    Test(AccountChainSetup(1, 10), EvmBackwardTransfer_epoch0(10) \o EvmBackwardTransfer_requests
                                   \o EvmBackwardTransfer_epoch1(10))

sc_evm_backward_transfer_2_epoch0 == EvmBackwardTransfer_epoch0(50)
sc_evm_backward_transfer_2_epoch1 == EvmBackwardTransfer_requests \o EvmBackwardTransfer_epoch1(50)

sc_evm_backward_transfer_2 ==
    Test(AccountChainSetup(1, 50), sc_evm_backward_transfer_2_epoch0 \o sc_evm_backward_transfer_2_epoch1)
=============================================================================
