------------------------------ MODULE CswTests ------------------------------
(***************************************************************************)
(* The tests of withdrawals from a sidechain that has ceased: the coins    *)
(* that can be withdrawn are those of the last certificate that counts and *)
(* the forward transfers after it.                                         *)
(***************************************************************************)
EXTENDS TestSteps

CswNetwork(config, length) == [Network(1, {}, <<config>>, 1000 * COIN, length) EXCEPT !.csw_enabled = TRUE]
CswSetup(length) == CswNetwork(SCNodeConfiguration(1), length)

\* The certificate submitter and the signer of the node are disabled.
CswSetupWithoutSubmitter(length) ==
    CswNetwork([SCNodeConfiguration(1) EXCEPT !.cert_submitter_enabled = FALSE, !.cert_signing_enabled = FALSE], length)

csw_start == check(<<isCSWEnabled(1, TRUE), in_best_block(1, "creation", TRUE)>>)

\* A forward transfer to a new key, in a block of each chain; the box is kept.
forward_transfer_box(key, value, except, box) ==
    Flat(<< wallet_createPrivateKey25519(1, key), forward_transfer_to_sidechain(1, key, value * COIN, ""),
            generate_next_block(1, ""), wallet_box(1, "ZenBox", except, 1, box) >>)

\* The node sends the coin of a box to a new key of its own.
spend_box(box, key, value, except, utxo) ==
    Flat(<< wallet_createPrivateKey25519(1, key), SpendBox(1, box, "ZenBox", <<ZenTo(key, value * COIN)>>, "tx"),
            check(<<mempool_is(1, 1)>>), generate_next_block(1, ""), wallet_box(1, "ZenBox", except, 1, utxo) >>)

two_forward_transfers ==
    << wallet_createPrivateKey25519(1, "sc_address_1"), sc_send(1, <<ZenTo("sc_address_1", 10 * COIN)>>), time_sleep,
       wallet_createPrivateKey25519(1, "sc_address_2"), forward_transfer_to_sidechain(1, "sc_address_2", 20 * COIN, ""),
       generate_next_block(1, ""), wallet_box(1, "ZenBox", {}, 1, "ft_box_1"), wallet_box(1, "ZenBox", {}, 2, "ft_box_2"),
       spend_box("ft_box_1", "utxo_address_1", 10, {"ft_box_2"}, "utxo_box_1") >>

\* The rest of a withdrawal epoch
csw_epoch_end(blocks) ==
    generate(1, blocks, "end") \o generate_next_block(1, "sc_end") \o slice("end", blocks, blocks, "end")
    \o check(<<check_mcreferencedata_presence(1, "sc_end", {"end"})>>)

csw_epoch_0 == two_forward_transfers \o <<csw_epoch_end(8)>>

\* The first two blocks of an epoch; the second has the certificate.
certificate_blocks == Flat(<<
    generate(1, 1, "first"), generate_next_block(1, "sc_first"), check(<<check_mcreference_presence(1, "sc_first", {"first"})>>),
    wait_for_certificates(1, 1, {1}), check(<<mc_mempool_size(1, 1)>>),
    generate(1, 1, "second"), generate_next_block(1, "sc_second"), check(<<check_mcreference_presence(1, "sc_second", {"second"})>>) >>)

\* Forward transfers in an epoch: one is sent on, the other stays.
forward_transfers_1 == Flat(<<
    forward_transfer_box("sc_address_3", 15, {"ft_box_2", "utxo_box_1"}, "ft_box_3"),
    spend_box("ft_box_3", "utxo_address_2", 15, {"ft_box_2", "utxo_box_1"}, "utxo_box_2"),
    forward_transfer_box("sc_address_4", 17, {"ft_box_2", "utxo_box_1", "utxo_box_2"}, "ft_box_4") >>)

Closed_1 == {"ft_box_2", "ft_box_4", "utxo_box_1", "utxo_box_2"}

forward_transfers_2 == Flat(<<
    forward_transfer_box("sc_address_5", 22, Closed_1, "ft_box_5"),
    spend_box("ft_box_5", "utxo_address_3", 22, Closed_1, "utxo_box_3"),
    forward_transfer_box("sc_address_6", 27, Closed_1 \cup {"utxo_box_3"}, "ft_box_6") >>)

Closed_2 == Closed_1 \cup {"utxo_box_3", "ft_box_6"}

forward_transfers_3 == Flat(<<
    forward_transfer_box("sc_address_7", 7, Closed_2, "ft_box_7"),
    spend_box("ft_box_7", "utxo_address_4", 7, Closed_2, "utxo_box_4"),
    forward_transfer_box("sc_address_8", 8, Closed_2 \cup {"utxo_box_4"}, "ft_box_8") >>)

Closed_3 == Closed_2 \cup {"utxo_box_4", "ft_box_8"}

stop_submitting == disableCertificateSubmitter(1) \o disableCertificateSigner(1)

\* Both chains say that the sidechain has ceased; some boxes of the wallet were
\* spent.
ceased == check(<<sc_state(1, "CEASED"), hasCeased(1, TRUE)>>)
ceased_with(closed, opened) == ceased \o check(<<closed_boxes(1, closed), opened_boxes(1, opened)>>)

\* csw_cswBoxIds, csw_cswInfo and the nullifiers
csw_info(utxos, fts, certified) ==
    check(<<isCSWEnabled(1, TRUE), cswBoxIds(1, utxos, fts), nullifiers_absent(1, utxos \cup fts),
            activeCertData(1, certified), proofs_absent(1, utxos \cup fts)>>)

\* The proofs are made, and each withdrawal is sent to the mainchain, which gets
\* a block after five of them.
withdraw_ceased(boxes) == Flat(<<
    Flat([i \in 1 .. Len(boxes) |-> generateCswProof(1, boxes[i], "ProofGenerationStarted")]),
    wait_until(<<if_csws_were_generated(1, Range(boxes))>>),
    Flat([i \in 1 .. Len(boxes) |-> send_csw(1, 1, boxes[i]) \o IF i % 5 = 0 THEN generate(1, 1, "") ELSE <<>>]),
    generate(1, 1, ""), check(<<nullifiers_present(1, Range(boxes))>>) >>)

----------------------------------------------------------------------------
(* sc_csw_ceased_at_epoch_1, _2 and _3 *)

epoch_1_forward_transfers == <<csw_start>> \o csw_epoch_0
epoch_1_ceased == <<forward_transfers_1, ceased_with(Closed_1, {"ft_box_1", "ft_box_3"})>>
FtBoxes_1 == <<"ft_box_1", "ft_box_2", "ft_box_3", "ft_box_4">>
epoch_1_withdrawals == <<csw_info({}, Range(FtBoxes_1), FALSE), withdraw_ceased(FtBoxes_1)>>

sc_csw_ceased_at_epoch_1 ==
    Test(CswSetupWithoutSubmitter(10), epoch_1_forward_transfers \o epoch_1_ceased \o epoch_1_withdrawals)

\* The epoch of the test has 900 blocks; here it has 100, and the sidechain
\* blocks take 50 references at most. The submission window is a fifth of it.
large_epoch_forward_transfers == two_forward_transfers \o <<
    generate(1, 98, "end"), generate_next_blocks(1, [i \in 1 .. 9 |-> "sc_end"]), slice("end", 98, 98, "end"),
    check(<<best_reference_is(1, "end", TRUE)>>) >>

large_epoch_ceased == <<
    forward_transfers_1,
    generate(1, 17, ""), generate_next_block(1, ""), generate(1, 1, ""), generate_next_block(1, ""),
    ceased_with(Closed_1, {"ft_box_1", "ft_box_3"}) >>

large_epoch_withdrawals == epoch_1_withdrawals

sc_csw_ceased_at_epoch_1_with_large_epoch_length ==
    Test(CswSetupWithoutSubmitter(100), large_epoch_forward_transfers \o large_epoch_ceased \o large_epoch_withdrawals)

epoch_2_epoch0 == <<csw_start>> \o csw_epoch_0
epoch_2_epoch1 == <<certificate_blocks, forward_transfers_1, stop_submitting, csw_epoch_end(6)>>
epoch_2_ceased == <<forward_transfers_2, ceased_with(Closed_2, {"ft_box_1", "ft_box_3", "ft_box_5"})>>
FtBoxes_2 == FtBoxes_1 \o <<"ft_box_5", "ft_box_6">>
epoch_2_withdrawals == <<csw_info({}, Range(FtBoxes_2), FALSE), withdraw_ceased(FtBoxes_2)>>

sc_csw_ceased_at_epoch_2 ==
    Test(CswSetup(10), epoch_2_epoch0 \o epoch_2_epoch1 \o epoch_2_ceased \o epoch_2_withdrawals)

epoch_3_epoch0 == <<csw_start, wallet_box(1, "ForgerBox", {}, 1, "forger_box")>> \o csw_epoch_0
epoch_3_epoch1 == <<certificate_blocks, forward_transfers_1, csw_epoch_end(6)>>
epoch_3_epoch2 == <<certificate_blocks, forward_transfers_2, stop_submitting, csw_epoch_end(6)>>
epoch_3_ceased == <<forward_transfers_3, ceased_with(Closed_3, {"ft_box_1", "ft_box_3", "ft_box_5", "ft_box_7"})>>
CswUtxos_3 == <<"forger_box", "utxo_box_1", "ft_box_2">>
CswFts_3 == <<"ft_box_3", "ft_box_4", "ft_box_5", "ft_box_6", "ft_box_7", "ft_box_8">>
epoch_3_csw_info == <<csw_info(Range(CswUtxos_3), Range(CswFts_3), TRUE)>>
epoch_3_withdrawals == <<generate(1, 3, ""), withdraw_ceased(CswUtxos_3 \o CswFts_3)>>

sc_csw_ceased_at_epoch_3 ==
    Test(CswSetup(10), epoch_3_epoch0 \o epoch_3_epoch1 \o epoch_3_epoch2 \o epoch_3_ceased \o epoch_3_csw_info
                       \o epoch_3_withdrawals)

----------------------------------------------------------------------------
(* sc_csw_disabled *)

csw_disabled_epoch0 == <<check(<<isCSWEnabled(1, FALSE), in_best_block(1, "creation", TRUE)>>)>> \o csw_epoch_0
csw_disabled_epoch1 == <<
    certificate_blocks, read(MinedCert("second", "id"), "hash"), check(<<EqRef(TopCert(1, "sc_second", "id"), "hash")>>),
    forward_transfers_1, csw_epoch_end(6) >>
csw_disabled_epoch2 == <<certificate_blocks, forward_transfers_2, stop_submitting, csw_epoch_end(6)>>

\* The node is started with its configuration, in which it submits certificates;
\* the sidechain ceases before the delay of a submission is over.
csw_disabled_ceased == <<
    stop_sc_node(1), start_sc_node(1), forward_transfers_3, ceased,
    check(<<isCSWEnabled(1, FALSE)>>), generateCswProof(1, "ft_box_7", "CSW_DISABLED") >>

sc_csw_disabled ==
    Test([CswSetup(10) EXCEPT !.csw_enabled = FALSE, !.in_a_hurry = TRUE],
         csw_disabled_epoch0 \o csw_disabled_epoch1 \o csw_disabled_epoch2 \o csw_disabled_ceased)

----------------------------------------------------------------------------
(* sc_csw_in_fee_payment: the payment of the fees of epoch 0 is a coin of  *)
(* the certified epoch.                                                    *)

FEE == 5

fee_payment_epoch0 == <<
    csw_start, wallet_createPrivateKey25519(1, "sc_address_1"),
    forward_transfer_to_sidechain(1, "sc_address_1", 100 * COIN, ""), generate_next_block(1, ""),
    wallet_createPrivateKey25519(1, "sc_address_2"), sendCoinsToAddress(1, "sc_address_2", 20 * COIN, FEE, ""),
    generate_next_block(1, ""),
    wallet_createPrivateKey25519(1, "sc_address_3"), sendCoinsToAddress(1, "sc_address_3", 30 * COIN, FEE, ""),
    generate_next_block(1, ""),
    csw_epoch_end(8), check(<<fee_payments(1, "sc_end", << <<"genesis", 2 * FEE>> >>)>>),
    fee_payment_box(1, "sc_end", 1, "fee_payment_box"), check(<<closed_boxes(1, {"fee_payment_box"})>>) >>

fee_payment_epochs1_2 == <<
    certificate_blocks, csw_epoch_end(8), certificate_blocks, stop_submitting, csw_epoch_end(8) >>

fee_payment_withdrawal == <<
    generate(1, 2, ""), generate_next_block(1, ""), time_sleep, ceased, check(<<isCSWEnabled(1, TRUE)>>),
    withdraw_ceased(<<"fee_payment_box">>) >>

sc_csw_in_fee_payment == Test(CswSetup(10), fee_payment_epoch0 \o fee_payment_epochs1_2 \o fee_payment_withdrawal)
=============================================================================
