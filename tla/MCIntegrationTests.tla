-------------------------- MODULE MCIntegrationTests --------------------------
(***************************************************************************)
(* The scripts of qa/ that are modelled.                                   *)
(***************************************************************************)
EXTENDS TestDriver, ForgingTests, KeyRotationTests, CswTests, FeeTests, NodeApiTests, StorageTests

Named(name, test) == [name |-> name, setup |-> test.setup, steps |-> test.steps]

\* The scripts of the modules named ...Tests.
AllScripts == {
    Named("mc_sc_forging1", mc_sc_forging1),
    Named("mc_sc_forging1_with_mc_block_delay", mc_sc_forging1_with_mc_block_delay),
    Named("mc_sc_evm_forging1_with_mc_block_delay", mc_sc_evm_forging1_with_mc_block_delay),
    Named("mc_sc_forging2", mc_sc_forging2),
    Named("mc_sc_forging3", mc_sc_forging3),
    Named("mc_sc_forging3_with_mc_block_delay", mc_sc_forging3_with_mc_block_delay),
    Named("mc_sc_evm_forging3_with_mc_block_delay", mc_sc_evm_forging3_with_mc_block_delay),
    Named("mc_sc_forging4", mc_sc_forging4),
    Named("mc_sc_forging4_with_mc_block_delay", mc_sc_forging4_with_mc_block_delay),
    Named("mc_sc_evm_forging4_with_mc_block_delay", mc_sc_evm_forging4_with_mc_block_delay),
    Named("mc_sc_forging5", mc_sc_forging5),
    Named("mc_sc_forging_different_delay", mc_sc_forging_different_delay),
    Named("sc_evm_mc_fork", sc_evm_mc_fork),
    Named("sc_bootstrap", sc_bootstrap),
    Named("sc_evm_bootstrap", sc_evm_bootstrap),
    Named("sc_nodes_initialize", sc_nodes_initialize),
    Named("mc_sc_connected_nodes", mc_sc_connected_nodes),
    Named("sc_sync_after_fork", sc_sync_after_fork),
    Named("sc_forward_transfer", sc_forward_transfer),
    Named("sc_evm_forward_transfer", sc_evm_forward_transfer),

    Named("sc_backward_transfer", sc_backward_transfer),
    Named("sc_backward_transfer_nonceasing", sc_backward_transfer_nonceasing),
    Named("sc_ceased", sc_ceased),
    Named("sc_withdrawal_epoch_last_block", sc_withdrawal_epoch_last_block),
    Named("sc_backward_transfer_with_mc_block_delay", sc_backward_transfer_with_mc_block_delay),
    Named("sc_multiple_certs", sc_multiple_certs),
    Named("sc_cert_submitter_after_sync_1", sc_cert_submitter_after_sync_1),
    Named("sc_cert_submitter_after_sync_2", sc_cert_submitter_after_sync_2),
    Named("sc_multiple_cert_submitters", sc_multiple_cert_submitters),
    Named("sc_evm_multiple_cert_submitters", sc_evm_multiple_cert_submitters),
    Named("sc_cert_submission_decentralization", sc_cert_submission_decentralization),
    Named("sc_cert_fee_conf", sc_cert_fee_conf),
    Named("sc_cert_no_coin_record", sc_cert_no_coin_record),
    Named("sc_versions_and_mc_certs", sc_versions_and_mc_certs),
    Named("sc_cert_submitter_secure_enclave", sc_cert_submitter_secure_enclave),
    Named("sc_withdrawal_certificate_after_mainchain_nodes_were_disconnected", sc_withdrawal_certificate_after_mainchain_nodes_were_disconnected),
    Named("sc_multiple_pending_certs_non_ceasing", sc_multiple_pending_certs_non_ceasing),
    Named("sc_multiple_pending_certs_non_ceasing_with_delay", sc_multiple_pending_certs_non_ceasing_with_delay),
    Named("sc_evm_multiple_pending_certs_non_ceasing", sc_evm_multiple_pending_certs_non_ceasing),
    Named("sc_bt_limit", sc_bt_limit),
    Named("sc_bt_limit_across_fork", sc_bt_limit_across_fork),
    Named("sc_dust_threshold_fork", sc_dust_threshold_fork),
    Named("sc_bwt_minimum_value", sc_bwt_minimum_value),
    Named("sc_evm_bwt_corner_cases", sc_evm_bwt_corner_cases),
    Named("sc_evm_backward_transfer", sc_evm_backward_transfer),
    Named("sc_evm_backward_transfer_2", sc_evm_backward_transfer_2),

    Named("sc_cert_key_rotation", sc_cert_key_rotation),
    Named("sc_cert_key_rotation_across_epoch", sc_cert_key_rotation_across_epoch),
    Named("sc_cert_key_rotation_old_circuit", sc_cert_key_rotation_old_circuit),
    Named("sc_evm_cert_key_rotation", sc_evm_cert_key_rotation),
    Named("sc_evm_cert_key_rotation_across_epoch", sc_evm_cert_key_rotation_across_epoch),
    Named("sc_evm_cert_key_rotation_old_circuit", sc_evm_cert_key_rotation_old_circuit),
    Named("sc_evm_cert_key_rotation_multiple_nodes", sc_evm_cert_key_rotation_multiple_nodes),

    Named("sc_csw_ceased_at_epoch_1", sc_csw_ceased_at_epoch_1),
    Named("sc_csw_ceased_at_epoch_1_with_large_epoch_length", sc_csw_ceased_at_epoch_1_with_large_epoch_length),
    Named("sc_csw_ceased_at_epoch_2", sc_csw_ceased_at_epoch_2),
    Named("sc_csw_ceased_at_epoch_3", sc_csw_ceased_at_epoch_3),
    Named("sc_csw_disabled", sc_csw_disabled),
    Named("sc_csw_in_fee_payment", sc_csw_in_fee_payment),

    Named("mc_sc_forging_fee_payments", mc_sc_forging_fee_payments),
    Named("sc_evm_fee_payments_rpc", sc_evm_fee_payments_rpc),
    Named("sc_evm_forging_fee_payments", sc_evm_forging_fee_payments),
    Named("sc_evm_forging_fee_payments_rollback", sc_evm_forging_fee_payments_rollback),
    Named("mc_sc_forging_delegation", mc_sc_forging_delegation),
    Named("sc_evm_forger_delegation", sc_evm_forger_delegation),
    Named("sc_evm_forger", sc_evm_forger),
    Named("sc_evm_forger_v2", sc_evm_forger_v2),
    Named("sc_evm_forger_stakes_pager", sc_evm_forger_stakes_pager),

    Named("sc_closed_forger", sc_closed_forger),
    Named("sc_fork_one_forced_tx", sc_fork_one_forced_tx),
    Named("sc_evm_closed_forger", sc_evm_closed_forger),
    Named("sc_node_info", sc_node_info),
    Named("sc_evm_node_info", sc_evm_node_info),
    Named("sc_cum_comm_tree_hash", sc_cum_comm_tree_hash),
    Named("sc_blockid_for_backup", sc_blockid_for_backup),
    Named("sc_evm_eoa2eoa", sc_evm_eoa2eoa),
    Named("sc_evm_orphan_txs", sc_evm_orphan_txs),
    Named("sc_evm_mempool", sc_evm_mempool),
    Named("sc_evm_txpool", sc_evm_txpool),

    Named("sc_storage_recovery_with_csw", sc_storage_recovery_with_csw),
    Named("sc_storage_recovery_without_csw", sc_storage_recovery_without_csw),
    Named("sc_evm_storage_recovery", sc_evm_storage_recovery)}
=============================================================================
