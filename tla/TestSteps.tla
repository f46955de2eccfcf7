------------------------------ MODULE TestSteps ------------------------------
(***************************************************************************)
(* The calls the scripts of qa/ are made of, under the names they have     *)
(* there. Each is a sequence of steps of TestDriver; nodes count from 1. A *)
(* variable of a script is known by its name and holds a sequence: where   *)
(* one value is meant it is the last, where a set is meant it is all.      *)
(***************************************************************************)
EXTENDS SidechainLedger

Flat(parts) ==
    LET part[i \in 1 .. Len(parts), j \in 0 .. Len(parts)] ==
            CASE i > j -> <<>>
              [] i = j -> parts[i]
              [] i < j -> part[i, (i + j) \div 2] \o part[((i + j) \div 2) + 1, j]
    IN  IF parts = <<>> THEN <<>> ELSE part[1, Len(parts)]

----------------------------------------------------------------------------
(* Configuration of a test (sc_boostrap_info) *)

LARGE_WITHDRAWAL_EPOCH_LENGTH == 900

\* A sidechain node: the mainchain node its websocket is connected to (0 for
\* none) and -mc_block_delay_ref.
SCNodeConfiguration(m) ==
    [mc |-> m, delay |-> 0, cert_submitter_enabled |-> TRUE, cert_signing_enabled |-> TRUE,
     submitter_private_keys |-> 1 .. 7, reward |-> ""]

\* SCNetworkConfiguration of one sidechain (SCCreationInfo).
Network(mcNodes, mcLinks, scNodes, amount, length) ==
    [mc_nodes |-> mcNodes, mc_links |-> mcLinks, sc_nodes |-> scNodes, sc_links |-> {},
     forward_amount |-> amount, withdrawal_epoch_length |-> length,
     cert_max_keys |-> 7, cert_sig_threshold |-> 5, non_ceasing |-> FALSE, evm |-> FALSE, key_rotation |-> FALSE, csw_enabled |-> FALSE,
     allowed_forgers |-> <<>>, initial_private_keys |-> <<>>, max_requests |-> 39, in_a_hurry |-> FALSE, prompt |-> FALSE]

\* AccountChainSetup: only the first node submits certificates, two nodes are
\* connected and more form a ring.
AccountChainSetup(scNodes, length) ==
    [Network(1, {}, [n \in 1 .. scNodes |-> [SCNodeConfiguration(1) EXCEPT !.cert_submitter_enabled = (n = 1)]],
             100 * COIN, length)
     EXCEPT !.evm = TRUE,
            !.sc_links = {{n, 1 + (n % scNodes)} : n \in 1 .. scNodes} \ {{1}}]

Test(setup, steps) == [setup |-> setup, steps |-> Flat(steps)]

----------------------------------------------------------------------------
(* Mainchain nodes *)

generate(m, n, label) == <<[op |-> "generate", node |-> m, count |-> n, label |-> label]>>

sc_send(m, outs) == <<[op |-> "sc_send", node |-> m, kind |-> "ft", outs |-> outs]>>

\* Certificates of other sidechains
alien_certificate(m) == <<[op |-> "sc_send", node |-> m, kind |-> "alien", outs |-> <<>>]>>

sendtoaddress(m) == <<[op |-> "sc_send", node |-> m, kind |-> "mc", outs |-> <<>>]>>

ZenTo(owner, value) == [type |-> "ZenBox", owner |-> owner, value |-> value, forger |-> owner]

forward_transfer_to_sidechain(m, owner, value, label) ==
    sc_send(m, <<ZenTo(owner, value)>>) \o generate(m, 1, label)

connect_nodes_bi(a, b) == <<[op |-> "link_mc", pair |-> {a, b}, on |-> TRUE]>>
disconnect_nodes_bi(a, b) == <<[op |-> "link_mc", pair |-> {a, b}, on |-> FALSE]>>

sync_blocks(ms) == <<[op |-> "sync_blocks", nodes |-> ms]>>
sync_mempools(ms) == <<[op |-> "sync_mempools", nodes |-> ms]>>
sync_nodes(ms) == sync_blocks(ms) \o sync_mempools(ms)

----------------------------------------------------------------------------
(* Sidechain nodes *)

NextBlock(n, label, switch, fails) ==
    <<[op |-> "generate_next_block", node |-> n, label |-> label, switch |-> switch, fails |-> fails,
       forced |-> ""]>>

\* generate_next_block with forced_tx
ForceTx(n, tx, label, switch, fails) ==
    <<[op |-> "generate_next_block", node |-> n, label |-> label, switch |-> switch, fails |-> fails,
       forced |-> tx]>>

generate_next_block(n, label) == NextBlock(n, label, FALSE, FALSE)
generate_next_block_in_next_epoch(n, label) == NextBlock(n, label, TRUE, FALSE)
generate_next_blocks(n, labels) == Flat([i \in 1 .. Len(labels) |-> generate_next_block(n, labels[i])])

connect_sc_nodes(a, b) == <<[op |-> "link_sc", pair |-> {a, b}, on |-> TRUE]>>
disconnect_sc_nodes(a, b) == <<[op |-> "link_sc", pair |-> {a, b}, on |-> FALSE]>>

sync_sc_blocks(ns) == <<[op |-> "sync_sc_blocks", nodes |-> ns]>>
sync_sc_mempools(ns) == <<[op |-> "sync_sc_mempools", nodes |-> ns]>>
sc_sync_all(ns) == sync_sc_blocks(ns) \o sync_sc_mempools(ns)

time_sleep == <<[op |-> "sleep", nodes |-> {}]>>

wallet_createPrivateKey25519(n, key) == <<[op |-> "create_key", node |-> n, key |-> key]>>

Send(n, outs, fee, label, fails) ==
    <<[op |-> "send", node |-> n, outs |-> outs, fee |-> fee, label |-> label, fails |-> fails]>>

sendCoinsToAddress(n, owner, value, fee, label) == Send(n, <<ZenTo(owner, value)>>, fee, label, FALSE)

makeForgerStake(n, owner, forger, value, fee, label) ==
    Send(n, <<[type |-> "ForgerBox", owner |-> owner, value |-> value, forger |-> forger]>>, fee, label, FALSE)

sc_create_forging_stake_mempool(n, key, value) ==
    wallet_createPrivateKey25519(n, key) \o makeForgerStake(n, key, key, value, 0, "")

\* createEIP1559Transaction and the other payments of the account model; the
\* nonce is the next one of the sender unless one is given.
EvmStep(n, from, to, value, nonce, label) ==
    [op |-> "evm_send", node |-> n, from |-> from, to |-> to, value |-> value, nonce |-> nonce, tip |-> EVM_TIP,
     outs |-> <<>>, call |-> NoCall, label |-> label, fails |-> FALSE]

EvmSend(n, from, to, value, nonce, label) == <<EvmStep(n, from, to, value, nonce, label)>>
EvmSend_refused(n, from, to, value, nonce) == <<[EvmStep(n, from, to, value, nonce, "") EXCEPT !.fails = TRUE]>>
\* With an effective tip
EvmSendWithTip(n, from, to, value, nonce, tip, label) == <<[EvmStep(n, from, to, value, nonce, label) EXCEPT !.tip = tip]>>
\* deploy of a contract
EvmDeploy(n, from, address, label) ==
    <<[EvmStep(n, from, "", 0, -1, label) EXCEPT !.call = [f |-> "deploy", address |-> address]]>>

----------------------------------------------------------------------------
(* Assertions: what is read, from which node, and what is expected *)

check(conds) == <<[op |-> "check", conds |-> conds]>>
wait_until(conds) == <<[op |-> "wait", conds |-> conds]>>
\* label = from[i : j] of the script
slice(from, i, j, label) == <<[op |-> "slice", from |-> from, first |-> i, last |-> j, label |-> label]>>
read(q, label) == <<[op |-> "read", q |-> q, label |-> label]>>

Eq(q, v) == [q |-> q, rel |-> "=", want |-> v]
EqRef(q, label) == [q |-> q, rel |-> "ref", want |-> label]

\* The value kept in label, and some more
EqPlus(q, label, plus) == [q |-> q, rel |-> "+", want |-> [label |-> label, plus |-> plus]]

OfNode(get, n) == [get |-> get, node |-> n]
OfBlock(get, n, b) == [get |-> get, node |-> n, block |-> b]

best_is(m, hash) == EqRef(OfNode("mc_tip", m), hash)
block_best_is(n, b) == EqRef(OfNode("sc_tip", n), b)
same_best(n, m) == [q |-> OfNode("sc_tip", n), rel |-> "q", want |-> OfNode("sc_tip", m)]
height_is(n, h) == Eq(OfNode("sc_height", n), h)

check_scparent(n, b, parent) == EqRef(OfBlock("parent", n, b), parent)

\* check_mcheaders_amount, check_mcreferencedata_amount and check_ommers_amount
check_amounts(n, b, headers, data, ommers) == Eq(OfBlock("amounts", n, b), <<headers, data, ommers>>)

check_mcheader_presence(n, b, hashes) ==
    Eq([get |-> "headers", node |-> n, block |-> b, hashes |-> hashes], TRUE)
check_mcreferencedata_presence(n, b, hashes) ==
    Eq([get |-> "data", node |-> n, block |-> b, hashes |-> hashes], TRUE)
check_mcreference_presence(n, b, hashes) ==
    Eq([get |-> "references", node |-> n, block |-> b, hashes |-> hashes], TRUE)

check_ommers_cumulative_score(n, b, score) == Eq(OfBlock("score", n, b), score)

check_ommer(n, b, ommer, hashes) ==
    Eq([get |-> "ommer", node |-> n, block |-> b, ommer |-> ommer, hashes |-> hashes], TRUE)
check_subommer(n, b, ommer, sub, hashes) ==
    Eq([get |-> "subommer", node |-> n, block |-> b, ommer |-> ommer, sub |-> sub, hashes |-> hashes], TRUE)

\* is_mainchain_block_included_in_sc_block for the best block
in_best_block(n, hash, yes) == Eq([get |-> "in_best", node |-> n, hash |-> hash], yes)
\* check_mainchain_block_reference_info of mainchain_bestBlockReferenceInfo
best_reference_is(n, hash, yes) == Eq([get |-> "is_best_ref", node |-> n, hash |-> hash], yes)

check_wallet_coins_balance(n, value) == Eq(OfNode("coins", n), value)
check_box_balance(n, owner, type, count, value) ==
    Eq([get |-> "boxes", node |-> n, owner |-> owner, type |-> type], <<count, value>>)
boxes_of_type(n, type, count, value) ==
    Eq([get |-> "boxes_of_type", node |-> n, type |-> type], <<count, value>>)
http_wallet_balance(n, owner, value) == Eq([get |-> "balance", node |-> n, owner |-> owner], value)

mempool_is(n, size) == Eq(OfNode("pool", n), size)
mempool_has(n, tx) == Eq([get |-> "in_pool", node |-> n, tx |-> tx], TRUE)
no_transactions(n, b) == Eq(OfBlock("block_txs", n, b), 0)
mc_mempool_size(m, size) == Eq(OfNode("mc_pool", m), size)
mc_block_txs(m, b, size) == Eq(OfBlock("mc_block_txs", m, b), size)

connected_to(n, others) == Eq([get |-> "peers", node |-> n, others |-> others], TRUE)
peer_count(n, size) == Eq(OfNode("peer_count", n), size)

\* The receiver is a new key of a sidechain node.
mc_make_forward_transfer(m, owner, value, label) ==
    sc_send(m, <<ZenTo(owner, value)>>) \o check(<<mc_mempool_size(m, 1)>>) \o generate(m, 1, label)

\* The best block is the genesis block, with the block of the creation.
StartsAtGenesis(n) == <<height_is(n, 1), in_best_block(n, "creation", TRUE), best_reference_is(n, "creation", TRUE)>>

\* AccountChainSetup.sc_ac_setup; nodes are all the sidechain nodes.
sc_ac_setup(nodes, amount) ==
    Flat(<< check(StartsAtGenesis(1)), wallet_createPrivateKey25519(1, "evm_address"),
            forward_transfer_to_sidechain(1, "evm_address", amount, "ft_block"),
            generate_next_block_in_next_epoch(1, "block_id"), sc_sync_all(nodes) >>)

----------------------------------------------------------------------------
(* Withdrawals and certificates *)

RequestTo(address, value) ==
    [type |-> "WithdrawalRequestBox", owner |-> address, value |-> value, forger |-> address]

withdrawCoins(n, outs, fee, label) == Send(n, outs, fee, label, FALSE)

\* withdrawcoins of the account model
EvmWithdraw(n, from, outs, label, fails) ==
    <<[EvmStep(n, from, "", SumOf(outs), -1, label) EXCEPT !.outs = outs, !.fails = fails]>>

\* createCoreTransaction that opens all boxes of a type
SpendAll(n, type, outs, fee, label, fails) ==
    <<[op |-> "spend", node |-> n, type |-> type, box |-> "", outs |-> outs, fee |-> fee, label |-> label, fails |-> fails]>>

\* createCoreTransaction that opens one box
SpendBox(n, box, type, outs, label) ==
    <<[op |-> "spend", node |-> n, type |-> type, box |-> box, outs |-> outs, fee |-> 0, label |-> label, fails |-> FALSE]>>

\* createKeyRotationTransaction: a rotation, and the usual one, signed by the
\* keys signing and master and by the new key, for epoch e.
Rotation(type, index, newKey, signing, master, self) ==
    [f |-> "rotate", type |-> type, index |-> index, newKey |-> newKey,
     signing |-> signing, master |-> master, self |-> self, gas |-> TRUE]

Signed(type, index, newKey, signing, master, e) ==
    Rotation(type, index, newKey, Signature(signing, type, newKey, e), Signature(master, type, newKey, e),
             Signature(newKey, type, newKey, e))

Rotate(n, r, label, fails) ==
    <<[op |-> "rotate", node |-> n, rotation |-> r, nonce |-> -1, label |-> label, fails |-> fails]>>

createKeyRotationTransaction(n, r, label) == Rotate(n, r, label, FALSE)

\* The bytes of a transaction with a call, and sendTransaction of them.
transactionBytes(n, call, bytes) == <<[op |-> "make_tx", node |-> n, call |-> call, label |-> bytes]>>
sendTransaction(n, bytes, label) ==
    <<[op |-> "send_tx", node |-> n, tx |-> bytes, label |-> label, fails |-> FALSE]>>
sendTransaction_refused(n, bytes) == <<[op |-> "send_tx", node |-> n, tx |-> bytes, label |-> "", fails |-> TRUE]>>
sendCoinsToAddressDryRun(n, owner, value, bytes) ==
    <<[op |-> "make_core", node |-> n, outs |-> <<ZenTo(owner, value)>>, label |-> bytes]>>

enableCertificateSubmitter(n) == <<[op |-> "submitter", node |-> n, on |-> TRUE]>>
disableCertificateSubmitter(n) == <<[op |-> "submitter", node |-> n, on |-> FALSE]>>

\* A sleep longer than the submission delay, and the loop that waits for
\* certificates in the mempool of m while the submitters ns are active.
wait_for_certificates(m, size, ns) ==
    time_sleep \o <<[op |-> "wait_certificates", mc |-> m, size |-> size, nodes |-> ns]>>

sleep_until_idle(ns) == <<[op |-> "sleep", nodes |-> ns]>>

isCertGenerationActive(n, yes) == Eq(OfNode("active", n), yes)
isCertificateSubmitterEnabled(n, yes) == Eq(OfNode("enabled", n), yes)
isCertificateSignerEnabled(n, yes) == Eq(OfNode("signs", n), yes)
submitter_inactive(n) == time_sleep \o check(<<isCertGenerationActive(n, FALSE)>>)

PoolCert(m, field) == [get |-> "pool_cert", node |-> m, field |-> field]
MinedCert(b, field) == [get |-> "block_cert", block |-> b, field |-> field]
TopCert(n, b, field) == [get |-> "top_cert", node |-> n, block |-> b, field |-> field]

\* The only transaction in the mempool of m is a certificate (getrawmempool);
\* its epoch, end and backward transfers are compared and its hash is kept.
mempool_certificate(m, epoch, end, payments, hash) ==
    check(<<mc_mempool_size(m, 1), Eq(PoolCert(m, "epoch"), epoch), EqRef(PoolCert(m, "end"), end),
            Eq(PoolCert(m, "bts"), payments)>>)
    \o read(PoolCert(m, "id"), hash)

certs_in_block(m, b, size) == Eq(OfBlock("block_certs", m, b), size)

\* Block b of mainchain node m has the certificate and nothing else.
mined_certificate(m, b, hash) ==
    check(<<mc_mempool_size(m, 0), mc_block_txs(m, b, 1), certs_in_block(m, b, 1),
            EqRef(MinedCert(b, "id"), hash)>>)

\* topQualityCertificate of the first reference of block b
top_certificate(n, b, epoch, end, payments, hash) ==
    check(<<Eq(OfBlock("lower_leaves", n, b), 0), Eq(TopCert(n, b, "epoch"), epoch),
            EqRef(TopCert(n, b, "end"), end), Eq(TopCert(n, b, "bts"), payments),
            EqRef(TopCert(n, b, "id"), hash)>>)

withdrawal_requests(n, epoch, payments) == Eq([get |-> "requests", node |-> n, epoch |-> epoch], payments)
get_withdrawal_epoch(n, e) == Eq(OfNode("withdrawal_epoch", n), e)
consensus_epoch(n, e) == Eq(OfNode("consensus_epoch", n), e)
hasCeased(n, yes) == Eq(OfNode("hasCeased", n), yes)
getscinfo(m, state, epoch) == Eq(OfNode("scinfo", m), <<state, epoch>>)
sc_state(m, state) == Eq(OfNode("scstate", m), state)
receipt_status(n, tx, status) == Eq([get |-> "status", node |-> n, tx |-> tx], status)
keys_are(n, epoch, signing, master) == Eq([get |-> "keys", node |-> n, epoch |-> epoch], <<signing, master>>)
signing_keys(n, epoch, signing) == Eq([get |-> "signing_keys", node |-> n, epoch |-> epoch], signing)
rotation_is(n, epoch, type, index, r) ==
    Eq([get |-> "rotation", node |-> n, epoch |-> epoch, type |-> type, index |-> index], r)
disableCertificateSigner(n) == <<[op |-> "disable_signer", node |-> n]>>
stop_sc_node(n) == <<[op |-> "stop_sc_node", node |-> n]>>
start_sc_node(n) == <<[op |-> "start_sc_node", node |-> n, fails |-> FALSE]>>
start_sc_node_fails(n) == <<[op |-> "start_sc_node", node |-> n, fails |-> TRUE]>>
invalidateblock(m, b) == <<[op |-> "invalidateblock", node |-> m, block |-> b]>>

block_transactions(n, b, size) == Eq(OfBlock("block_txs", n, b), size)
\* The transactions of block b, in their order.
block_is(n, b, txs) == Eq([get |-> "block_is", node |-> n, block |-> b, txs |-> txs], TRUE)
block_has(n, b, tx) == Eq([get |-> "in_block", node |-> n, block |-> b, tx |-> tx], TRUE)

----------------------------------------------------------------------------
(* Stakes and balances *)

\* ac_makeForgerStake: the first key of the node that can pays.
StakeStep(n, owner, forger, value, nonce, label) ==
    <<[EvmStep(n, "", "", value, nonce, label)
       EXCEPT !.outs = <<[type |-> "ForgerBox", owner |-> owner, value |-> value, forger |-> forger]>>]>>
ac_makeForgerStake(n, owner, forger, value, label) == StakeStep(n, owner, forger, value, -1, label)
StakeWithNonce(n, owner, forger, value, nonce) == StakeStep(n, owner, forger, value, nonce, "")

spendForgingStake(n, stake, label) ==
    <<[op |-> "spend_stake", node |-> n, stake |-> stake, label |-> label, fails |-> FALSE]>>
spendForgingStake_refused(n, stake) ==
    <<[op |-> "spend_stake", node |-> n, stake |-> stake, label |-> "", fails |-> TRUE]>>
\* upgrade() of the contract of the stakes
upgrade(n, from, label) == <<[EvmStep(n, from, FORGER_STAKE, 0, -1, label) EXCEPT !.call = [f |-> "upgrade"]]>>

\* The ids of the stakes, of an owner or of all (""), from the first or the last
StakeIds(n, owner, newestFirst) == [get |-> "stake_ids", node |-> n, owner |-> owner, newest_first |-> newestFirst]
read_list(q, label) == <<[op |-> "read_list", q |-> q, label |-> label]>>
EqLists(q, labels) == [q |-> q, rel |-> "lists", want |-> labels]

\* getPagedForgersStakesByUser, and getPagedForgersStakes with owner ""
PageQuery(get, n, owner, start, size) ==
    [get |-> get, node |-> n, owner |-> owner, start |-> start, size |-> size, http |-> FALSE]
page_fails(n, owner, start, size, error) == Eq(PageQuery("page", n, owner, start, size), <<error, 0>>)
page_is(n, owner, start, size, next, labels) ==
    check(<<Eq(PageQuery("page", n, owner, start, size), <<"", next>>), EqLists(PageQuery("page_ids", n, owner, start, size), labels)>>)
\* pagedForgingStakes
http_page(n, start, size, answer) == Eq([PageQuery("page", n, "", start, size) EXCEPT !.http = TRUE], answer)
stakeOf(n, owner, value) == Eq([get |-> "stake_of", node |-> n, owner |-> owner], <<"", value>>)
stakeOf_fails(n, owner, error) == Eq([get |-> "stake_of", node |-> n, owner |-> owner], <<error, 0>>)
upgrade_fails(n, error) == Eq(OfNode("upgrade", n), error)
FORGER_STAKE_balance(n, value) == Eq(OfNode("contract_balance", n), value)
\* txpool_contentFrom
txpool_contentFrom(n, from, pending, queued) == Eq([get |-> "txpool", node |-> n, from |-> from], <<pending, queued>>)

\* SCForgerConfiguration: the forger of the genesis block is added to the list.
restrict_forgers(network, forgers) ==
    [network EXCEPT !.allowed_forgers = Append(forgers, "genesis"), !.initial_private_keys = forgers]

makeForgerStake_refused(n, owner, forger, value) ==
    Send(n, <<[type |-> "ForgerBox", owner |-> owner, value |-> value, forger |-> forger]>>, 0, "", TRUE)

\* Fee -1 stands for the value of the box.
createOpenStakeTransaction(n, box, owner, index, fee, bytes) ==
    <<[op |-> "make_open_stake", node |-> n, simplified |-> FALSE, box |-> box, owner |-> owner, index |-> index,
       fee |-> fee, label |-> bytes, fails |-> FALSE]>>
createOpenStakeTransactionSimplified(n, owner, index, fee, bytes) ==
    <<[op |-> "make_open_stake", node |-> n, simplified |-> TRUE, box |-> "", owner |-> owner, index |-> index,
       fee |-> fee, label |-> bytes, fails |-> FALSE]>>
createOpenStakeTransaction_refused(n, box, owner, index) ==
    <<[op |-> "make_open_stake", node |-> n, simplified |-> FALSE, box |-> box, owner |-> owner, index |-> index,
       fee |-> 0, label |-> "", fails |-> TRUE]>>
open_forger_list(n, index, label, fails) ==
    <<[op |-> "open_forger_list", node |-> n, index |-> index, label |-> label, fails |-> fails]>>
allowedForgerList(n, votes) == Eq(OfNode("forger_votes", n), votes)

\* The first ZenBox of an owner
find_box(n, owner, label) == read([get |-> "box_of", node |-> n, owner |-> owner], label)

first_transaction(n, b, type) == Eq(OfBlock("first_call", n, b), type)
no_new_boxes(n, b) == Eq(OfBlock("first_boxes", n, b), 0)

\* What a node tells of its state: withdrawal epoch, size of its pool, epoch and
\* quality of the last certificate
node_info(n, epoch, pool, certEpoch, quality) == Eq(OfNode("node_info", n), <<epoch, pool, certEpoch, quality>>)
getBlockIdForBackup(n, b) == EqRef(OfNode("backup_id", n), b)
no_backup(n) == Eq(OfNode("backup_id", n), 0)
\* The hashes of the cumulative commitment trees are those of the mainchain.
same_cumulative_hashes(n, m, hashes) == Eq([get |-> "tree_hashes", node |-> n, mc |-> m, hashes |-> hashes], TRUE)

\* The tool for the storages of a stopped node
rollbackStorages(n, storages, versions) ==
    <<[op |-> "rollback_storages", node |-> n, storages |-> storages, versions |-> versions]>>
checkStoragesVersion(n, storages, b) == Eq([get |-> "versions", node |-> n, storages |-> storages, block |-> b], TRUE)
\* The last of the two versions asked for
versionsList(n, storage, b) == EqRef([get |-> "previous_version", node |-> n, storage |-> storage], b)

TotalBalance(n) == OfNode("total_balance", n)
wallet_getTotalBalance(n, value) == Eq(TotalBalance(n), value)
allForgingStakes(n, size) == Eq(OfNode("all_stakes", n), size)
getSignerStakeAmount(n, signer, value) == Eq([get |-> "signer_stake", node |-> n, signer |-> signer], value)
forging_stake_info(n, b, value, forger) == Eq(OfBlock("stake_info", n, b), <<value, forger>>)
FORGER_POOL_RECIPIENT(n, value) == http_wallet_balance(n, FORGER_POOL, value)

----------------------------------------------------------------------------
(* Boxes and ceased sidechain withdrawals *)

\* wallet_allBoxes of a type without some boxes: the one at an index
wallet_box(n, type, except, i, label) ==
    read([get |-> "box", node |-> n, type |-> type, except |-> except, index |-> i], label)

\* block_getFeePayments: the payments of a block, and the box of one
fee_payments(n, b, payments) == Eq(OfBlock("fee_payments", n, b), payments)
fee_payment_box(n, b, i, label) == read([get |-> "fee_payment_box", node |-> n, block |-> b, index |-> i], label)

closed_boxes(n, boxes) == Eq([get |-> "closed", node |-> n, boxes |-> boxes], TRUE)
opened_boxes(n, boxes) == Eq([get |-> "opened", node |-> n, boxes |-> boxes], TRUE)

isCSWEnabled(n, yes) == Eq(OfNode("csw_enabled", n), yes)
\* csw_cswBoxIds, with the cswType of each
cswBoxIds(n, utxos, fts) == Eq([get |-> "csw_boxes", node |-> n, utxos |-> utxos, fts |-> fts], TRUE)
proofs_absent(n, boxes) == Eq([get |-> "csw_absent", node |-> n, boxes |-> boxes], TRUE)
if_csws_were_generated(n, boxes) == Eq([get |-> "csw_done", node |-> n, boxes |-> boxes], TRUE)
activeCertData(n, yes) == Eq(OfNode("csw_cert", n), yes)
nullifiers_present(m, boxes) == Eq([get |-> "nullifiers", node |-> m, boxes |-> boxes], TRUE)
nullifiers_absent(m, boxes) == Eq([get |-> "no_nullifiers", node |-> m, boxes |-> boxes], TRUE)

generateCswProof(n, box, answer) == <<[op |-> "csw_proof", node |-> n, box |-> box, answer |-> answer]>>
send_csw(m, n, box) == <<[op |-> "csw_send", mc |-> m, node |-> n, box |-> box]>>
=============================================================================
