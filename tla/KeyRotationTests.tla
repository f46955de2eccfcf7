--------------------------- MODULE KeyRotationTests ---------------------------
(***************************************************************************)
(* Tests of the rotation of the keys that sign certificates.               *)
(***************************************************************************)
EXTENDS CertificateTests

\* New keys: k1, k2 and k4 replace signing keys, k3 a master key; NewKey is the
\* one of each signer and type when all of them change.
k1 == 201
k2 == 202
k3 == 203
k4 == 204
NewKey(type, i) == 301 + i + 100 * type

Index == 0 .. 6
AllNewKeys == {k1, k2, k3, k4} \cup {NewKey(type, i) : type \in {0, 1}, i \in Index}

WithKeyRotation(setup) == [setup EXCEPT !.key_rotation = TRUE]

\* The certifiers' keys when some signing and some master keys have changed.
Keys(type, changed) == [i \in 1 .. 7 |-> Get(changed, i - 1, ConfigKey(type, i - 1))]
NewKeys(type) == [i \in 1 .. 7 |-> NewKey(type, i - 1)]

keys_in(n, epoch, signing, master) == keys_are(n, epoch, Keys(0, signing), Keys(1, master))
genesis_keys(n, epoch) == keys_in(n, epoch, <<>>, <<>>)

ForAllKeys(Cond(_, _)) == [k \in 1 .. 14 |-> Cond((k - 1) \div 7, (k - 1) % 7)]

\* http_get_key_rotation_proof finds nothing, for any key.
no_rotations(n, epoch) == check(ForAllKeys(LAMBDA type, i : rotation_is(n, epoch, type, i, NoCall)))

rotated(n, epoch, r) == check(<<rotation_is(n, epoch, r.type, r.index, r)>>)

\* A rotation with the keys of the set-up.
First(type, index, newKey, e) == Signed(type, index, newKey, ConfigKey(0, index), ConfigKey(1, index), e)

to_signing1 == First(0, 0, k1, 0)
to_signing2 == First(0, 0, k2, 0)
to_master3 == First(1, 0, k3, 0)
to_signing4 == Signed(0, 0, k4, k2, k3, 1)

\* All keys change; those of index 0 have changed before.
Replaced(type, i, e) ==
    IF i = 0 THEN Signed(type, 0, NewKey(type, 0), k4, k3, e) ELSE First(type, i, NewKey(type, i), e)

all_rotated(n, e) == check(ForAllKeys(LAMBDA type, i : rotation_is(n, e, type, i, Replaced(type, i, e))))
all_keys_new(n, epoch) == keys_are(n, epoch, NewKeys(0), NewKeys(1))

\* The certificate that is sent has all signatures and the keys of its epoch.
sent_certificate(epoch, signing, master) ==
    wait_for_certificates(1, 1, {1})
    \o check(<<mc_mempool_size(1, 1), Eq(PoolCert(1, "epoch"), epoch), Eq(PoolCert(1, "quality"), 7),
               Eq(PoolCert(1, "keys"), <<signing, master>>)>>)

\* It is mined and referenced.
mined_and_referenced(n) ==
    generate(1, 1, "mc_cert") \o generate_next_block(n, "sc_cert")
    \o check(<<check_mcreference_presence(n, "sc_cert", {"mc_cert"})>>)

end_of_epoch(n, left) ==
    generate(1, left, "we_end") \o slice("we_end", 1, 1, "we_end") \o generate_next_block(n, "sc_we_end")
    \o check(<<check_mcreferencedata_presence(n, "sc_we_end", {"we_end"})>>)

mined_quality(signing, master) ==
    check(<<Eq(MinedCert("mc_cert", "quality"), 7), Eq(MinedCert("mc_cert", "keys"), <<signing, master>>)>>)

----------------------------------------------------------------------------
(* UTXO model *)

KeyRotationSetup == WithKeyRotation(Epochs(10, <<CertNode(TRUE, TRUE, 1 .. 7 \cup AllNewKeys)>>, 1000))

sc_cert_key_rotation_start == <<
    wallet_createPrivateKey25519(1, "sc_address"),
    forward_transfer_to_sidechain(1, "sc_address", 1000 * COIN, ""), generate_next_block(1, ""),
    Send(1, [i \in 1 .. 20 |-> ZenTo("sc_address", 1000)], 0, "", FALSE), generate_next_block(1, ""),
    check(<<genesis_keys(1, -1)>>), no_rotations(1, 0) >>

\* What the transactions must not be: signed by the wrong keys, for a key that
\* is not there, for another type or for another epoch.
sc_cert_key_rotation_refused == <<
    Rotate(1, [to_signing1 EXCEPT !.signing = to_signing1.master], "", TRUE),
    Rotate(1, [to_signing1 EXCEPT !.master = to_signing1.signing], "", TRUE),
    Rotate(1, [to_signing1 EXCEPT !.self = to_signing1.master], "", TRUE),
    Rotate(1, [to_signing1 EXCEPT !.index = 100], "", TRUE),
    Rotate(1, [to_signing1 EXCEPT !.type = 356], "", TRUE),
    Rotate(1, [to_signing1 EXCEPT !.index = 2], "", TRUE),
    Rotate(1, [First(1, 0, k1, 0) EXCEPT !.type = 0], "", TRUE),
    Rotate(1, First(0, 0, k1, 1), "", TRUE) >>

sc_cert_key_rotation_epoch0 == <<
    createKeyRotationTransaction(1, to_signing1, ""), Rotate(1, to_signing1, "", TRUE),
    generate_next_block(1, ""), rotated(1, 0, to_signing1),
    Rotate(1, [to_signing2 EXCEPT !.signing = to_signing1.signing, !.master = to_signing1.master], "", TRUE),
    createKeyRotationTransaction(1, to_signing2, ""), generate_next_block(1, ""), rotated(1, 0, to_signing2),
    createKeyRotationTransaction(1, to_master3, ""), generate_next_block(1, ""),
    generate(1, 8, "we_end"), slice("we_end", 1, 1, "we_end"), check(<<genesis_keys(1, -1)>>),
    generate_next_block(1, "sc_we_end"), check(<<check_mcreferencedata_presence(1, "sc_we_end", {"we_end"})>>),
    check(<<keys_in(1, 0, 0 :> k2, 0 :> k3)>>) >>

certificate_in_next_epoch(n) ==
    generate(1, 1, "") \o generate_next_block(n, "")
    \o wait_for_certificates(1, 1, {n}) \o check(<<mc_mempool_size(1, 1)>>) \o mined_and_referenced(n)

sc_cert_key_rotation_epoch1 == <<
    certificate_in_next_epoch(1), no_rotations(1, 1),
    check(<<keys_in(1, 0, 0 :> k2, 0 :> k3)>>), mined_quality(Keys(0, 0 :> k2), Keys(1, 0 :> k3)),
    createKeyRotationTransaction(1, to_signing4, ""), generate_next_block(1, ""),
    end_of_epoch(1, 8) >>

rotate_all(n, e) == Flat([i \in 1 .. 7 |-> createKeyRotationTransaction(n, Replaced(0, i - 1, e), "")
                                           \o createKeyRotationTransaction(n, Replaced(1, i - 1, e), "")])

sc_cert_key_rotation_epoch2 == <<
    certificate_in_next_epoch(1), no_rotations(1, 2),
    check(<<keys_in(1, 1, 0 :> k4, 0 :> k3)>>), mined_quality(Keys(0, 0 :> k4), Keys(1, 0 :> k3)),
    rotate_all(1, 2), generate_next_block(1, ""), all_rotated(1, 2), end_of_epoch(1, 8) >>

sc_cert_key_rotation_epoch3 == <<
    certificate_in_next_epoch(1), check(<<all_keys_new(1, 2)>>), mined_quality(NewKeys(0), NewKeys(1)),
    generate(1, 8, ""), generate_next_block(1, ""),
    certificate_in_next_epoch(1), mined_quality(NewKeys(0), NewKeys(1)) >>

sc_cert_key_rotation ==
    Test(KeyRotationSetup,
         sc_cert_key_rotation_start \o sc_cert_key_rotation_refused \o sc_cert_key_rotation_epoch0 \o sc_cert_key_rotation_epoch1
         \o sc_cert_key_rotation_epoch2 \o sc_cert_key_rotation_epoch3)

\* Rotations that are still in the pool when their epoch ends are never mined.
to_signing3 == First(0, 0, k3, 0)
to_signing4_1 == First(0, 1, k4, 0)

sc_cert_key_rotation_across_epoch_start == <<
    wallet_createPrivateKey25519(1, "sc_address"),
    sc_send(1, <<ZenTo("sc_address", 1000 * COIN)>>),
    forward_transfer_to_sidechain(1, "sc_address", 1000 * COIN, ""), generate_next_block(1, ""),
    check(<<genesis_keys(1, -1)>>), no_rotations(1, 0) >>

sc_cert_key_rotation_across_epoch_before == <<
    createKeyRotationTransaction(1, to_signing1, ""), generate_next_block(1, ""), rotated(1, 0, to_signing1),
    createKeyRotationTransaction(1, to_signing2, ""), generate_next_block(1, ""), rotated(1, 0, to_signing2),
    generate(1, 7, ""), generate_next_block(1, ""),
    transactionBytes(1, to_signing3, "txhex_t3"), sendTransaction(1, "txhex_t3", "t3"),
    transactionBytes(1, to_signing4_1, "txhex_t4"), sendTransaction(1, "txhex_t4", "t4") >>

sc_cert_key_rotation_across_epoch_after == <<
    generate(1, 1, ""), generate_next_block(1, "last"), check(<<no_transactions(1, "last")>>),
    check(<<mempool_is(1, 2), mempool_has(1, "t3"), mempool_has(1, "t4")>>),
    generate_next_block(1, ""), generate(1, 1, ""),
    ForceTx(1, "txhex_t3", "", FALSE, TRUE), ForceTx(1, "txhex_t4", "", FALSE, TRUE),
    generate_next_block(1, "b"), check(<<no_transactions(1, "b"), mempool_is(1, 0)>>),
    wait_for_certificates(1, 1, {1}), check(<<mc_mempool_size(1, 1)>>),
    mined_and_referenced(1), check(<<no_transactions(1, "sc_cert")>>),
    no_rotations(1, 1), check(<<signing_keys(1, 0, Keys(0, 0 :> k2))>>) >>

sc_cert_key_rotation_across_epoch ==
    Test([WithKeyRotation(Epochs(10, <<SCNodeConfiguration(1)>>, 1000)) EXCEPT !.in_a_hurry = TRUE],
         sc_cert_key_rotation_across_epoch_start \o sc_cert_key_rotation_across_epoch_before
         \o sc_cert_key_rotation_across_epoch_after)

\* A circuit without key rotation has no master keys.
old_circuit(n, epoch) ==
    check(<<keys_are(n, epoch, Keys(0, <<>>), <<>>)>>) \o Rotate(n, to_signing1, "", TRUE)

sc_cert_key_rotation_old_circuit_run_test == <<
    wallet_createPrivateKey25519(1, "sc_address"),
    forward_transfer_to_sidechain(1, "sc_address", 1000 * COIN, ""), generate_next_block(1, ""),
    old_circuit(1, -1) >>

sc_cert_key_rotation_old_circuit ==
    Test(Epochs(10, <<SCNodeConfiguration(1)>>, 1000), sc_cert_key_rotation_old_circuit_run_test)

----------------------------------------------------------------------------
(* Account model *)

EvmKeyRotation(scNodes) == WithKeyRotation([AccountChainSetup(scNodes, 10) EXCEPT !.in_a_hurry = TRUE, !.prompt = TRUE])

\* A rotation is mined, and its receipt has the status.
evm_rotation(n, r, status) ==
    createKeyRotationTransaction(n, r, "tx") \o generate_next_block(n, "") \o check(<<receipt_status(n, "tx", status)>>)

sc_evm_cert_key_rotation_start == <<
    sc_ac_setup({1}, 10 * COIN), check(<<withdrawal_requests(1, 0, <<>>)>>),
    generate_next_block(1, ""), generate_next_block(1, ""), check(<<genesis_keys(1, -1)>>), no_rotations(1, 0) >>

\* Rotations that the state refuses are mined and reverted; the route refuses
\* the ones with a wrong index, type or signature of the new key.
sc_evm_cert_key_rotation_reverted == <<
    evm_rotation(1, [to_signing1 EXCEPT !.signing = to_signing1.master], 0),
    evm_rotation(1, [to_signing1 EXCEPT !.master = to_signing1.signing], 0),
    evm_rotation(1, [to_signing1 EXCEPT !.index = 2], 0),
    Rotate(1, [to_signing1 EXCEPT !.index = 100], "", TRUE),
    Rotate(1, [to_signing1 EXCEPT !.type = 3], "", TRUE),
    Rotate(1, [to_signing1 EXCEPT !.self = to_signing1.master], "", TRUE),
    evm_rotation(1, to_signing1, 1), rotated(1, 0, to_signing1) >>

sc_evm_cert_key_rotation_epoch0 == <<
    evm_rotation(1, [to_signing2 EXCEPT !.signing = to_signing1.signing, !.master = to_signing1.master], 0),
    createKeyRotationTransaction(1, to_signing2, ""), generate_next_block(1, ""), rotated(1, 0, to_signing2),
    evm_rotation(1, [to_master3 EXCEPT !.gas = FALSE], 0), evm_rotation(1, to_master3, 1),
    end_of_epoch(1, 8), check(<<keys_in(1, 0, 0 :> k2, 0 :> k3)>>) >>

sc_evm_cert_key_rotation_epoch1 == <<
    generate(1, 1, ""), generate_next_block(1, ""), sent_certificate(0, Keys(0, 0 :> k2), Keys(1, 0 :> k3)),
    mined_and_referenced(1), no_rotations(1, 1),
    createKeyRotationTransaction(1, to_signing4, ""), generate_next_block(1, ""),
    end_of_epoch(1, 8), check(<<keys_in(1, 1, 0 :> k4, 0 :> k3)>>) >>

\* Each rotation has a block of its own.
rotate_one_by_one(n, e) ==
    Flat([i \in 1 .. 7 |-> createKeyRotationTransaction(n, Replaced(0, i - 1, e), "") \o generate_next_block(n, "")
                           \o createKeyRotationTransaction(n, Replaced(1, i - 1, e), "") \o generate_next_block(n, "")])

sc_evm_cert_key_rotation_epoch2 == <<
    generate(1, 1, ""), generate_next_block(1, ""), sent_certificate(1, Keys(0, 0 :> k4), Keys(1, 0 :> k3)),
    mined_and_referenced(1), no_rotations(1, 2),
    rotate_one_by_one(1, 2), generate_next_block(1, ""), all_rotated(1, 2),
    end_of_epoch(1, 8), check(<<all_keys_new(1, 3)>>) >>

sc_evm_cert_key_rotation_epoch3 == <<
    generate(1, 1, ""), generate_next_block(1, ""), sent_certificate(2, NewKeys(0), NewKeys(1)),
    mined_and_referenced(1), generate(1, 8, ""), generate_next_block(1, ""),
    generate(1, 1, ""), generate_next_block(1, ""), sent_certificate(3, NewKeys(0), NewKeys(1)) >>

sc_evm_cert_key_rotation ==
    Test([EvmKeyRotation(1) EXCEPT !.sc_nodes[1].submitter_private_keys = 1 .. 7 \cup AllNewKeys],
         sc_evm_cert_key_rotation_start \o sc_evm_cert_key_rotation_reverted \o sc_evm_cert_key_rotation_epoch0 \o sc_evm_cert_key_rotation_epoch1
         \o sc_evm_cert_key_rotation_epoch2 \o sc_evm_cert_key_rotation_epoch3)

\* A rotation that waits for the next epoch is mined there and reverted.
sc_evm_cert_key_rotation_across_epoch_before == <<
    sc_ac_setup({1}, 10 * COIN), generate_next_block(1, ""), check(<<genesis_keys(1, 0)>>), no_rotations(1, 0),
    evm_rotation(1, to_signing1, 1), rotated(1, 0, to_signing1),
    evm_rotation(1, to_signing2, 1), rotated(1, 0, to_signing2) >>

sc_evm_cert_key_rotation_across_epoch_after == <<
    generate(1, 7, ""), generate_next_block(1, ""), createKeyRotationTransaction(1, to_signing3, "tx"),
    generate(1, 1, ""), generate_next_block(1, "last"), check(<<no_transactions(1, "last")>>),
    check(<<signing_keys(1, 0, Keys(0, 0 :> k2))>>),
    generate(1, 1, ""), generate_next_block(1, "b"), check(<<block_has(1, "b", "tx"), receipt_status(1, "tx", 0)>>),
    sent_certificate(0, Keys(0, 0 :> k2), Keys(1, <<>>)),
    mined_and_referenced(1), check(<<no_transactions(1, "sc_cert")>>), no_rotations(1, 1) >>

sc_evm_cert_key_rotation_across_epoch ==
    Test(EvmKeyRotation(1), sc_evm_cert_key_rotation_across_epoch_before \o sc_evm_cert_key_rotation_across_epoch_after)

sc_evm_cert_key_rotation_old_circuit_run_test == <<
    sc_ac_setup({1}, 10 * COIN), generate_next_block(1, ""), old_circuit(1, 0) >>

sc_evm_cert_key_rotation_old_circuit ==
    Test(AccountChainSetup(1, 10), sc_evm_cert_key_rotation_old_circuit_run_test)

\* Three nodes with a part of the keys each, of which the first submits.
KeysFrom(n) == CASE n = 1 -> 0 .. 2 [] n = 2 -> 3 .. 5 [] OTHER -> {6}

MultipleNodes ==
    LET setup == EvmKeyRotation(3)
        keys(n) == UNION {{ConfigKey(0, i), NewKey(0, i), NewKey(1, i)} : i \in KeysFrom(n)}
                   \cup (IF n = 1 THEN {k1, k2, k3, k4} ELSE {})
    IN  [setup EXCEPT !.sc_nodes = [n \in 1 .. 3 |-> [@[n] EXCEPT !.submitter_private_keys = keys(n)]]]

OnAll(Steps3(_)) == Steps3(1) \o Steps3(2) \o Steps3(3)
sync3 == sc_sync_all({1, 2, 3})
block3 == generate_next_block(1, "") \o sync3
no_rotations3(epoch) == OnAll(LAMBDA n : no_rotations(n, epoch))
rotated3(epoch, r) == OnAll(LAMBDA n : rotated(n, epoch, r))
keys3(epoch, signing, master) == OnAll(LAMBDA n : check(<<keys_in(n, epoch, signing, master)>>))

certificate3(epoch, signing, master) ==
    generate(1, 1, "") \o block3 \o sent_certificate(epoch, signing, master) \o mined_and_referenced(1)

first3(type, newKey) == First(type, 0, newKey, 1)
second3 == Signed(0, 0, k4, k2, k3, 4)

key_rotation_multiple_nodes_epoch0 == <<
    sc_ac_setup({1, 2, 3}, 10 * COIN), check(<<withdrawal_requests(1, 0, <<>>)>>), sync3, block3, block3,
    OnAll(LAMBDA n : check(<<genesis_keys(n, -1)>>)), no_rotations3(0),
    end_of_epoch(1, 8), sync3, certificate3(0, Keys(0, <<>>), Keys(1, <<>>)), sync3 >>

key_rotation_multiple_nodes_epoch1 == <<
    evm_rotation(1, first3(0, k1), 1), sync3, rotated3(1, first3(0, k1)),
    evm_rotation(1, [first3(0, k2) EXCEPT !.signing = first3(0, k1).signing, !.master = first3(0, k1).master], 0),
    createKeyRotationTransaction(1, first3(0, k2), ""), sync3, block3, rotated3(1, first3(0, k2)),
    evm_rotation(1, first3(1, k3), 1), sync3,
    end_of_epoch(1, 8), sync3, keys3(1, 0 :> k2, 0 :> k3) >>

key_rotation_multiple_nodes_epochs2_3 == <<
    certificate3(1, Keys(0, 0 :> k2), Keys(1, 0 :> k3)), sync3, no_rotations3(2), end_of_epoch(1, 8), sync3,
    certificate3(2, Keys(0, 0 :> k2), Keys(1, 0 :> k3)), sync3, no_rotations3(3), end_of_epoch(1, 8), sync3 >>

key_rotation_multiple_nodes_epoch4 == <<
    certificate3(3, Keys(0, 0 :> k2), Keys(1, 0 :> k3)), sync3, no_rotations3(3),
    createKeyRotationTransaction(1, second3, ""), sync3, block3,
    end_of_epoch(1, 8), keys3(4, 0 :> k4, 0 :> k3),
    certificate3(4, Keys(0, 0 :> k4), Keys(1, 0 :> k3)), no_rotations3(5) >>

key_rotation_multiple_nodes_epoch5 == <<
    rotate_one_by_one(1, 5), generate_next_block(1, ""), sync3, OnAll(LAMBDA n : all_rotated(n, 5)),
    end_of_epoch(1, 8), check(<<all_keys_new(1, 5)>>) >>

key_rotation_multiple_nodes_epochs6_7 == <<
    certificate3(5, NewKeys(0), NewKeys(1)), generate(1, 8, ""), block3,
    generate(1, 1, ""), block3, sent_certificate(6, NewKeys(0), NewKeys(1)) >>

sc_evm_cert_key_rotation_multiple_nodes ==
    Test(MultipleNodes,
         key_rotation_multiple_nodes_epoch0 \o key_rotation_multiple_nodes_epoch1
         \o key_rotation_multiple_nodes_epochs2_3 \o key_rotation_multiple_nodes_epoch4
         \o key_rotation_multiple_nodes_epoch5 \o key_rotation_multiple_nodes_epochs6_7)
=============================================================================
