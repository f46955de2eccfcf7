# Sidechains SDK: TLA+ verification

This directory models the node of the Horizen Sidechains SDK in TLA+. TLC checks the models on small
instances (`tlc -config X.cfg M`), TLAPS proves theorems about them for every value of their constants
(`tlapm M.tla`). `PROJECT.json` lists the components, runs, mutants, the map from definitions to
source lines, hazards, findings and theorems. Source paths below are relative to
`src/sdk/src/main/scala/io/horizen/`.

## The system

A sidechain node keeps four things in step: the **history** (all known blocks and which is best), the
**state** (what the best chain has produced), the **wallet** and the **memory pool**. One actor, the node
view holder, owns them. Blocks come from peers, the forger and the API; the history decides whether the
active chain changes; state and wallet go back to the branch point and forward again block by block. All of
it is in versioned LevelDB storages with no transaction across them: a node may stop between two writes,
and the start-up code compares versions to recover. The SDK has two ledgers on this base, UTXO boxes and
accounts with an EVM. Around the node view holder are actors that live on its events: the certificate
submitter, the manager of withdrawals from a ceased sidechain, the forger, the synchronization status, the
HTTP and websocket interfaces.

| component | state | operations | what makes it hard | what must hold |
| --- | --- | --- | --- | --- |
| versioned storage | pairs, version list, change sets | update, rollback | reverting several versions, dropping old ones | a stack of snapshots |
| history | blocks, validity, best block, active chain | append, report valid or invalid, set best | refused blocks inside a switch, stops | the active chain is valid and is the best chain |
| node view holder | versions of up to nine storages | apply, switch, recover | every write may be the last one before a stop | storages are in step; the node settles |
| blocks from peers | cache, index by parent, one flag | put, pop, clean | messages between the steps of applying | nothing applicable waits, nothing is lost silently |
| withdrawal epochs | epoch, index, requests, certificates, keys, fees | apply a block | blocks with several references jump over boundaries | ceasing, limits, records |
| memory pools | transactions, indexes, counters, nonces | add, evict, replace, update after a switch | transactions coming back, limits, gaps | indexes agree; valid transactions stay |
| forger stakes V2 | checkpoint histories, lists | register, delegate, withdraw, query | several changes in an epoch, search | past stakes are frozen; sums agree |
| certificate submitter | status, flag, timer, threads | blocks, signatures, timer, proof | mailbox order, shared status, time-outs | one submission at a time; certificates are made |
| CSW manager | queue, proof in process, witness | state changes, requests, proof | ceasing and living again, late answers | promises are kept |
| sync status | height, list of ids, counters | block, timer, restart | repeated switches, late answers | the height is right; syncing ends |
| network of nodes | mainchain and sidechain chains, pools, keys, scripts | forge, relay, submit, restart | forks of both chains, nodes behind, lost updates | coins, certificates and references agree; scripts pass |

The mainchain (`zend`) is a program of its own that nodes reach over a websocket: it includes certificates,
tells its blocks and decides when a sidechain has ceased. The integration tests in `src/qa` start networks of
mainchain and sidechain nodes and drive them by HTTP and RPC calls.

## Modules

| module | models | state and actions |
| --- | --- | --- |
| `SnapshotStore` | what a versioned storage promises | a list of versions with whole contents |
| `VersionedStore` | `storage/leveldb` | `data`, `versions`, `changeSets`; `update`, `rollbackTo` |
| `BlockTree` | the tree of blocks, `chainBack`, `commonBlockSuffixes` | constants and operators |
| `NodeViewHolder` | `AbstractSidechainNodeViewHolder`, `AbstractHistory`, `AbstractHistoryStorage` | a phase and the storages left to write; one action per write, and `Crash` |
| `SidechainNodeViewHolder`, `AccountNodeViewHolder` | the two ledgers: recovery at start | extend `NodeViewHolder` with `Recover` |
| `ModifiersCache` | `ParentIdModifiersCache`, `processRemoteModifiers`, `applyModifier` | cache, index, flag, message under way |
| `WithdrawalEpochs` | `SidechainState.applyModifier`, `SidechainStateStorage.update`, `WithdrawalEpochUtils`, `WithdrawalEpochValidator` | one action: a block with references, requests, a rotation, certificates |
| `AccountMempool` | `account/mempool` | maps by nonce, cache by age; put, remove, timeouts, blocks and switches |
| `SidechainMemoryPool` | `utxo/mempool`, `updateMemPool` | map, index by fee rate, bytes used; arrivals and switches |
| `StakeCheckpoints`, `ForgerStakesV2` | `StakeStorage`, `ForgerStakeV2MsgProcessor` | histories, lists, balances; one action per contract method |
| `CertificateSubmitter` | `AbstractCertificateSubmitter`, `CeasingSidechain`, its mailbox | mailbox, status, flag, timer, threads; one action per message handler |
| `CswManager` | `utxo/csw` | mailbox, queue, proof in process, witness; one action per handler and callback |
| `SyncStatusActor` | `network/SyncStatusActor` | the actor's fields; a block, a tick |
| `SidechainLedger` | `SidechainState`, `AccountStateView` and what they call: what a block does to coins | pure operators from a state record to the next one |
| `TestNetwork` | mainchain nodes, `forge/`, `MainchainSynchronizer` | chains, pools, links, blocks with their states; relays of the mainchain, `tryToForgeNextBlock` |
| `TestNodes` | sidechain nodes between the calls of a script | relay of blocks, transactions, signatures; certificate submitter; CSW proofs; start and recovery |
| `TestDriver` | the API of the nodes and the loop over a script | one action per kind of call; `Check` for assertions; `Next` composes script and nodes |
| `TestSteps` | `SidechainTestFramework`, `httpCalls` | the calls of the framework as steps |
| `ForgingTests`, `CertificateTests`, `KeyRotationTests`, `CswTests`, `FeeTests`, `NodeApiTests`, `StorageTests` | the scripts `src/qa/*.py` | one sequence of steps per script |

The `MC` modules hold block trees, value sets and the list of scripts for TLC, the `Proofs` modules the
theorems. A definition has the name of what it models in the source where TLA+ allows it.

**Composition.** `NodeViewHolder` uses a storage as its list of versions; `VersionedStore` shows that a
version stands for its contents. `ModifiersCache` and `SyncStatusActor` extend the same `BlockTree` and see
of `NodeViewHolder` what the code lets them see: a block enters the history and may become best, or is
announced as applied. The mempool models keep the chain as the list of its blocks and take every switch
that `NodeViewHolder` can make.

The integration tests compose everything a second time, coarser: blocks carry the state they lead to, and
forging, relays, submitters, restarts and the two ledgers run together.

**External.** The parts outside the repository are modelled from their use: the sparkz base classes
(`cleanOverfull`, `txModify`), the mainchain's acceptance of certificates, transfers and withdrawals, and
proofs of the native library, which take time and succeed or fail.

## Runs

A passing run finishes without an error; each of its properties is broken by a mutant of the model (a
definition changed as a plausible bug would change the code), listed in `PROJECT.json`.

| run | bounds | shows |
| --- | --- | --- |
| `versioned_store` | 1 key, 2 values, 4 version ids, 3 kept | change sets behave as snapshots, which every listed version can be reverted to |
| `utxo_node` | 8 blocks on 3 branches, any of 6 refused, 9 storages, 2 stops outside switches and refused blocks | reorganizations, failed ones included, keep all storages in step and end; recovery does too |
| `account_node` | same tree, 3 blocks that may be refused, 2 stops anywhere | history valid, state on the active chain |
| `remote_blocks` | 6 blocks, cache of 2, reports of 2, 3 messages | no applicable block waits for ever, none is lost without a report |
| `withdrawal_epochs` | epochs of 3 references, up to 3 in a block, up to 3 blocks an epoch, 3 epochs; ceasing and not | ceases exactly when a window ends uncertified; limits, records, fees, keys |
| `account_mempool` | 2 senders, 6 transactions, pool of 4 slots, 3 of a sender, 2 not executable, gap 3, 3 blocks | maps, cache, counters and nonces agree within the limits; valid transactions survive a switch and are announced |
| `utxo_mempool` | 7 transactions, one of them opens the forging stake, 4 bytes, chains of 2 blocks of 2, at most 3 transactions applied at once | the pool fits in one block and in its bytes; only the lowest transactions are lost, no more than needed |
| `forger_stakes` | 2 forgers, 2 delegators, 3 epochs; for the search every history of up to 9 checkpoints | sums, balances and queries agree, past epochs included |
| `cert_submitter` | 2 signers, 2 epochs, 1 switch, mailbox of 2, failing proofs and time-outs | one submission; status of the active chain; the first window gets its certificate |
| `csw_manager` | 2 boxes, 2 receivers, 2 ceasings, 3 requests | proofs of the right box; promised proofs end, unless a missing key or witness leaves the queue waiting |
| `sync_status` | chains of up to 4 after genesis, 2 switches | height up to a second switch; syncing ends |
| `integration_tests` | the scripts of `src/qa` listed in `MCIntegrationTests` | no assertion fails and no script hangs in any interleaving; coins, certificates, references, synchronization |

**Why the bounds are enough.** Keys of a storage do not interact; four ids with three kept make the storage
drop versions and reuse ids. The tree has two branches longer than the allowed rewriting length, a branch
that wins by an ommer with fewer blocks, and a sibling inside a branch, so every form of switch (refused at
the first, a middle or the last block, refused for length) happens. Two stops let a recovery be interrupted.
Epochs of three references with windows of two and blocks of up to three references reach, jump over, start
at and fill every boundary. The pools are smaller than what arrives: in the account pool one sender has more
slots than it may use and the other a nonce that is within the gap only as long as a block stays, so that
each limit is exceeded by an arrival and by a switch. Nine checkpoints are long enough for
the square root jump. Deadlock checking is off where a bound on blocks, messages or requests ends the
behaviours; it is on for the storage and for the integration tests.

**Fairness** is weak fairness only. The node view holder goes on with the block it is applying and a node
that is down is started (`Process`, `Recover`); the actors take the mail they have, the scheduler fires, and
a proof thread ends (`FairSpec` of the submitter and the CSW manager, `CheckBlocksDensity`,
`ApplyModifier`). Akka's dispatcher and scheduler give this. No fairness is assumed of peers, users, the
mainchain or the arrival of blocks. `integration_tests` assumes none: every step brings a script nearer its
end, so that all scripts end is the absence of deadlock.

## The integration tests

A script is data: a set-up and a sequence of steps (`TestSteps`), which `TestDriver` takes one at a time
between the steps of the nodes. `Check` evaluates the assertions of the script and sets `outcome` to
`"failed"` when one does not hold. A loop that polls is a step that is enabled when the loop would end; a
`time.sleep` one that is enabled when nothing is on its way. The scripts with one UTXO and one EVM version
share their steps.

Modelled scripts:

- `ForgingTests`: `mc_sc_forging1`, `mc_sc_forging1_with_mc_block_delay`,
  `mc_sc_evm_forging1_with_mc_block_delay`, `mc_sc_forging2`, `mc_sc_forging3`,
  `mc_sc_forging3_with_mc_block_delay`, `mc_sc_evm_forging3_with_mc_block_delay`, `mc_sc_forging4`,
  `mc_sc_forging4_with_mc_block_delay`, `mc_sc_evm_forging4_with_mc_block_delay`, `mc_sc_forging5`,
  `mc_sc_forging_different_delay`, `sc_evm_mc_fork`, `sc_bootstrap`, `sc_evm_bootstrap`,
  `sc_nodes_initialize`, `mc_sc_connected_nodes`, `sc_sync_after_fork`, `sc_forward_transfer`,
  `sc_evm_forward_transfer`.
- `CertificateTests`: `sc_backward_transfer`, `sc_backward_transfer_nonceasing`, `sc_ceased`,
  `sc_withdrawal_epoch_last_block`, `sc_backward_transfer_with_mc_block_delay`, `sc_multiple_certs`,
  `sc_cert_submitter_after_sync_1`, `sc_cert_submitter_after_sync_2`, `sc_multiple_cert_submitters`,
  `sc_evm_multiple_cert_submitters`, `sc_cert_submission_decentralization`, `sc_cert_fee_conf`,
  `sc_cert_no_coin_record`, `sc_versions_and_mc_certs`, `sc_cert_submitter_secure_enclave`,
  `sc_withdrawal_certificate_after_mainchain_nodes_were_disconnected`,
  `sc_multiple_pending_certs_non_ceasing`, `sc_multiple_pending_certs_non_ceasing_with_delay`,
  `sc_evm_multiple_pending_certs_non_ceasing`, `sc_bt_limit`, `sc_bt_limit_across_fork`,
  `sc_dust_threshold_fork`, `sc_bwt_minimum_value`, `sc_evm_bwt_corner_cases`, `sc_evm_backward_transfer`,
  `sc_evm_backward_transfer_2`.
- `KeyRotationTests`: `sc_cert_key_rotation`, `sc_cert_key_rotation_across_epoch`,
  `sc_cert_key_rotation_old_circuit`, `sc_evm_cert_key_rotation`, `sc_evm_cert_key_rotation_across_epoch`,
  `sc_evm_cert_key_rotation_old_circuit`, `sc_evm_cert_key_rotation_multiple_nodes`.
- `CswTests`: `sc_csw_ceased_at_epoch_1`, `sc_csw_ceased_at_epoch_1_with_large_epoch_length`,
  `sc_csw_ceased_at_epoch_2`, `sc_csw_ceased_at_epoch_3`, `sc_csw_disabled`, `sc_csw_in_fee_payment`.
- `FeeTests`: `mc_sc_forging_fee_payments`, `sc_evm_fee_payments_rpc`, `sc_evm_forging_fee_payments`,
  `sc_evm_forging_fee_payments_rollback`, `mc_sc_forging_delegation`, `sc_evm_forger_delegation`,
  `sc_evm_forger`, `sc_evm_forger_v2`, `sc_evm_forger_stakes_pager`.
- `NodeApiTests`: `sc_closed_forger`, `sc_fork_one_forced_tx`, `sc_evm_closed_forger`, `sc_node_info`,
  `sc_evm_node_info`, `sc_cum_comm_tree_hash`, `sc_blockid_for_backup`, `sc_evm_eoa2eoa`,
  `sc_evm_orphan_txs`, `sc_evm_mempool`, `sc_evm_txpool`.
- `StorageTests`: `sc_storage_recovery_with_csw`, `sc_storage_recovery_without_csw`,
  `sc_evm_storage_recovery`.

What the bench abstracts:

- Mainchain block 1 stands for all blocks before the creation of the sidechain, which is in block 2. The
  consensus slot is left out and the consensus epoch is kept; a forger is a signing and a VRF key under one
  name. The chain with the better score wins, then the higher one, as in `isBestBlock`.
- The handlers of the submitter for a block and for signatures are done with the block; its timer and its
  proof take a step each. `CertificateSubmitter` has them one by one.
- A coin is 10^5 satoshi. The gas used by every transaction is one unit, so that its fee is one constant
  for the base fee and its tip; the tip orders the transactions of a block and replaces those of a pool.
- A contract is an address that has code: what a transaction to it does is modelled for the stakes, the
  withdrawal requests, the certificate keys and the list of forgers. Calls of those by another contract,
  estimates of gas and events are left out of the scripts that have them.
- Scripts with large numbers are scaled: 3999 requests to 39 (999 to 9, 300 to 3, 98 and 80 to 1), the
  epoch length 900 to 100, the chunks of 90 blocks of the storage tests to 2, the 51 stakes of the pager to 9.
- Storages that lost updates are modelled for chains without forks, as in the tests.
- Scripts whose result depends on time are marked in their set-up: `in_a_hurry` lets the timer of the
  submitter end only while the script sleeps and after the signatures have come, `prompt` lets relays end
  before the next call. They say how much the scripts rely on their delays.
- Blocks are below the size limit, the references a block takes come in time, and no script has 99 blocks
  in a row without mainchain headers (`forgeBlock`, 313-336). No forger of these scripts gives its delegators
  a share of its rewards (`getForgerAndDelegatorShares`). A sleep is never too short.
- CSW proofs succeed. A node that is disconnected has relayed its tip before. The halving of the mainchain
  reward is left out of the cap on distributions of the forger pool.
- Left out: the last assertion of `sc_bt_limit` (369), the proxy contracts of `sc_evm_backward_transfer`
  (202-212), lines 683-833 of `sc_evm_cert_key_rotation` and 422-462 of `sc_evm_forging_fee_payments`,
  formats and event logs, and assertions that are true by their form (`assert_true(x, msg)` with a text).

## Known deviations

Formulas that TLC refutes, where the code does other than a comment or test says. They are stated in the
modules and are not part of the runs; the last column says how to see the counterexample: the configuration
of the module with these constants and this formula alone.

| formula | what happens | how to see it |
| --- | --- | --- |
| `WalletIsAtStateVersion` | `updateStateAndWallet` rolls the wallet back before the state (`AbstractSidechainNodeViewHolder.scala:350-354`). A stop between the two leaves state and history consistent and the wallet behind; the node does not start again, though `SidechainNodeViewHolder.scala:111` says "this should never happen" | `MCSidechainNode`, `Dubious = {}`, `CrashInSwitch = TRUE`, `MaxCrashes = 1` |
| `RecoveredStateIsConsistent` | a stop in a switch leaves the account state at the branch point, below the best block; recovery does not notice (`AccountSidechainNodeViewHolder.scala:104`), and the next block is marked invalid, though the comment at 108 says the state "is now consistent with history storage" | `MCAccountNode`, `Dubious = {}`, `MaxCrashes = 1` |
| `RemovedBlocksLeaveActiveChain` | a stored block that was never applied and a refused child of it: the history keeps a removed block as best (`AbstractHistory.scala:252-258`) | `MCAccountNode`, `Dubious = {"a2", "b2"}`, `CrashInSwitch = FALSE`, `MaxCrashes = 1` |
| `ForgingStorageAheadByOne` | two refused blocks that open an epoch leave the forging storage two versions ahead (`SidechainWallet.scala:268`, "it can be ahead by one version only") | `MCSidechainNode`, `Dubious = {"a2", "c2"}`, `CrashIfRefused = TRUE`, `MaxCrashes = 1` |
| `PutAnnouncesNewExecutables` | a replacing transaction is not announced, the replaced one is (`MempoolMap.scala:138`) | `MCAccountMempool` |
| `InvalidTransactionsAreRemoved` | a sender that lost incoming funds in a switch keeps transactions it cannot pay for (`MempoolMap.scala:389`) | `MCAccountMempool` |
| `KnownSignaturesAreValid` | the pattern of `SubmitterPrioritizedMailbox.scala:10` names a companion object and matches no message: a signature of one window enters the status of the next. It holds with blocks at the intended priority | `CertificateSubmitter`, `Spec`, `EnclaveKeys = {}`, `MaxCalls = 0`, `MaxEpoch = 2`, `MaxMail = 3` |
| `OnlyBetterCertificatesAreSent` | the last quality check counts signatures that are not in the proof (`AbstractCertificateSubmitter.scala:428`) | `CertificateSubmitter`, `Spec` |
| `EnoughSignaturesLeadToCertificate` | scheduling that is dropped while a proof runs is never repeated (`AbstractCertificateSubmitter.scala:365`) | `CertificateSubmitter`, `MaxEpoch = 2`, `MaxCalls = 0`, `MaxReorgs = 0`, `EnclaveKeys = {}` |
| `SubmissionEnds` | an exception while the request is made ends the thread without `CertificateSubmissionStopped` (`AbstractCertificateSubmitter.scala:407`): no other certificate is scheduled until a restart. Without failures it holds | `CertificateSubmitter` |
| `QueueIsServed` | a proof whose key is not in the wallet, or a witness that is gone when the actor would start the next proof, leaves the rest of the queue waiting (`CswManager.scala:239`, 351) | `MCCswManager`, `Spec` |
| `InProcessIsPromised` | a cancelled proof is announced as running (`CswManager.scala:320`) | `MCCswManager`, `Spec` |
| `NoBoxIdsWhileAlive` | a late witness is stored although the sidechain lives again (`CswManager.scala:351`) | `MCCswManager`, `Spec` |
| `CeasedStatusFollowsState` | a change of the state before the working cycle is dropped (`CswManager.scala:68`) | `MCCswManager`, `Spec` |
| `SlotsOpenPerReference` | the first block of an epoch is judged by the slots of the epoch before (`SidechainState.scala:298`; `sc_bt_limit.py:25`) | `MCWithdrawalEpochs` |
| `AllRotationsTakeEffect` | a rotation in a block that holds a whole epoch has no effect (`SidechainState.scala:615`) | `MCWithdrawalEpochs` |
| `OutdatedRecordsAreRemoved` | records of certified epochs of a non-ceasing sidechain stay (`SidechainStateStorage.scala:390`) | `MCWithdrawalEpochs` |
| `HeightIsRight` | `drop` and `dropRight` return new lists (`SyncStatusActor.scala:165`): the height is wrong after a second switch | `MCSyncStatusActor` |
| `HeightIsRight` | a late first answer leaves the height at -1 and the block in the list (`SyncStatusActor.scala:130`) | `MCSyncStatusActor`, `Timeouts = TRUE`, `MaxSwitches = 0` |

The passing runs state what does hold beside them: `utxo_node` has stops outside switches only,
`CurrentHeightIsRight` and `RotationsTakeEffect` name their exceptions.

## Proofs

| module | theorems | argument |
| --- | --- | --- |
| `VersionedStoreProofs` | `TypeCorrect`, `Revertible`, `Refinement` | `Inv`: every listed version has its change set, once. The abstract contents of a version are those a rollback to it would restore; an update shifts them by one, a rollback cuts them. |
| `BlockTreeProofs` | lemmas on paths, common ancestors and the fork choice | from `TreeAssumption`. `Settled` (no acceptable chain beats this block, but for those that branched off too low), `NothingOpen` (what lies beyond it has an invalid block on the way) and `Planned` (the blocks at hand lead to such a block, or there is a way back to one) are kept by a new block, a valid or invalid mark and a new best block. They are about sets of blocks, without the state of a node. |
| `AccountNodeProofs` | `AccountTypeCorrect`, `AccountActiveChainValid`, `AccountStateIsOnActiveChain`, `AccountBestMovesAlongActiveChain` | `IInv` adds to the properties that the versions of the state are a chain of blocks, that valid blocks are not refused ones, that what is removed and applied are paths from a branch point on the active chain (`WorkIsOnPaths`) and where the state is in each phase (`StateFollows`). None of the properties is inductive alone: that the best block stays valid needs to know that the block being made best has been applied. One lemma per action. |
| `AccountForkProofs` | `AccountBestChainIsActive`, `AccountInStepUntilStopped` | `ForkInv`, on top of `IInv`, for a node that has not been stopped: at rest the best block is `Settled` with nothing open and the state is there; at work the blocks are `Planned`. It has to speak of the way back because a refused block inside a switch sends the node back to where it was, and the node must then be right again without looking at other chains. |
| `StakeProofs` | `StakeHistoriesOrdered`, `StakesOfPastEpochsFrozen`, `StakesAddUp`, `StakesAreCovered`, `QueriesAreRight` | `StakeInv`: histories are ordered up to the current epoch and a forger that is not listed has none. Frozen past: an update changes the last checkpoint only when it is of this epoch, and otherwise appends. `SumInv` adds that amounts are integers, that an inactive contract is empty, and the two sums; a delegation or withdrawal changes one summand of each (`SumUpdate`). Queries: the range of the binary search always holds the checkpoint in force, and the walk steps back from one epoch to the one before. |
| `WithdrawalEpochsProofs` | `BlocksAreInTheirEpoch`, `EpochsStayWithinLimit`, `CeasesWithoutCertificate`, `FeesPaidOnce`, `RecordsAreKept`, `RotationsAreApplied` | `Limited`: what is stored for the current epoch is all that was mined in it, and later epochs have nothing, so that the stale numbers of the epoch before still bound the first block. `CeasingInv`: the certificates of the last two epochs are stored and every earlier epoch has one. `FeesInv`: the current epoch has one fee record for each of its blocks, later ones none. `RecordsInv`, `RotationInv`: the records and the keys of an epoch that waits for a certificate are never among those that `update` removes, and the rotation stored for the current epoch is its last. |
| `CertificateSubmitterProofs` | `OneSubmission`, `StatusIsOfChain` | the flag is behind the truth by the messages under way, so `SubmissionInv` follows them: announcements of a start or a stop, the timer, its message and the thread take turns. `ChainInv` adds, as long as no request failed, that the last block event in the mailbox is of the tip, and that without one the status is (`Followed`). |
| `CswManagerProofs` | `ProofsMatchRequests` | a result names neither box nor receiver, so `CswInv` ties the one thread or result under way to the proof in process. |

**Induction.** The recursive functions (sums over finite sets, the binary search, the walk over epochs) are
handled without an induction rule: a recursion that has no solution, or a value that is wrong, would have a
smallest case (`SmallestNumber`, `SmallestSet`, from the well-foundedness of the natural numbers), and the
case before it is right.

The assumptions are the named `ASSUME`s of the modules: a block tree with heights and scores that grow,
positive lengths, the account node's single storage, finite sets of forgers, delegators and signers, a
natural number of epochs, and that the marker of a missing key is not a key. TLC evaluates them on the runs.

Only model-checked:

- all liveness (`Settles`, `SyncingEnds`, `PromisedProofsEnd`, `FirstMessageLeadsToCertificate`,
  `ApplicableBlocksLeave`), which is beyond the prover;
- the UTXO node with its nine storages and its recovery. `InStep` and `RemovedBlocksLeaveActiveChain` are
  proved of the account node up to its first stop. After a stop they do not hold of it (Known deviations);
- `NeverHalted`: not true for all constants. The better score wins whatever its height, so a node may go
  down in height again and again, below the oldest version it keeps;
- the two memory pools, the synchronization status and the blocks from peers;
- the network of the integration tests, where the scripts are the inputs.

## Not modelled

- Serialization, JSON, HTTP and RPC formatting, settings, bootstrapping tools: no protocol state.
- Cryptography, the EVM and its database: native libraries. The other scripts that deploy contracts, compare RPC
  answers field by field or measure time and memory check those or formats.
- The slot timer of the forger, nonces and the arithmetic of consensus slots: the models have no time of day.
- The websocket client's pending requests: answers of the mainchain are atomic. The websocket server pushes
  what it is told.
- Peer discovery and the delivery tracker, which belong to sparkz.
- Writes that throw in a running node (a full disk): in the models a write succeeds or the node stops.
- The setting `resetModifiersStatus`, by which an operator makes a node try invalid blocks again: the models
  have its default, `false`.
- In the UTXO memory pool, checks of a transaction that depend on epochs and forks (`validateWithWithdrawalEpoch`,
  `validateWithFork`).
- `put(txs)` of the UTXO memory pool, which nothing calls.
- The estimate of the highest block, event payloads, pagers other than that of the forger stakes, ownership of mainchain addresses, proxies.
