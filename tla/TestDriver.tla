----------------------------- MODULE TestDriver -----------------------------
(***************************************************************************)
(* The script of a test: its calls to the nodes and its assertions, one    *)
(* step each. Polling loops (sync_blocks, sync_sc_blocks, ...) are steps    *)
(* that are enabled when the loop ends.                                    *)
(***************************************************************************)
EXTENDS TestNodes

----------------------------------------------------------------------------
(* The driver: one step of the script *)

\* Everything that takes less than a few seconds has happened: blocks,
\* transactions and signatures have reached the connected nodes.
Quiet ==
    /\ scNet = {}
    /\ SignaturesArrived
    /\ \A i, j \in ScNode : {i, j} \in scLinks /\ sc[i].up /\ sc[j].up => sc[i].tip \in sc[j].known
    /\ \A e \in mcLinks : \A i, j \in e : McHeight(i) = McHeight(j)

\* In a test that is said to be prompt the network is faster than the script.
AtStep(op) ==
    /\ outcome = "running" /\ pc <= Len(Steps) /\ Steps[pc].op = op
    /\ P.prompt => Quiet
Now == Steps[pc]

Go == pc' = pc + 1 /\ UNCHANGED <<script, outcome>>
GoIf(ok) ==
    /\ pc' = pc + 1
    /\ outcome' = IF ok THEN outcome ELSE "failed"
    /\ UNCHANGED script
Bind(label, vals) == env' = IF label = "" THEN env ELSE Put(env, label, vals)

\* One value of a variable, and all of the values of some.
Val(label) == Last(env[label])
Vals(labels) == UNION {Range(env[label]) : label \in labels}

\* mc_node.generate: n blocks on top of tip; the first has the pool.
Mined(tip, pool, n) ==
    [i \in 1 .. n |-> [parent |-> IF i = 1 THEN tip ELSE Len(mcb) + i - 1,
                       txs |-> IF i = 1 THEN pool ELSE <<>>]]

NewIds(n) == [i \in 1 .. n |-> Len(mcb) + i]

Generate ==
    /\ AtStep("generate")
    /\ mcb' = mcb \o Mined(McTip(Now.node), mc[Now.node].pool, Now.count)
    /\ mc' = [mc EXCEPT ![Now.node].chain = @ \o NewIds(Now.count), ![Now.node].pool = <<>>]
    /\ Bind(Now.label, NewIds(Now.count))
    /\ Go
    /\ UNCHANGED <<mcLinks, sidechain, txCount>>

\* generate_next_block: the script asserts that the block is made, or catches
\* the error it expects.
TakeForged(n, r) ==
    /\ GoIf(IF Now.fails THEN r.error # "" ELSE r.error = "")
    /\ IF r.error = ""
       THEN /\ scb' = Append(scb, r.block)
            /\ sc' = [sc EXCEPT ![n] = MovedTo(@, McOf(n), Len(scb) + 1, r.block, r.block.txs)]
            /\ Bind(Now.label, <<Len(scb) + 1>>)
       ELSE UNCHANGED <<scb, sc, env>>

\* get_next_epoch_slot: the genesis block is in the last slot of its epoch.
NextEpoch(best, switch) == best.epoch + IF switch \/ best.parent = 0 THEN 1 ELSE 0

GenerateNextBlock ==
    /\ AtStep("generate_next_block")
    /\ TakeForged(Now.node,
                  tryToForgeNextBlock(Now.node, NextEpoch(scb[sc[Now.node].tip], Now.switch),
                                      IF Now.forced = "" THEN <<>> ELSE env[Now.forced]))
    /\ UNCHANGED <<mainchain, scLinks, scNet, txCount>>

\* invalidateblock: the block and the ones after it leave the active chain.
Before(chain, b) ==
    IF b \in Range(chain) THEN Prefix(chain, (CHOOSE i \in 1 .. Len(chain) : chain[i] = b) - 1) ELSE chain

InvalidateBlock ==
    /\ AtStep("invalidateblock")
    /\ McSwitch(Now.node, Before(mc[Now.node].chain, Val(Now.block)), mc[Now.node].chain)
    /\ Go
    /\ UNCHANGED <<env, mcb, mcLinks, sidechain, txCount>>

\* sc_send of a mainchain node, or any payment to the sidechain.
ScSend ==
    /\ AtStep("sc_send")
    /\ mc' = [mc EXCEPT ![Now.node].pool =
                 Append(@, [Tx0 EXCEPT !.id = txCount + 1, !.outs = Now.outs, !.kind = Now.kind])]
    /\ txCount' = txCount + 1
    /\ Go
    /\ UNCHANGED <<env, mcb, mcLinks, sidechain>>

\* wallet_createPrivateKey25519 and the other calls that make a key.
CreateKey ==
    /\ AtStep("create_key")
    /\ sc' = [sc EXCEPT ![Now.node].keys = Append(@, Now.key)]
    /\ Go
    /\ UNCHANGED <<env, mainchain, scb, scLinks, scNet, txCount>>

Owned(n, type) ==
    SelectSeq(scb[sc[n].tip].state.boxes,
              LAMBDA b : type \in {"any", b.type} /\ b.owner \in Range(sc[n].keys))

\* Coins of a node that no transaction of its pool opens, from the oldest.
FreeCoins(n) ==
    SelectSeq(Owned(n, "ZenBox"), LAMBDA b : \A t \in Range(sc[n].pool) : BoxId(b) \notin t.ins)

\* The coins up to the first that makes the sum.
RECURSIVE CoinsFor(_, _)
CoinsFor(coins, need) ==
    IF need <= 0 \/ coins = <<>> THEN <<>> ELSE <<Head(coins)>> \o CoinsFor(Tail(coins), need - Head(coins).value)

\* createCoreTransaction from the boxes ins; the change goes to the first key.
CoreTransaction(n, ins, outs, fee, need) ==
    [Tx0 EXCEPT !.id = txCount + 1, !.fee = fee, !.ins = {BoxId(b) : b \in Range(ins)},
                !.outs = IF SumOf(ins) = need THEN outs
                         ELSE Append(outs, Out("ZenBox", Head(sc[n].keys), SumOf(ins) - need))]

\* A transaction enters the pool of node n and is announced.
Submit(n, tx) ==
    /\ sc' = [sc EXCEPT ![n].pool = AddToPool(@, tx)]
    /\ scNet' = scNet \cup Announce(n, tx)
    /\ txCount' = Max({txCount, tx.id})
    /\ Bind(Now.label, <<tx.id>>)

Refuse == GoIf(Now.fails) /\ UNCHANGED <<env, sc, scNet, txCount>>

\* Requests below the dust threshold, or too many, are refused at once.
ValidOuts(outs) ==
    /\ \A i \in 1 .. Len(outs) : IsRequest(outs[i]) => outs[i].value >= DUST
    /\ Len(SelectSeq(outs, IsRequest)) <= MAX_TX_REQUESTS

SubmitCore(n, tx) ==
    IF ValidOuts(tx.outs) /\ Compatible(scb[sc[n].tip].state, tx, sc[n].pool, P)
    THEN GoIf(~Now.fails) /\ Submit(n, tx)
    ELSE Refuse

\* transaction_sendCoinsToAddress, makeForgerStake and withdrawCoins.
SendWith(n, ins, need) ==
    IF SumOf(ins) < need THEN Refuse ELSE SubmitCore(n, CoreTransaction(n, ins, Now.outs, Now.fee, need))

SendCoins ==
    /\ AtStep("send")
    /\ SendWith(Now.node, CoinsFor(FreeCoins(Now.node), SumOf(Now.outs) + Now.fee), SumOf(Now.outs) + Now.fee)
    /\ UNCHANGED <<mainchain, scb, scLinks>>

\* createCoreTransaction with the boxes to open: those of the type the node has,
\* or the one that is given.
BoxesToOpen(n, s) == SelectSeq(Owned(n, s.type), LAMBDA b : s.box # "" => BoxId(b) = Val(s.box))

SpendBoxesOfType ==
    /\ AtStep("spend")
    /\ SubmitCore(Now.node, CoreTransaction(Now.node, BoxesToOpen(Now.node, Now), Now.outs, Now.fee,
                                            SumOf(BoxesToOpen(Now.node, Now))))
    /\ UNCHANGED <<mainchain, scb, scLinks>>

\* A transaction of the account model with the given nonce, or the next one of
\* the sender.
NextNonce(n, from) ==
    LET used == {t.nonce : t \in {x \in Range(sc[n].pool) : x.from = from}}
        first == Get(scb[sc[n].tip].state.nonce, from, 0)
    IN  CHOOSE k \in first .. first + Cardinality(used) :
            k \notin used /\ \A j \in first .. k - 1 : j \in used

EvmTransaction(n, from, nonce, to, value, outs, call) ==
    [Tx0 EXCEPT !.id = txCount + 1, !.from = from, !.to = to, !.value = value, !.fee = EVM_FEE,
                !.tip = EVM_TIP, !.outs = outs, !.call = call, !.nonce = IF nonce = -1 THEN NextNonce(n, from) ELSE nonce]

SubmitEvm(n, tx) ==
    IF Compatible(scb[sc[n].tip].state, tx, sc[n].pool, P)
    THEN GoIf(~Now.fails) /\ Submit(n, tx)
    ELSE Refuse

\* getFittingSecret: the first key that has an amount, "" for none.
getFittingSecret(n, amount) ==
    LET able == SelectSeq(sc[n].keys, LAMBDA k : Get(scb[sc[n].tip].state.bal, k, 0) >= amount)
    IN  IF able = <<>> THEN "" ELSE Head(able)

Sender(n, s) == IF s.from = "" THEN getFittingSecret(n, s.value + EVM_FEE) ELSE s.from

WithTip(tx, tip) == [tx EXCEPT !.tip = tip, !.fee = EVM_FEE - EVM_TIP + tip]

\* A payment or a call of a contract; the node has the key of the sender.
EvmSendTransaction ==
    /\ AtStep("evm_send")
    /\ IF Now.value < 0 \/ Sender(Now.node, Now) \notin Range(sc[Now.node].keys) THEN Refuse
       ELSE SubmitEvm(Now.node, WithTip(EvmTransaction(Now.node, Sender(Now.node, Now), Now.nonce, Now.to, Now.value,
                                                       Now.outs, Now.call), Now.tip))
    /\ UNCHANGED <<mainchain, scb, scLinks>>

\* spendForgingStake: the node has the key of the owner of the stake; the first
\* key that can pays for the transaction.
SpendStakeOf(n, stakes) ==
    IF stakes = <<>> \/ getFittingSecret(n, EVM_FEE) = "" THEN Refuse
    ELSE IF Head(stakes).owner \notin Range(sc[n].keys) THEN Refuse
    ELSE SubmitEvm(n, EvmTransaction(n, getFittingSecret(n, EVM_FEE), -1, FORGER_STAKE, 0, <<>>,
                                     [f |-> "spend_stake", stake |-> BoxId(Head(stakes)), signer |-> Head(stakes).owner]))

SpendForgingStake ==
    /\ AtStep("spend_stake")
    /\ SpendStakeOf(Now.node, SelectSeq(scb[sc[Now.node].tip].state.boxes, LAMBDA b : BoxId(b) = Val(Now.stake)))
    /\ UNCHANGED <<mainchain, scb, scLinks>>

\* createKeyRotationTransaction. The route of the account model checks the index
\* and the signature of the new key; the one of the UTXO model leaves that to
\* the state. A coin pays the fee and returns to its owner.
RouteRefuses(st, r) ==
    \/ ~P.key_rotation \/ r.type \notin {0, 1}
    \/ P.evm /\ (r.index \notin 0 .. P.cert_max_keys - 1 \/ r.self # Signature(r.newKey, r.type, r.newKey, st.we))

PaidBy(coin, call) ==
    [Tx0 EXCEPT !.id = txCount + 1, !.ins = {BoxId(coin)}, !.outs = <<Out("ZenBox", coin.owner, coin.value)>>,
                !.call = call]

SubmitRotation(n, r) ==
    IF P.evm THEN SubmitEvm(n, EvmTransaction(n, "evm_address", Now.nonce, "key rotation", 0, <<>>, r))
    ELSE SubmitCore(n, PaidBy(Head(FreeCoins(n)), r))

CreateKeyRotationTransaction ==
    /\ AtStep("rotate")
    /\ IF RouteRefuses(scb[sc[Now.node].tip].state, Now.rotation) THEN Refuse
       ELSE SubmitRotation(Now.node, Now.rotation)
    /\ UNCHANGED <<mainchain, scb, scLinks>>

\* A transaction that is made and not sent: the script has its bytes.
MakeTransaction ==
    /\ AtStep("make_tx")
    /\ Bind(Now.label, <<PaidBy(Head(FreeCoins(Now.node)), Now.call)>>)
    /\ txCount' = txCount + 1
    /\ Go
    /\ UNCHANGED <<mainchain, sidechain>>

\* createOpenStakeTransaction and createOpenStakeTransactionSimplified, which
\* looks for a box of the forger; fee -1 is the whole value of the box.
OpenStakeBoxes(n, s) ==
    SelectSeq(Owned(n, "ZenBox"), LAMBDA b : IF s.simplified THEN b.owner = s.owner /\ b.value >= s.fee
                                            ELSE s.box # "" /\ BoxId(b) = Val(s.box))

OpenStakeTransaction(box, owner, index, fee) ==
    [Tx0 EXCEPT !.id = txCount + 1, !.ins = {BoxId(box)}, !.fee = fee, !.call = [f |-> "open", index |-> index],
                !.outs = IF fee = box.value THEN <<>> ELSE <<Out("ZenBox", owner, box.value - fee)>>]

MakeOpenStake ==
    /\ AtStep("make_open_stake")
    /\ IF Now.index < 0 \/ Now.owner = "" \/ OpenStakeBoxes(Now.node, Now) = <<>>
       THEN GoIf(Now.fails) /\ UNCHANGED <<env, txCount>>
       ELSE /\ GoIf(~Now.fails)
            /\ txCount' = txCount + 1
            /\ Bind(Now.label, <<OpenStakeTransaction(Head(OpenStakeBoxes(Now.node, Now)), Now.owner, Now.index,
                                     IF Now.fee = -1 THEN Head(OpenStakeBoxes(Now.node, Now)).value ELSE Now.fee)>>)
    /\ UNCHANGED <<mainchain, sidechain>>

\* openForgerList: the node has the key of the forger.
OpenForgerList ==
    /\ AtStep("open_forger_list")
    /\ IF Now.index \in 0 .. Len(P.allowed_forgers) - 1 /\ P.allowed_forgers[Now.index + 1] \in Range(sc[Now.node].keys)
       THEN SubmitEvm(Now.node, EvmTransaction(Now.node, "evm_address", -1, "forger stakes", 0, <<>>,
                                               [f |-> "open", index |-> Now.index]))
       ELSE Refuse
    /\ UNCHANGED <<mainchain, scb, scLinks>>

\* sendCoinsToAddress with automaticSend false
MakeCore ==
    /\ AtStep("make_core")
    /\ Bind(Now.label, <<CoreTransaction(Now.node, CoinsFor(FreeCoins(Now.node), SumOf(Now.outs)), Now.outs, 0, SumOf(Now.outs))>>)
    /\ txCount' = txCount + 1
    /\ Go
    /\ UNCHANGED <<mainchain, sidechain>>

\* sendTransaction
SendTransaction ==
    /\ AtStep("send_tx")
    /\ IF P.evm THEN SubmitEvm(Now.node, Val(Now.tx)) ELSE SubmitCore(Now.node, Val(Now.tx))
    /\ UNCHANGED <<mainchain, scb, scLinks>>

\* submitter_enableCertificateSubmitter and submitter_disableCertificateSubmitter
SwitchSubmitter ==
    /\ AtStep("submitter")
    /\ sc' = [sc EXCEPT ![Now.node].submitter =
                 IF Now.on THEN Schedule(McOf(Now.node), [@ EXCEPT !.on = TRUE]) ELSE [@ EXCEPT !.on = FALSE]]
    /\ Go
    /\ UNCHANGED <<env, mainchain, scb, scLinks, scNet, txCount>>

\* submitter_disableCertificateSigner
DisableSigner ==
    /\ AtStep("disable_signer")
    /\ sc' = [sc EXCEPT ![Now.node].submitter.sign = FALSE]
    /\ Go
    /\ UNCHANGED <<env, mainchain, scb, scLinks, scNet, txCount>>

\* csw_generateCswProof of a box: what the manager answers
CswAnswer(n, box) ==
    IF ~P.csw_enabled THEN "CSW_DISABLED"
    ELSE IF ~scb[sc[n].tip].state.ceased THEN "SidechainIsAlive"
    ELSE IF box \notin CswBoxIds(n) THEN "NoProofData"
    ELSE IF box \in sc[n].proofs.done THEN "ProofCreationFinished"
    ELSE IF box \in Range(sc[n].proofs.queue) THEN "ProofGenerationInProcess"
    ELSE "ProofGenerationStarted"

AskCswProof ==
    /\ AtStep("csw_proof")
    /\ GoIf(CswAnswer(Now.node, Val(Now.box)) = Now.answer)
    /\ sc' = IF CswAnswer(Now.node, Val(Now.box)) = "ProofGenerationStarted"
             THEN [sc EXCEPT ![Now.node].proofs.queue = Append(@, Val(Now.box))] ELSE sc
    /\ UNCHANGED <<env, mainchain, scb, scLinks, scNet, txCount>>

\* sendrawtransaction of a withdrawal: the mainchain wants the sidechain to have
\* ceased, the proof, and a nullifier that is new in its chain and its mempool,
\* which has room for some.
CswTxs(txs) == {t \in txs : t.kind = "csw"}
Nullifiers(m) == UNION {t.ins : t \in CswTxs(McTxs(mc[m].chain))}

McTakesCsw(m, n, box) ==
    /\ McCeased(mc[m].chain) /\ box \in sc[n].proofs.done /\ box \notin Nullifiers(m)
    /\ \A t \in CswTxs(Range(mc[m].pool)) : box \notin t.ins
    /\ Cardinality(CswTxs(Range(mc[m].pool))) < MAX_CSW_IN_MEMPOOL

SendCsw ==
    /\ AtStep("csw_send")
    /\ GoIf(McTakesCsw(Now.mc, Now.node, Val(Now.box)))
    /\ mc' = [mc EXCEPT ![Now.mc].pool =
                 Append(@, [Tx0 EXCEPT !.id = txCount + 1, !.ins = {Val(Now.box)}, !.kind = "csw"])]
    /\ txCount' = txCount + 1
    /\ UNCHANGED <<env, mcb, mcLinks, sidechain>>

\* A node that starts has its blocks and its keys and nothing else.
Submitter(config) ==
    [on |-> config.cert_submitter_enabled, sign |-> config.cert_signing_enabled,
     keys |-> config.submitter_private_keys, phase |-> "idle", epoch |-> -1, sigs |-> {}, cert |-> NoCert, log |-> {}]

Started(x, n) ==
    [tip |-> BestBlock(x), known |-> KnownBlocks(x), behind |-> Recovered(x) # BestBlock(x), lost |-> <<>>,
     keys |-> x.keys, up |-> TRUE, pool |-> <<>>,
     submitter |-> Submitter(P.sc_nodes[n]), proofs |-> [queue |-> <<>>, done |-> {}]]

StartScNode ==
    /\ AtStep("start_sc_node")
    /\ GoIf(Now.fails = (Recovered(sc[Now.node]) = 0))
    /\ sc' = IF Recovered(sc[Now.node]) = 0 THEN sc ELSE [sc EXCEPT ![Now.node] = Started(@, Now.node)]
    /\ UNCHANGED <<env, mainchain, scb, scLinks, scNet, txCount>>

StopScNode ==
    /\ AtStep("stop_sc_node")
    /\ sc' = [sc EXCEPT ![Now.node].up = FALSE]
    /\ scLinks' = {e \in scLinks : Now.node \notin e}
    /\ scNet' = {m \in scNet : m[1] # Now.node}
    /\ Go
    /\ UNCHANGED <<env, mainchain, scb, txCount>>

\* rollbackStorages: the last of the versions asked for becomes the current one.
RollbackStorages ==
    /\ AtStep("rollback_storages")
    /\ sc' = [sc EXCEPT ![Now.node].lost = [s \in DOMAIN @ \cup Now.storages |->
                 Get(@, s, 0) + IF s \in Now.storages THEN Now.versions - 1 ELSE 0]]
    /\ Go
    /\ UNCHANGED <<env, mainchain, scb, scLinks, scNet, txCount>>

\* connect_nodes_bi, disconnect_nodes_bi
LinkMc ==
    /\ AtStep("link_mc")
    /\ mcLinks' = IF Now.on THEN mcLinks \cup {Now.pair} ELSE mcLinks \ {Now.pair}
    /\ Go
    /\ UNCHANGED <<env, mcb, mc, sidechain, txCount>>

\* connect_sc_nodes, disconnect_sc_nodes. A block is relayed to the peers of a
\* node before the script can cut the connection.
LinkSc ==
    /\ AtStep("link_sc")
    /\ ~Now.on => \A i, j \in Now.pair : sc[i].up /\ sc[j].up => sc[i].tip \in sc[j].known
    /\ scLinks' = IF Now.on THEN scLinks \cup {Now.pair} ELSE scLinks \ {Now.pair}
    /\ Go
    /\ UNCHANGED <<env, mainchain, scb, sc, scNet, txCount>>

----------------------------------------------------------------------------
(* What the script reads *)

IdsOf(txs) == {t.id : t \in Range(txs)}
IdSeq(boxes) == [i \in 1 .. Len(boxes) |-> BoxId(boxes[i])]

\* txpool_contentFrom: the nonces of the transactions of a sender that follow the
\* state without a gap, and of the others.
TxPool(st, pool, from) ==
    LET nonces == {t.nonce : t \in {u \in Range(pool) : u.from = from}}
        pending == {k \in nonces : \A j \in Get(st.nonce, from, 0) .. k : j \in nonces}
    IN  <<pending, nonces \ pending>>

Height(n) == scb[sc[n].tip].height

\* block_findById
Block(q) == scb[Val(q.block)]
Found(q) == Val(q.block) \in sc[q.node].known

HasOmmer(ommers, id, hashes) ==
    \E o \in Range(ommers) :
        /\ o.id = id
        /\ hashes = {} \/ (o.headers # <<>> /\ Head(o.headers) \in hashes)

\* block_getForwardTransfers
TransfersOf(b) ==
    FlattenSeq([i \in 1 .. Len(b.data) |->
                   FlattenSeq([k \in 1 .. Len(mcb[b.data[i]].txs) |-> mcb[b.data[i]].txs[k].outs])])

CountAndSum(boxes) == <<Len(boxes), SumOf(boxes)>>

CertsIn(txs) == SelectSeq(txs, IsCert)

\* What is compared of backward transfers and of withdrawal requests.
Payments(outs) == [i \in 1 .. Len(outs) |-> <<outs[i].owner, outs[i].value>>]

CertField(cert, field) == IF field = "bts" THEN Payments(cert.bts) ELSE cert[field]

Active(n) == sc[n].submitter.phase # "idle"

\* getSidechainBlockIdForBackup: the block with the data of the last reference
\* three epochs ago, 0 for none.
BlockIdForBackup(b, position) ==
    IF position < 1 THEN 0
    ELSE CHOOSE x \in Range(ScChain(b)) : scb[x].nd >= position /\ scb[x].nd - Len(scb[x].data) < position

\* cumulativeCommTreeHash of a header: that of all the blocks up to it.
UpTo(chain, b) == Prefix(chain, CHOOSE i \in 1 .. Len(chain) : chain[i] = b)

\* Epoch and quality of the last certificate
LastCertificateOf(st) == <<st.certs[Max(Certified(st))].epoch, st.certs[Max(Certified(st))].quality>>

\* The stakes a paged query is about: all of them, or those of an owner. The
\* route asks the array even before the upgrade, when it is empty.
PagedList(st, q) ==
    IF q.owner # "" THEN Get(st.owned, q.owner, <<>>)
    ELSE IF st.upgraded THEN [i \in 1 .. Len(st.boxes) |-> BoxId(st.boxes[i])] ELSE <<>>

\* The answer to a paged query: the error or the next position
PageAnswer(st, q) ==
    IF q.http /\ st.epoch < V1_3_EPOCH THEN <<"can not invoke", 0>>
    ELSE IF ~q.http /\ ForkError(st) # "" THEN <<ForkError(st), 0>>
    ELSE IF q.owner # "" /\ q.start = 0 /\ PagedList(st, q) = <<>> THEN <<"", -1>>
    ELSE IF ~ValidPage(PagedList(st, q), q.start, q.size) THEN <<"invalid page", 0>>
    ELSE <<"", Page(PagedList(st, q), q.start, q.size).next>>

\* Stakes and the pools of the account model
StakeQuery(q, st) ==
    CASE q.get = "contract_balance" -> SumOf(StakesIn(st))
      [] q.get = "stake_ids"   -> LET ids == IdSeq(SelectSeq(st.boxes, LAMBDA b : q.owner \in {"", b.owner}))
                                  IN  IF q.newest_first THEN Reverse(ids) ELSE ids
      [] q.get = "page"        -> PageAnswer(st, q)
      [] q.get = "page_ids"    -> Page(PagedList(st, q), q.start, q.size).ids
      [] q.get = "stake_of"    -> IF ForkError(st) # "" THEN <<ForkError(st), 0>>
                                  ELSE <<"", SumOf(SelectSeq(st.boxes, LAMBDA b : b.owner = q.owner))>>
      [] q.get = "upgrade"     -> IF st.epoch < V1_3_EPOCH THEN ForkError(st) ELSE IF st.upgraded THEN "already upgraded" ELSE ""
      [] q.get = "txpool"      -> TxPool(st, sc[q.node].pool, q.from)

\* Forgers, and what a node tells of itself
InfoQuery(q) ==
    CASE q.get = "first_call" -> Head(Block(q).txs).call.f
      [] q.get = "first_boxes" -> Len(NewBoxes(Head(Block(q).txs)))
      [] q.get = "box_of"      -> BoxId(Head(SelectSeq(Owned(q.node, "ZenBox"), LAMBDA b : b.owner = q.owner)))
      [] q.get = "forger_votes" -> [i \in 1 .. Len(P.allowed_forgers) |->
                                       IF i - 1 \in scb[sc[q.node].tip].state.open THEN 1 ELSE 0]
      [] q.get = "versions"    -> \A s \in q.storages : LastVersion(sc[q.node], s) = Val(q.block)
      [] q.get = "previous_version" -> Last(Without(VersionsOf(sc[q.node], q.storage), 1))
      [] q.get = "backup_id"   -> BlockIdForBackup(sc[q.node].tip, (scb[sc[q.node].tip].state.we - 2) * L)
      [] q.get = "tree_hashes" -> \A b \in Vals(q.hashes) : UpTo(scb[sc[q.node].tip].hs, b) = Tail(UpTo(mc[q.mc].chain, b))
      [] q.get = "node_info"   -> <<scb[sc[q.node].tip].state.we, Len(sc[q.node].pool)>>
                                  \o LastCertificateOf(scb[sc[q.node].tip].state)
      [] OTHER -> StakeQuery(q, scb[sc[q.node].tip].state)

\* Boxes by their ids, ceased sidechain withdrawals, and payments of fees
BoxQuery(q) ==
    CASE q.get = "total_balance" -> MapThenSumSet(LAMBDA k : Get(scb[sc[q.node].tip].state.bal, k, 0), Range(sc[q.node].keys))
      [] q.get = "all_stakes"  -> Len(StakesIn(scb[sc[q.node].tip].state))
      [] q.get = "signer_stake" -> StakeOfForger(scb[sc[q.node].tip].state, q.signer)
      [] q.get = "stake_info"  -> forgingStakeInfo(Block(q))
      [] q.get = "box"         -> BoxId(SelectSeq(Owned(q.node, q.type), LAMBDA b : BoxId(b) \notin Vals(q.except))[q.index])
      [] q.get = "closed"      -> Vals(q.boxes) \subseteq IdsOfBoxes(Owned(q.node, "any"))
      [] q.get = "opened"      -> Vals(q.boxes) \cap IdsOfBoxes(Owned(q.node, "any")) = {}
      [] q.get = "fee_payments" -> Payments(Block(q).state.payments)
      [] q.get = "fee_payment_box" -> <<-(Block(q).state.we + 1), q.index>>
      [] q.get = "csw_enabled" -> P.csw_enabled
      [] q.get = "csw_boxes"   -> /\ IdsOfBoxes(CswUtxos(q.node)) = Vals(q.utxos)
                                  /\ IdsOfBoxes(CswForwardTransfers(q.node)) = Vals(q.fts)
      [] q.get = "csw_absent"  -> Vals(q.boxes) \cap (sc[q.node].proofs.done \cup Range(sc[q.node].proofs.queue)) = {}
      [] q.get = "csw_done"    -> Vals(q.boxes) \subseteq sc[q.node].proofs.done
      [] q.get = "csw_cert"    -> scb[sc[q.node].tip].state.we - 3 \in DOMAIN scb[sc[q.node].tip].state.certs
      [] q.get = "nullifiers"  -> Vals(q.boxes) \subseteq Nullifiers(q.node)
      [] q.get = "no_nullifiers" -> Vals(q.boxes) \cap Nullifiers(q.node) = {}
      [] OTHER -> InfoQuery(q)

\* Certificates, withdrawal epochs and the state of the sidechain
CertQuery(q) ==
    CASE q.get = "pool_cert"   -> CertField(Head(CertsIn(mc[q.node].pool)), q.field)
      [] q.get = "block_certs" -> Len(SelectSeq(mcb[Val(q.block)].txs, LAMBDA t : t.kind \in {"cert", "alien"}))
      [] q.get = "block_cert"  -> CertField(Head(CertsIn(mcb[Val(q.block)].txs)), q.field)
      [] q.get = "top_cert"    -> CertField(Head(TopQualityCertificates(<<mcb[Head(Block(q).data)]>>)), q.field)
      [] q.get = "mined_certs" -> Cardinality({t \in McTxs(mc[q.node].chain) : IsCert(t)})
      [] q.get = "lower_leaves" -> Len(CertsIn(mcb[Head(Block(q).data)].txs)) - 1
      [] q.get = "active"      -> Active(q.node)
      [] q.get = "enabled"     -> sc[q.node].submitter.on
      [] q.get = "signs"       -> sc[q.node].submitter.sign
      [] q.get = "one_sent"    -> \E i, j \in ScNode : /\ i # j
                                                       /\ "sent" \in sc[i].submitter.log
                                                       /\ "not needed" \in sc[j].submitter.log
      [] q.get = "requests"    -> Payments(Get(scb[sc[q.node].tip].state.wr, q.epoch, <<>>))
      [] q.get = "withdrawal_epoch" -> scb[sc[q.node].tip].state.we
      [] q.get = "consensus_epoch"  -> scb[sc[q.node].tip].epoch
      [] q.get = "hasCeased"   -> scb[sc[q.node].tip].state.ceased
      [] q.get = "scinfo"      -> <<IF McCeased(mc[q.node].chain) THEN "CEASED" ELSE "ALIVE", McEpoch(McHeight(q.node) + 1)>>
      [] q.get = "scstate"     -> IF McCeased(mc[q.node].chain) THEN "CEASED" ELSE "ALIVE"
      [] q.get = "peer_count"  -> Cardinality(Peers(q.node))
      [] q.get = "keys"        -> certifiersKeys(scb[sc[q.node].tip].state, q.epoch, P)
      [] q.get = "signing_keys" -> certifiersKeys(scb[sc[q.node].tip].state, q.epoch, P)[1]
      [] q.get = "rotation"    -> Get(scb[sc[q.node].tip].state.rot, <<q.type, q.index, q.epoch>>, NoCall)
      [] q.get = "status"      -> IF Val(q.tx) \in scb[sc[q.node].tip].state.reverted THEN 0 ELSE 1
      [] OTHER -> BoxQuery(q)

Query(q) ==
    CASE q.get = "mc_tip"    -> McTip(q.node)
      [] q.get = "mc_height" -> McHeight(q.node)
      [] q.get = "getblockhash" -> mc[q.node].chain[q.height]
      [] q.get = "mc_pool"   -> Len(mc[q.node].pool)
      [] q.get = "sc_tip"    -> sc[q.node].tip
      [] q.get = "sc_height" -> Height(q.node)
      [] q.get = "pool"      -> Len(sc[q.node].pool)
      [] q.get = "in_pool"   -> Val(q.tx) \in IdsOf(sc[q.node].pool)
      [] q.get = "in_block"  -> Found(q) /\ Val(q.tx) \in IdsOf(Block(q).txs)
      [] q.get = "block_is"  -> [i \in 1 .. Len(Block(q).txs) |-> Block(q).txs[i].id] = [i \in 1 .. Len(q.txs) |-> Val(q.txs[i])]
      [] q.get = "block_txs" -> Len(Block(q).txs)
      [] q.get = "parent"    -> Block(q).parent
      [] q.get = "amounts"   -> <<Len(Block(q).headers), Len(Block(q).data), Len(Block(q).ommers)>>
      [] q.get = "header_count" -> Len(Block(q).headers)
      [] q.get = "headers"   -> Found(q) /\ Vals(q.hashes) \subseteq Range(Block(q).headers)
      [] q.get = "data"      -> Found(q) /\ Vals(q.hashes) \subseteq Range(Block(q).data)
      [] q.get = "references" -> Found(q) /\ Vals(q.hashes) \subseteq Range(Block(q).headers) \cap Range(Block(q).data)
      [] q.get = "score"     -> ommersCumulativeScore(Block(q))
      [] q.get = "ommer"     -> Found(q) /\ HasOmmer(Block(q).ommers, Val(q.ommer), Vals(q.hashes))
      [] q.get = "subommer"  -> \E o \in Range(Block(q).ommers) :
                                    /\ o.id = Val(q.ommer)
                                    /\ HasOmmer(o.ommers, Val(q.sub), Vals(q.hashes))
      [] q.get = "coins"     -> SumOf(Owned(q.node, "any"))
      [] q.get = "in_best"     -> Val(q.hash) \in Range(scb[sc[q.node].tip].headers)
      [] q.get = "is_best_ref" -> Val(q.hash) = scb[sc[q.node].tip].hs[scb[sc[q.node].tip].nd]
      [] q.get = "boxes"     -> CountAndSum(SelectSeq(Owned(q.node, q.type), LAMBDA b : b.owner = q.owner))
      [] q.get = "transfers" -> TransfersOf(Block(q))
      [] q.get = "balance"   -> Get(scb[sc[q.node].tip].state.bal, q.owner, 0)
      [] q.get = "mc_block_txs" -> Len(SelectSeq(mcb[Val(q.block)].txs, LAMBDA t : t.kind \notin {"cert", "alien"})) + 1
      [] q.get = "peers"     -> q.others \subseteq Peers(q.node)
      [] q.get = "boxes_of_type" -> CountAndSum(Owned(q.node, q.type))
      [] OTHER -> CertQuery(q)

Compare(rel, got, want) ==
    CASE rel = "="   -> got = want
      [] rel = "ref" -> got = Val(want)
      [] rel = "q"   -> got = Query(want)
      [] rel = "lists" -> got = FlattenSeq([i \in 1 .. Len(want) |-> env[want[i]]])
      [] rel = "+"   -> got = Val(want.label) + want.plus
      [] rel = ">="  -> got >= want
      [] rel = "not" -> got # Val(want)

Holds(c) == Compare(c.rel, Query(c.q), c.want)

\* assert_equal, assert_true and the check_ functions
Check ==
    /\ AtStep("check")
    /\ GoIf(\A c \in Range(Now.conds) : Holds(c))
    /\ UNCHANGED <<env, mainchain, sidechain, txCount>>

\* A polling loop
Wait ==
    /\ AtStep("wait")
    /\ \A c \in Range(Now.conds) : Holds(c)
    /\ Go
    /\ UNCHANGED <<env, mainchain, sidechain, txCount>>

\* A value the script keeps for later
Read ==
    /\ AtStep("read")
    /\ Bind(Now.label, <<Query(Now.q)>>)
    /\ Go
    /\ UNCHANGED <<mainchain, sidechain, txCount>>

\* A list of values the script keeps
ReadList ==
    /\ AtStep("read_list")
    /\ Bind(Now.label, Query(Now.q))
    /\ Go
    /\ UNCHANGED <<mainchain, sidechain, txCount>>

Slice ==
    /\ AtStep("slice")
    /\ Bind(Now.label, SubSeq(env[Now.from], Now.first, Now.last))
    /\ Go
    /\ UNCHANGED <<mainchain, sidechain, txCount>>

\* sync_blocks compares heights only, sync_mempools the transactions.
SyncMcBlocks ==
    /\ AtStep("sync_blocks")
    /\ \A i, j \in Now.nodes : McHeight(i) = McHeight(j)
    /\ Go
    /\ UNCHANGED <<env, mainchain, sidechain, txCount>>

SyncMcPools ==
    /\ AtStep("sync_mempools")
    /\ \A i, j \in Now.nodes : IdsOf(mc[i].pool) = IdsOf(mc[j].pool)
    /\ Go
    /\ UNCHANGED <<env, mainchain, sidechain, txCount>>

\* sync_sc_blocks compares heights only too.
SyncScBlocks ==
    /\ AtStep("sync_sc_blocks")
    /\ \A i, j \in Now.nodes : Height(i) = Height(j)
    /\ Go
    /\ UNCHANGED <<env, mainchain, sidechain, txCount>>

SyncScPools ==
    /\ AtStep("sync_sc_mempools")
    /\ \A i, j \in Now.nodes : IdsOf(sc[i].pool) = IdsOf(sc[j].pool)
    /\ Go
    /\ UNCHANGED <<env, mainchain, sidechain, txCount>>

\* time.sleep; a long one is there for the submitters of some nodes to end.
Sleep ==
    /\ AtStep("sleep")
    /\ Quiet /\ \A n \in Now.nodes : ~Active(n)
    /\ Go
    /\ UNCHANGED <<env, mainchain, sidechain, txCount>>

\* The loop that waits for certificates in the mempool of a mainchain node
\* while the submitters are active.
WaitCertificates ==
    /\ AtStep("wait_certificates")
    /\ Len(mc[Now.mc].pool) >= Now.size \/ \A n \in Now.nodes : ~Active(n)
    /\ Go
    /\ UNCHANGED <<env, mainchain, sidechain, txCount>>

Finish ==
    /\ Running /\ pc > Len(Steps)
    /\ outcome' = "passed"
    /\ UNCHANGED <<script, pc, env, mainchain, sidechain, txCount>>

----------------------------------------------------------------------------
(* Start of a test: main of SidechainTestFramework up to run_test *)

\* Block 1 stands for the blocks before the creation of the sidechain, which is
\* in block 2 of the first mainchain node.
Init ==
    /\ script \in Scripts
    /\ pc = 1 /\ env = [genesis |-> <<1>>, creation |-> <<2>>] /\ outcome = "running" /\ txCount = 0
    /\ mcb = <<[parent |-> 0, txs |-> <<>>], [parent |-> 1, txs |-> <<>>]>>
    /\ mc = [m \in McNode |-> [chain |-> IF m = 1 THEN <<1, 2>> ELSE <<1>>, pool |-> <<>>]]
    /\ mcLinks = P.mc_links
    /\ scb = <<[parent |-> 0, epoch |-> 1, headers |-> <<2>>, data |-> <<2>>, ommers |-> <<>>, txs |-> <<>>,
                forger |-> "genesis", state |-> GenesisState(P), height |-> 1, before |-> <<>>, hs |-> <<2>>, nd |-> 1, score |-> 1]>>
    /\ sc = [n \in ScNode |-> Started([tip |-> 1, known |-> {1}, lost |-> <<>>, keys |-> IF n = 1 THEN Append(P.initial_private_keys, "genesis") ELSE <<>>], n)]
    /\ scLinks = P.sc_links /\ scNet = {}

Drive ==
    \/ Generate \/ GenerateNextBlock \/ ScSend \/ CreateKey \/ SendCoins \/ SpendBoxesOfType \/ SwitchSubmitter \/ EvmSendTransaction
    \/ SpendForgingStake \/ ReadList
    \/ CreateKeyRotationTransaction \/ MakeTransaction \/ SendTransaction
    \/ MakeOpenStake \/ OpenForgerList \/ MakeCore
    \/ StartScNode \/ StopScNode \/ RollbackStorages \/ InvalidateBlock \/ DisableSigner \/ AskCswProof \/ SendCsw
    \/ LinkMc \/ LinkSc \/ Check \/ Wait \/ Read \/ Slice
    \/ SyncMcBlocks \/ SyncMcPools \/ SyncScBlocks \/ SyncScPools
    \/ Sleep \/ WaitCertificates \/ Finish

Relay ==
    \/ \E i, j \in McNode : McRelayBlocks(i, j) \/ McRelayTx(i, j)
    \/ \E i, j \in ScNode : ScRelayBlock(i, j) \/ RelaySignatures(i, j)
    \/ ScRelayTx

Certify == \E n \in ScNode : GenerateCertificate(n) \/ SendCertificate(n) \/ GenerateCswProof(n)

\* The nodes are stopped after the script.
Terminated == ~Running /\ UNCHANGED vars

Next == Drive \/ Relay \/ Certify \/ Terminated

\* No fairness: that every script ends is the absence of deadlock, as only a
\* script that has ended may stutter and every step brings it nearer its end.
Spec == Init /\ [][Next]_vars

----------------------------------------------------------------------------
(* Properties *)

\* No assertion of a script fails, whatever the order in which blocks,
\* transactions and signatures are relayed and certificates are made.
AssertionsHold == outcome # "failed"

\* Along every chain of sidechain blocks, with forks of the mainchain and with
\* references that wait for a later block, the headers are a path of mainchain
\* blocks and the references with data are a prefix of it.
ReferencesFollowMainchain ==
    LET b == scb[Len(scb)]
    IN  /\ \A i \in 2 .. Len(b.hs) : mcb[b.hs[i]].parent = b.hs[i - 1]
        /\ b.nd <= Len(b.hs)
        /\ b.data = SubSeq(b.hs, b.nd - Len(b.data) + 1, b.nd)

\* Coins of a state: boxes and balances, fees that are not paid yet, and the
\* withdrawal requests, which the mainchain pays.
CoinsOf(st) ==
    SumOf(st.boxes) + MapThenSumSet(LAMBDA a : st.bal[a], DOMAIN st.bal)
    + SumRange([i \in 1 .. Len(st.fees) |-> st.fees[i].own + st.fees[i].shared], 1, Len(st.fees))
    + MapThenSumSet(LAMBDA e : SumOf(st.wr[e]), DOMAIN st.wr)

\* Coins sent to the sidechain in these mainchain blocks.
Transferred(blocks) ==
    LET transfers(b) == SelectSeq(mcb[b].txs, LAMBDA t : t.kind = "ft")
        sent(txs) == SumRange([i \in 1 .. Len(txs) |-> SumOf(txs[i].outs)], 1, Len(txs))
    IN  SumRange([i \in 1 .. Len(blocks) |-> sent(transfers(blocks[i]))], 1, Len(blocks))

\* Coins are neither made nor lost by transactions that are applied or reverted,
\* payments of fees with their roundings, distributions of the forger pool and
\* switches to other chains: every block has the coins of the creation and of
\* the forward transfers it and its ancestors have the data of.
CoinsAreConserved ==
    LET b == scb[Len(scb)]
    IN  CoinsOf(b.state) = P.forward_amount + Transferred(SubSeq(b.hs, 1, b.nd))

\* When a chain has passed the window of an epoch, the best of the certificates
\* in its references pays the withdrawal requests of that epoch on that chain,
\* though nodes on other chains may have sent certificates too.
CertificatesPayRequests ==
    LET b == scb[Len(scb)]
        certs(e) == CertsOf(SubSeq(b.hs, 1, b.nd), e)
        settled == b.state.we - IF b.state.idx >= certificateSubmissionWindowLength(L) THEN 1 ELSE 2
    IN  \A e \in 0 .. settled : certs(e) # {} => CertificateMatches(b.state, Best(certs(e)))

\* The loops that wait for equal heights end with equal chains.
SyncedNodesAgree ==
    [][pc' # pc =>
          /\ Now.op = "sync_blocks" => \A i, j \in Now.nodes : McTip(i) = McTip(j)
          /\ Now.op = "sync_sc_blocks" => \A i, j \in Now.nodes : sc[i].tip = sc[j].tip]_vars
=============================================================================
