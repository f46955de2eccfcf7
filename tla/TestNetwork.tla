----------------------------- MODULE TestNetwork -----------------------------
(***************************************************************************)
(* The network the integration tests of qa/ run: mainchain nodes and       *)
(* sidechain nodes, driven by a script. A script is data: the set-up of a  *)
(* test and the sequence of its calls and assertions (see TestSteps and    *)
(* the modules named ...Tests). The calls of the script are interleaved    *)
(* with what the nodes do by themselves: they relay blocks, transactions   *)
(* and signatures, and submit certificates.                                *)
(*                                                                         *)
(* Mainchain nodes are external programs and are modelled by what the      *)
(* tests and the websocket client use of them.                             *)
(***************************************************************************)
EXTENDS SidechainLedger, FiniteSets

CONSTANTS
    Scripts,            \* the tests: [name, setup, steps]
    MAX_BLOCKS_REQUEST, \* MainchainSynchronizer.MAX_BLOCKS_REQUEST
    MAX_TX_REQUESTS     \* SidechainTransaction.MAX_WITHDRAWAL_BOXES_ALLOWED

VARIABLES
    script,     \* the test that runs, [name, setup, steps]; it never changes
    pc,         \* next step of the script
    env,        \* values of the variables of the script: sequences
    outcome,    \* "running", "passed" or "failed"
    mcb,        \* mainchain blocks: [parent, txs]
    mc,         \* mainchain nodes: [chain, pool], the active chain and the mempool
    mcLinks,    \* pairs of connected mainchain nodes
    scb,        \* sidechain blocks, with the state each one leads to
    sc,         \* sidechain nodes: [tip, known, pool, keys, up, submitter, proofs]
    scLinks,    \* pairs of connected sidechain nodes
    scNet,      \* transactions on their way: <<receiver, transaction>>
    txCount     \* identities given to transactions so far

mainchain == <<mcb, mc, mcLinks>>
sidechain == <<scb, sc, scLinks, scNet>>
driver == <<script, pc, env, outcome>>
vars == <<driver, mainchain, sidechain, txCount>>

P == script.setup
Steps == script.steps
L == P.withdrawal_epoch_length
McNode == 1 .. P.mc_nodes
ScNode == 1 .. Len(P.sc_nodes)
Running == outcome = "running"

----------------------------------------------------------------------------
(* Mainchain: the sidechain it knows *)

\* ScMaxNumberOfCswInputsInMempool of the regression test network
MAX_CSW_IN_MEMPOOL == 5

McHeight(m) == Len(mc[m].chain)
McTip(m) == Last(mc[m].chain)

\* Transactions of a chain.
McTxs(chain) == UNION {Range(mcb[chain[i]].txs) : i \in 1 .. Len(chain)}

\* Block 2 has the creation and is the first of withdrawal epoch 0.
McEpoch(height) == (height - 2) \div L
McIndex(height) == 1 + ((height - 2) % L)

\* Certificates of epoch e among the blocks of a chain.
CertsOf(chain, e) == {t \in McTxs(chain) : IsCert(t) /\ t.epoch = e}

\* A sidechain ceases at the end of a submission window without certificate.
McCeased(chain) ==
    /\ ~P.non_ceasing
    /\ \E h \in 2 .. Len(chain) :
          /\ McEpoch(h) > 0 /\ McIndex(h) = certificateSubmissionWindowLength(L)
          /\ CertsOf(SubSeq(chain, 1, h), McEpoch(h) - 1) = {}

\* Whether the next block on top of a chain can have a certificate.
CertFits(chain, cert) ==
    LET h == Len(chain) + 1
        certified == {t.epoch : t \in {x \in McTxs(chain) : IsCert(x)}}
    IN  /\ cert.end \in Range(chain)
        /\ IF P.non_ceasing
           THEN /\ cert.epoch = Cardinality(certified)
                /\ cert.epoch < McEpoch(h)
                \* the end is not before the block with the previous certificate
                /\ \A i, j \in 1 .. Len(chain) :
                      chain[i] = cert.end /\ (\E t \in Range(mcb[chain[j]].txs) : IsCert(t)) => j <= i
           ELSE /\ cert.epoch = McEpoch(h) - 1
                /\ McIndex(h) <= certificateSubmissionWindowLength(L)
                /\ \A t \in CertsOf(chain, cert.epoch) : t.quality < cert.quality
                /\ ~McCeased(chain)

\* What a mempool keeps on top of a chain.
McPool(chain, txs) ==
    SelectSeq(txs, LAMBDA t : CASE t.kind = "cert" -> CertFits(chain, t)
                                [] t.kind = "ft"   -> ~McCeased(chain)
                                [] OTHER           -> TRUE)

----------------------------------------------------------------------------
(* Mainchain: nodes *)

\* Transactions of blocks that leave the active chain return to the mempool.
McSwitch(j, new, old) ==
    mc' = [mc EXCEPT ![j].chain = new,
                     ![j].pool = McPool(new, SelectSeq(@, LAMBDA t : t \notin McTxs(new))
                                             \o SetToSeq((McTxs(old) \ McTxs(new)) \ Range(@)))]

\* Node j takes a longer chain of a node it is connected to.
McRelayBlocks(i, j) ==
    /\ Running /\ {i, j} \in mcLinks
    /\ McHeight(i) > McHeight(j)
    /\ McSwitch(j, mc[i].chain, mc[j].chain)
    /\ UNCHANGED <<driver, mcb, mcLinks, sidechain, txCount>>

McRelayTx(i, j) ==
    /\ Running /\ {i, j} \in mcLinks
    /\ McTip(i) = McTip(j)
    /\ \E t \in Range(mc[i].pool) \ Range(mc[j].pool) :
          mc' = [mc EXCEPT ![j].pool = Append(@, t)]
    /\ UNCHANGED <<driver, mcb, mcLinks, sidechain, txCount>>

----------------------------------------------------------------------------
(* Sidechain blocks. A block has the sequence of the blocks before it and  *)
(* of all mainchain headers up to it, the number of them whose data is     *)
(* included, and the score of its chain, which the node keeps as           *)
(* SidechainBlockInfo.                                                     *)

ScChain(b) == IF b = 0 THEN <<>> ELSE Append(scb[b].before, b)

\* Ommer.score and SidechainBlockBase.score: one, and one for every ommer at any depth.
RECURSIVE Score(_)
Score(block) == 1 + FoldSeq(LAMBDA o, acc : Score(o) + acc, 0, block.ommers)

ommersCumulativeScore(block) == Score(block) - 1

\* The last block of the chain of b in consensus epoch e or before, else the genesis block.
RECURSIVE LastBlockInEpoch(_, _)
LastBlockInEpoch(b, e) ==
    IF scb[b].epoch <= e \/ scb[b].parent = 0 THEN b ELSE LastBlockInEpoch(scb[b].parent, e)

\* Block signing keys with a stake that counts for a block of epoch e on top of
\* b: the stakes at the end of the epoch before the previous one.
StakesIn(st) == SelectSeq(st.boxes, LAMBDA x : x.type = "ForgerBox")
ForgingStakes(b, e) == {f.forger : f \in Range(StakesIn(scb[LastBlockInEpoch(b, e - 2)].state))}

\* forgingStakeInfo of a block: the stakes its forger had then, and the forger.
StakeOfForger(st, forger) == SumOf(SelectSeq(StakesIn(st), LAMBDA x : x.forger = forger))
forgingStakeInfo(b) == <<StakeOfForger(scb[LastBlockInEpoch(b.parent, b.epoch - 2)].state, b.forger), b.forger>>

----------------------------------------------------------------------------
(* Forging: AbstractForgeMessageBuilder *)

\* The active chain of the mainchain node of n, or nothing without a connection.
Mainchain(n) == IF P.sc_nodes[n].mc = 0 THEN <<>> ELSE mc[P.sc_nodes[n].mc].chain

\* MainchainSynchronizer: how many of the headers hs are on the active chain.
\* Header i has height i + 1. Without a connection the forger goes on from its
\* own last header.
CommonHeaders(hs, chain) ==
    IF chain = <<>> THEN Len(hs)
    ELSE CHOOSE k \in 1 .. Len(hs) : /\ k < Len(chain) /\ chain[k + 1] = hs[k]
                                     /\ \A j \in k + 1 .. Len(hs) : j >= Len(chain) \/ chain[j + 1] # hs[j]

\* getMainchainDivergentSuffix after the common point, without the last
\* mcBlockRefDelay blocks.
NewHeaders(chain, k, delay) ==
    LET new == Prefix(SubSeq(chain, k + 2, Len(chain)), MAX_BLOCKS_REQUEST - 1)
    IN  IF Len(new) > delay THEN Prefix(new, Len(new) - delay) ELSE <<>>

\* getBranchPointInfo, no header is orphaned: the active chain is extended.
ExtendBest(best, new) ==
    [ok |-> TRUE, parent |-> best, headers |-> new,
     data |-> Prefix(SubSeq(scb[best].hs, scb[best].nd + 1, Len(scb[best].hs)) \o new,
                     McBlocksLeft(scb[best].state, L))]

\* A mutant: the headers of the orphaned block that are still valid are lost.
BranchWithNewOnly(best, orphan, k, new) ==
    [ok |-> Len(scb[best].hs) - k < Len(new), parent |-> scb[orphan].parent, headers |-> new, data |-> <<>>]

\* getBranchPointInfo, headers after the first k are orphaned: the parent of the
\* block with the first of them, and the headers before it in that block.
BranchAt(best, orphan, k, new) ==
    [ok |-> Len(scb[best].hs) - k < Len(new), parent |-> scb[orphan].parent,
     headers |-> SubSeq(scb[orphan].hs, Len(scb[scb[orphan].parent].hs) + 1, k) \o new,
     data |-> <<>>]

getBranchPointInfo(best, k, new) ==
    IF k = Len(scb[best].hs) THEN ExtendBest(best, new)
    ELSE BranchAt(best,
                  CHOOSE b \in Range(ScChain(best)) : /\ Len(scb[b].hs) > k
                                                      /\ Len(scb[scb[b].parent].hs) <= k,
                  k, new)

Ommer(b) == [id |-> b, headers |-> scb[b].headers, ommers |-> scb[b].ommers]

Except(seq, set) == SelectSeq(seq, LAMBDA x : x \notin set)

\* The blocks of the chain of a that are not in the chain of b.
Beyond(a, b) == Except(ScChain(a), Range(ScChain(b)))

\* The blocks a fork leaves, from the oldest (forgeBlock).
Ommers(blocks) == [i \in 1 .. Len(blocks) |-> Ommer(blocks[i])]

\* The block with the fields of SidechainBlockInfo.
WithInfo(block, parent) ==
    [parent |-> block.parent, epoch |-> block.epoch, headers |-> block.headers, data |-> block.data,
     ommers |-> block.ommers, txs |-> block.txs, forger |-> block.forger, state |-> block.state,
     height |-> parent.height + 1, before |-> Append(parent.before, block.parent), hs |-> parent.hs \o block.headers,
     nd |-> parent.nd + Len(block.data), score |-> parent.score + Score(block)]

\* forgeBlock with the pool txs on top of the state st, next being the state
\* after the references.
NewBlock(at, epoch, forger, reward, ommers, next, txs) ==
    [parent |-> at.parent, epoch |-> epoch, headers |-> at.headers, data |-> at.data,
     ommers |-> ommers, txs |-> txs, forger |-> forger, state |-> ApplyTxs(next, txs, reward, forger, P)]

\* The fees are for the forger's key or, in the account model, for the address
\* that is configured or else the first one of the wallet.
RewardAddress(n, forger) ==
    IF ~P.evm THEN forger ELSE IF P.sc_nodes[n].reward # "" THEN P.sc_nodes[n].reward ELSE Head(sc[n].keys)

\* A mutant: the last block of a withdrawal epoch takes transactions too.
TakesTxsAlways(n, at, next) == at.parent = sc[n].tip

\* No transactions in the last block of a withdrawal epoch nor beside the tip.
TakesTxs(n, at, next) == next.idx # L /\ at.parent = sc[n].tip

TxsToForge(n, at, next) ==
    IF TakesTxs(n, at, next) THEN CollectTxs(scb[at.parent].state, next, Len(at.data), sc[n].pool, P) ELSE <<>>

Refs(data) == [i \in 1 .. Len(data) |-> mcb[data[i]]]

\* Transactions that the caller of block_generate forces are not checked before.
ForcedAreInvalid(next, txs, forced) ==
    forced # <<>> /\ Applicable(next, txs \o forced, P) # txs \o forced

ForgeWithTxs(n, at, epoch, forger, next, txs, forced) ==
    IF ForcedAreInvalid(next, txs, forced) THEN [error |-> "invalid block"]
    ELSE [error |-> "",
          block |-> WithInfo(NewBlock(at, epoch, forger, RewardAddress(n, forger), Ommers(Beyond(sc[n].tip, at.parent)), next, txs \o forced),
                             scb[at.parent])]

\* getCurrentConsensusEpochInfo: an epoch cannot end without stakes.
EpochEndsWithoutStakes(parent, epoch) == epoch > parent.epoch /\ StakesIn(parent.state) = <<>>

ForgeOn(n, at, epoch, forgers, next, forced) ==
    IF forgers = {} THEN [error |-> "no forging stake"]
    ELSE IF EpochEndsWithoutStakes(scb[at.parent], epoch) THEN [error |-> "invalid block"]
    ELSE IF ~ValidBlock(scb[at.parent].state, next, TopQualityCertificates(Refs(at.data)), P)
    THEN [error |-> "invalid block"]
    ELSE ForgeWithTxs(n, at, epoch, CHOOSE f \in forgers : TRUE, next, TxsToForge(n, at, next),
                      IF TakesTxs(n, at, next) THEN forced ELSE <<>>)

\* tryToForgeNextBlock: the block, or the reason there is none. The blocks of the
\* scripts are below the size limit, their references come in time, and no 99 of
\* them in a row are without mainchain headers.
TryToForge(n, at, epoch, forced) ==
    IF ~at.ok THEN [error |-> "No sense to forge"]
    ELSE IF epoch - scb[at.parent].epoch > 1 THEN [error |-> "whole consensus epoch is missed"]
    ELSE ForgeOn(n, at, epoch, ForgingStakes(at.parent, epoch) \cap Range(sc[n].keys),
                 ApplyReferences(scb[at.parent].state, Refs(at.data), epoch, P), forced)

ForgeAfter(n, best, chain, k, epoch, forced) ==
    TryToForge(n, getBranchPointInfo(best, k, NewHeaders(chain, k, P.sc_nodes[n].delay)), epoch, forced)

ForgeWith(n, best, chain, epoch, forced) ==
    ForgeAfter(n, best, chain, CommonHeaders(scb[best].hs, chain), epoch, forced)

tryToForgeNextBlock(n, epoch, forced) == ForgeWith(n, sc[n].tip, Mainchain(n), epoch, forced)
=============================================================================
