------------------------------ MODULE TestNodes ------------------------------
(***************************************************************************)
(* What the sidechain nodes of a test do by themselves: relay blocks,      *)
(* transactions and certificate signatures to their peers, and submit      *)
(* certificates to the mainchain. CertificateSubmitter has the actor of    *)
(* one node in detail; here its handlers for a block and for signatures    *)
(* are done with the block, and its timer and its proof take a step each.  *)
(***************************************************************************)
EXTENDS TestNetwork

----------------------------------------------------------------------------
(* The certificate submitter of a node: whether it is enabled and signs,   *)
(* the keys it has, the epoch of its signaturesStatus (-1 for none) with   *)
(* the indexes of the known signatures, "idle", "scheduled" or "proving",  *)
(* and the certificate whose proof is made.                                *)

NoCert == [epoch |-> -1]

Certified(st) == DOMAIN st.certs

\* getStatus of the strategy: the epoch to certify in state st.
ReferencedEpoch(st) == IF P.non_ceasing THEN Max({-1} \cup Certified(st)) + 1 ELSE st.we - 1

\* getStatus of the strategy: whether a certificate can be submitted.
IsInWindow(st) ==
    IF P.non_ceasing
    THEN \/ ReferencedEpoch(st) + 1 < st.we
         \/ ReferencedEpoch(st) + 1 = st.we /\ st.idx >= 1
    ELSE inSubmitCertificateWindow(st, L)

\* Quality of the certificate of a later epoch, or of epoch e, in a pool or else
\* in a chain; 0 for none (getTopQualityCertificates).
TopQuality(certs, e) ==
    IF \E t \in certs : t.epoch > e THEN P.cert_max_keys
    ELSE Max({0} \cup {t.quality : t \in {x \in certs : x.epoch = e}})

PoolCerts(m) == {t \in Range(mc[m].pool) : IsCert(t)}

\* checkQuality of the strategy for a certificate of epoch e with q signatures,
\* asked of mainchain node m (0 for none).
checkQuality(m, e, q) ==
    /\ q >= P.cert_sig_threshold
    /\ IF m = 0 THEN P.non_ceasing
       ELSE IF P.non_ceasing
       THEN \A t \in PoolCerts(m) \cup McTxs(mc[m].chain) : IsCert(t) => t.epoch < e
       ELSE IF \E t \in PoolCerts(m) : t.epoch >= e
       THEN q > TopQuality(PoolCerts(m), e)
       ELSE q > TopQuality({t \in McTxs(mc[m].chain) : IsCert(t)}, e)

\* What checkQuality logs when a certificate of the quality is there already.
LogUnneeded(sub, q) == IF q >= P.cert_sig_threshold THEN [sub EXCEPT !.log = @ \cup {"not needed"}] ELSE sub

\* tryToScheduleCertificateGeneration, with q signatures
ScheduleWith(m, sub, q) ==
    IF ~sub.on \/ sub.phase # "idle" \/ sub.epoch = -1 THEN sub
    ELSE IF checkQuality(m, sub.epoch, q) THEN [sub EXCEPT !.phase = "scheduled"] ELSE LogUnneeded(sub, q)

Schedule(m, sub) == ScheduleWith(m, sub, Cardinality(sub.sigs))

\* calculateSignatures: the indexes of the signers whose keys the node, or its
\* secure enclave, has. The signers of an epoch are those of the one before it
\* (getMessageToSignAndPublicKeys).
OwnSignatures(sub, st, e) ==
    IF sub.sign THEN {i \in 1 .. P.cert_max_keys : KeyAt(st, 0, i - 1, e - 1) \in sub.keys} ELSE {}

\* newBlockArrived, with the signatures it leads to.
newBlockArrived(m, sub, st) ==
    IF ~IsInWindow(st)
    THEN [sub EXCEPT !.epoch = -1, !.sigs = {}, !.phase = IF @ = "scheduled" THEN "idle" ELSE @]
    ELSE IF sub.epoch = ReferencedEpoch(st) THEN sub
    ELSE Schedule(m, [sub EXCEPT !.epoch = ReferencedEpoch(st), !.sigs = OwnSignatures(sub, st, ReferencedEpoch(st))])

McOf(n) == P.sc_nodes[n].mc

\* lastMainchainBlockCumulativeCommTreeHashForWithdrawalEpochNumber: the end of
\* the epoch, or, without ceasing, the block with the last certificate when it
\* is later.
EndOf(sub, b) ==
    b.hs[IF P.non_ceasing THEN Max({(sub.epoch + 1) * L, b.state.lastCert}) ELSE (sub.epoch + 1) * L]

\* The message to sign is the same for two nodes: the same backward transfers
\* and the same end, and the same keys (in the first custom field).
CertificateOf(sub, b) ==
    [epoch |-> sub.epoch, bts |-> Get(b.state.wr, sub.epoch, <<>>), end |-> EndOf(sub, b),
     keys |-> certifiersKeys(b.state, sub.epoch, P)]

\* The signatures of node i that node j does not have reach it.
RelaySignatures(i, j) ==
    /\ Running /\ {i, j} \in scLinks /\ sc[i].up /\ sc[j].up
    /\ sc[i].submitter.epoch # -1 /\ sc[i].submitter.epoch = sc[j].submitter.epoch
    /\ ~(sc[i].submitter.sigs \subseteq sc[j].submitter.sigs)
    /\ CertificateOf(sc[i].submitter, scb[sc[i].tip]) = CertificateOf(sc[j].submitter, scb[sc[j].tip])
    /\ sc' = [sc EXCEPT ![j].submitter = Schedule(McOf(j), [@ EXCEPT !.sigs = @ \cup sc[i].submitter.sigs])]
    /\ UNCHANGED <<driver, mainchain, scb, scLinks, scNet, txCount>>

\* tryToGenerateCertificate: the timer ends and the proof is started.
StartProof(n, sub, q) ==
    IF checkQuality(McOf(n), sub.epoch, q)
    THEN [sub EXCEPT !.phase = "proving", !.cert = CertificateOf(sub, scb[sc[n].tip]) @@ [quality |-> q]]
    ELSE LogUnneeded([sub EXCEPT !.phase = "idle"], q)

\* The signatures of all connected nodes have arrived.
SignaturesArrived == \A i, j \in ScNode : ~ENABLED RelaySignatures(i, j)

\* The random delay is of 5 to 20 seconds. In a test in a hurry the calls between
\* two sleeps take less, and so does the relay of signatures.
TimerMayEnd == P.in_a_hurry => Steps[pc].op \in {"sleep", "wait_certificates"} /\ SignaturesArrived

GenerateCertificate(n) ==
    /\ Running /\ sc[n].up /\ sc[n].submitter.phase = "scheduled"
    /\ pc <= Len(Steps) /\ TimerMayEnd
    /\ sc' = [sc EXCEPT ![n].submitter = StartProof(n, @, Cardinality(@.sigs))]
    /\ UNCHANGED <<driver, mainchain, scb, scLinks, scNet, txCount>>

\* The mainchain node takes a certificate that is better than the ones it has.
McAccepts(m, cert) ==
    /\ CertFits(mc[m].chain, cert)
    /\ \A t \in PoolCerts(m) : t.epoch = cert.epoch => ~P.non_ceasing /\ t.quality < cert.quality

\* CertificateSubmissionStopped
Stopped(sub) == [sub EXCEPT !.phase = "idle", !.cert = NoCert]

\* The mainchain node m takes the certificate of node n, or refuses it.
SendTo(m, n, sub) ==
    IF McAccepts(m, sub.cert)
    THEN /\ mc' = [mc EXCEPT ![m].pool = Append(@, sub.cert @@ [kind |-> "cert", id |-> txCount + 1])]
         /\ txCount' = txCount + 1
         /\ sc' = [sc EXCEPT ![n].submitter = Stopped([sub EXCEPT !.log = @ \cup {"sent"}])]
    ELSE /\ sc' = [sc EXCEPT ![n].submitter = Stopped(sub)]
         /\ UNCHANGED <<mc, txCount>>

\* tryToGenerateCertificate: the proof is ready and the certificate is sent. The
\* node may have left the window meanwhile.
SendCertificate(n) ==
    /\ Running /\ sc[n].up /\ sc[n].submitter.phase = "proving"
    /\ IF McOf(n) # 0 /\ checkQuality(McOf(n), sc[n].submitter.cert.epoch, sc[n].submitter.cert.quality)
       THEN SendTo(McOf(n), n, sc[n].submitter)
       ELSE /\ sc' = [sc EXCEPT ![n].submitter = LogUnneeded(Stopped(@), @.cert.quality)]
            /\ UNCHANGED <<mc, txCount>>
    /\ UNCHANGED <<driver, mcb, mcLinks, scb, scLinks, scNet>>

----------------------------------------------------------------------------
(* Withdrawals from a ceased sidechain: CswManager of a node has the       *)
(* queue of the boxes whose proofs are asked for and the set of those done *)
(* (the module CswManager has it in detail).                               *)

OwnedBy(n, boxes) == SelectSeq(boxes, LAMBDA b : b.owner \in Range(sc[n].keys))

\* loadCswWitness: the forward transfers of the epoch the sidechain ceased in
\* and of the two before it, and the coins at the end of the one before those,
\* which is the last with a certificate that counts.
CswForwardTransfers(n) ==
    LET st == scb[sc[n].tip].state
    IN  IF ~st.ceased THEN <<>>
        ELSE OwnedBy(n, CswDataOf(st, st.we - 2).fts \o CswDataOf(st, st.we - 1).fts \o CswDataOf(st, st.we).fts)

CswUtxos(n) ==
    LET st == scb[sc[n].tip].state IN IF ~st.ceased THEN <<>> ELSE OwnedBy(n, CswDataOf(st, st.we - 3).utxos)

IdsOfBoxes(boxes) == {BoxId(b) : b \in Range(boxes)}

CswBoxIds(n) == IdsOfBoxes(CswForwardTransfers(n) \o CswUtxos(n))

\* tryScheduleProofGeneration and processProofGenerationResults
GenerateCswProof(n) ==
    /\ Running /\ sc[n].up /\ sc[n].proofs.queue # <<>>
    /\ sc' = [sc EXCEPT ![n].proofs = [queue |-> Tail(@.queue), done |-> @.done \cup {Head(@.queue)}]]
    /\ UNCHANGED <<driver, mainchain, scb, scLinks, scNet, txCount>>

----------------------------------------------------------------------------
(* Storages of a node that is stopped. Each has a version for every block  *)
(* of the active chain; lost has how many of its last versions a storage   *)
(* does not have, as after a stop in the middle of an update. A version    *)
(* that is not of a block is 0.                                            *)

AppState == {"appState1", "appState2"}
AppWallet == {"appWallet1", "appWallet2"}
StateStorages == IF P.csw_enabled THEN {"stateUtxoMerkleTree", "state", "stateForgerBox"} ELSE {"state", "stateForgerBox"}
WalletStorages == {"wallet", "walletTransaction"} \cup IF P.csw_enabled THEN {"walletCswDataStorage"} ELSE {}

\* The storage of forging stakes has one more version at the start of a consensus
\* epoch, before the block, and one after the genesis block.
ForgingStakeVersions(chain) ==
    FlattenSeq([i \in 1 .. Len(chain) |->
                   IF i = 1 THEN <<chain[1], 0>>
                   ELSE IF scb[chain[i]].epoch > scb[chain[i - 1]].epoch THEN <<0, chain[i]>> ELSE <<chain[i]>>])

Without(versions, n) == SubSeq(versions, 1, Len(versions) - n)

VersionsOf(x, s) ==
    Without(IF s = "walletForgingStake" THEN ForgingStakeVersions(ScChain(x.tip)) ELSE ScChain(x.tip), Get(x.lost, s, 0))

LastVersion(x, s) == Last(VersionsOf(x, s))
HasVersion(x, s, v) == v \in Range(VersionsOf(x, s))

\* The history has three versions for a block: the block, its validity, and that
\* it is the best one.
HistoryVersions(x) == 3 * Len(ScChain(x.tip)) - Get(x.lost, "history", 0)
BestBlock(x) == ScChain(x.tip)[HistoryVersions(x) \div 3]
KnownBlocks(x) == x.known \ {ScChain(x.tip)[i] : i \in {k \in 1 .. Len(ScChain(x.tip)) : 3 * k - 2 > HistoryVersions(x)}}

\* ensureStorageConsistencyAfterRestore of the state: its version, or 0.
StateVersion(x, fb) ==
    IF \A s \in AppState : LastVersion(x, s) = fb
    THEN IF \A s \in StateStorages : LastVersion(x, s) = fb THEN fb ELSE 0
    ELSE IF \A s \in StateStorages \cup AppState : HasVersion(x, s, fb) THEN fb ELSE 0

RestoredState(x) == IF P.evm THEN LastVersion(x, "state") ELSE StateVersion(x, LastVersion(x, "stateForgerBox"))

\* ensureStorageConsistencyAfterRestore of the wallet, whose storage of forging
\* stakes may be one version ahead.
WalletIsConsistent(x, v) ==
    /\ \A s \in WalletStorages \cup AppWallet : LastVersion(x, s) = v
    /\ \/ LastVersion(x, "walletForgingStake") = v
       \/ Last(Without(VersionsOf(x, "walletForgingStake"), 1)) = v

\* The nearest ancestor of block v in the active chain, or 0 when v is unknown.
RollbackPoint(x, v) ==
    IF v \notin KnownBlocks(x) THEN 0 ELSE Last(SelectSeq(ScChain(v), LAMBDA b : b \in Range(ScChain(BestBlock(x)))))

RollsBack(x, to) ==
    \A s \in IF P.evm THEN {"state"} ELSE StateStorages \cup AppState \cup WalletStorages \cup AppWallet \cup {"walletForgingStake"} :
        HasVersion(x, s, to)

\* checkAndRecoverStorages: the block of the state of a node that starts, or 0
\* when it cannot start.
RecoveredTo(x, v) ==
    IF v = 0 THEN 0
    ELSE IF v = BestBlock(x) THEN IF P.evm \/ WalletIsConsistent(x, v) THEN v ELSE 0
    ELSE IF RollbackPoint(x, v) # 0 /\ RollsBack(x, RollbackPoint(x, v)) THEN RollbackPoint(x, v) ELSE 0

Recovered(x) == IF x.lost = <<>> THEN x.tip ELSE RecoveredTo(x, RestoredState(x))

----------------------------------------------------------------------------
(* Blocks and transactions *)

TxsOf(blocks) == FlattenSeq([i \in 1 .. Len(blocks) |-> scb[blocks[i]].txs])

\* The pool of a node that leaves the blocks removed and takes the transactions
\* applied (updateMemPool of the two node view holders).
PoolAfter(pool, removed, applied, st) ==
    PoolFilter(st, SelectSeq(TxsOf(removed) \o pool,
                             LAMBDA t : \A u \in Range(applied) : u.id # t.id), P)

\* Node record x moves to block b, which is block number id.
MovedTo(x, m, id, b, applied) ==
    [x EXCEPT !.tip = id, !.known = @ \cup {id},
              !.pool = PoolAfter(@, Beyond(x.tip, b.parent), applied, b.state),
              !.submitter = newBlockArrived(m, @, b.state)]

\* A mutant: ommers do not count.
LongestChain(b, tip) == b.height > tip.height

\* isBestBlock: the chain of block b has the better score than that of block tip,
\* or the same and it is longer.
isBestBlock(b, tip) == b.score > tip.score \/ (b.score = tip.score /\ b.height > tip.height)

\* Node j gets block b of a peer, keeps it, and takes its chain when that is the
\* better one. A state that is behind the history takes no block.
GetBlock(j, b) ==
    sc' = [sc EXCEPT ![j] =
              IF isBestBlock(scb[b], scb[@.tip]) /\ ~@.behind
              THEN MovedTo(@, McOf(j), b, scb[b], TxsOf(Beyond(b, @.tip)))
              ELSE [@ EXCEPT !.known = @ \cup {b}]]

\* Node j gets the next block of the active chain of node i.
ScRelayBlock(i, j) ==
    /\ Running /\ {i, j} \in scLinks /\ sc[i].up /\ sc[j].up
    /\ sc[i].tip \notin sc[j].known
    /\ GetBlock(j, Head(SelectSeq(ScChain(sc[i].tip), LAMBDA x : x \notin sc[j].known)))
    /\ UNCHANGED <<driver, mainchain, scb, scLinks, scNet, txCount>>

Peers(n) == {j \in ScNode : {n, j} \in scLinks /\ sc[j].up}

Announce(n, t) == {<<j, t>> : j \in Peers(n)}

Accepts(n, t) ==
    /\ sc[n].up
    /\ \A u \in Range(sc[n].pool) : u.id # t.id
    /\ Compatible(scb[sc[n].tip].state, t, sc[n].pool, P)

\* A transaction is announced once, when a node accepts it.
ScRelayTx ==
    /\ Running
    /\ \E m \in scNet :
          IF Accepts(m[1], m[2])
          THEN /\ sc' = [sc EXCEPT ![m[1]].pool = AddToPool(@, m[2])]
               /\ scNet' = (scNet \ {m}) \cup Announce(m[1], m[2])
          ELSE /\ sc' = sc
               /\ scNet' = scNet \ {m}
    /\ UNCHANGED <<driver, mainchain, scb, scLinks, txCount>>
=============================================================================
