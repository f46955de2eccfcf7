--------------------------- MODULE SidechainLedger ---------------------------
(***************************************************************************)
(* What a sidechain node computes when it applies a block: the coins of    *)
(* the UTXO model (boxes) or of the account model (balances), the          *)
(* withdrawal epoch, its requests, its certificate and its fees. Pure      *)
(* operators: a state is a record, and a block carries the state it leads  *)
(* to, which is what the versioned storages keep.                          *)
(***************************************************************************)
EXTENDS Integers, Sequences, SequencesExt, FiniteSetsExt

\* The value of f at k, or d outside of its domain.
Get(f, k, d) == IF k \in DOMAIN f THEN f[k] ELSE d

\* f with k mapped to v.
Put(f, k, v) == [x \in DOMAIN f \cup {k} |-> IF x = k THEN v ELSE f[x]]

Prefix(s, n) == SubSeq(s, 1, IF n < Len(s) THEN n ELSE Len(s))

\* Sum of the numbers i to j of a sequence, halved for the depth of the recursion.
RECURSIVE SumRange(_, _, _)
SumRange(s, i, j) ==
    IF i > j THEN 0 ELSE IF i = j THEN s[i]
    ELSE SumRange(s, i, (i + j) \div 2) + SumRange(s, ((i + j) \div 2) + 1, j)

\* Total value of a sequence of boxes or outputs.
SumOf(s) == FoldLeft(LAMBDA acc, o : o.value + acc, 0, s)

----------------------------------------------------------------------------
(* Amounts are in satoshi. A coin is 10^5 of them instead of 10^8, so that *)
(* the sums of a test fit in 32 bits.                                      *)

COIN == 100000

\* ZenCoinsUtils.getMinDustThreshold
DUST == 54

\* What a transaction of the account model costs: the base fee, and the tip that
\* is part of it.
EVM_FEE == 3
EVM_TIP == 1

\* AppForkConfigurator: the consensus epochs of the mandatory fork and, of the
\* account model, of Version1_2_0Fork, Version1_3_0Fork and Version1_4_0Fork.
FORK_EPOCH == 3
V1_2_EPOCH == 60
V1_3_EPOCH == 70
V1_4_EPOCH == 80

\* WellKnownAddresses
FORGER_POOL == "FORGER_POOL_RECIPIENT_ADDRESS"
FORGER_STAKE == "FORGER_STAKE_SMART_CONTRACT_ADDRESS"
WITHDRAWAL_REQ == "WITHDRAWAL_REQ_SMART_CONTRACT_ADDRESS"
NativeContracts == {FORGER_STAKE, WITHDRAWAL_REQ}

----------------------------------------------------------------------------
(* Withdrawal epochs (WithdrawalEpochUtils). L is withdrawalEpochLength.   *)

certificateSubmissionWindowLength(L) == IF L \div 5 > 2 THEN L \div 5 ELSE 2

\* getWithdrawalEpochInfo: the epoch of a block with n references.
EpochAfter(st, n, L) == IF st.idx = L \/ st.idx + n > L THEN st.we + 1 ELSE st.we

\* getWithdrawalEpochInfo: its last index.
IndexAfter(st, n, L) ==
    IF EpochAfter(st, n, L) = st.we THEN st.idx + n
    ELSE IF n = L /\ st.idx = L THEN n ELSE (st.idx + n) % L

\* From state st to the state next.
hasReachedCertificateSubmissionWindowEnd(st, next, L) ==
    /\ next.we > 0
    /\ st.idx < certificateSubmissionWindowLength(L) \/ st.idx = L
    /\ next.idx >= certificateSubmissionWindowLength(L)

inSubmitCertificateWindow(st, L) == st.we > 0 /\ st.idx <= certificateSubmissionWindowLength(L)

\* withdrawalEpochMcBlocksLeft: references that still fit in the epoch.
McBlocksLeft(st, L) == IF st.idx = L THEN L ELSE L - st.idx

----------------------------------------------------------------------------
(* Transactions. A box is known by the transaction and the output that     *)
(* made it; a transaction of the account model by its sender and nonce.    *)

NoCall == [f |-> "none"]

Tx0 == [id |-> 0, kind |-> "core", ins |-> {}, outs |-> <<>>,
        from |-> "", nonce |-> 0, to |-> "", value |-> 0, fee |-> 0, tip |-> 0, call |-> NoCall]

Out(type, owner, value) == [type |-> type, owner |-> owner, value |-> value, forger |-> owner]

BoxId(b) == <<b.tx, b.k>>

Box(tx, k, out) ==
    [tx |-> tx, k |-> k, type |-> out.type, owner |-> out.owner,
     value |-> out.value, forger |-> out.forger]

IsRequest(out) == out.type = "WithdrawalRequestBox"

\* newBoxes of a transaction; a withdrawal request is kept with its epoch.
NewBoxes(tx) ==
    SelectSeq([i \in 1 .. Len(tx.outs) |-> Box(tx.id, i, tx.outs[i])], LAMBDA b : ~IsRequest(b))

\* The withdrawal requests of a transaction, in their order.
Requests(tx) == SelectSeq(tx.outs, IsRequest)

----------------------------------------------------------------------------
(* Keys of the certifiers. Keys are numbers: signing key i of the set-up    *)
(* is i + 1 and master key i is i + 101, i counting from 0. A rotation has  *)
(* the type (0 signing, 1 master) and the index of a key, the new key, and  *)
(* the signatures of the two old keys and of the new one.                   *)

ConfigKey(type, i) == i + 1 + 100 * type

Signature(key, type, newKey, epoch) == [key |-> key, type |-> type, newKey |-> newKey, epoch |-> epoch]

\* getLatestSigningKey, getLatestMasterKey, and what certifiersKeys keeps at the
\* end of each epoch: the key of the last rotation up to epoch e.
KeyAt(st, type, i, e) ==
    LET epochs == {k[3] : k \in {x \in DOMAIN st.rot : x[1] = type /\ x[2] = i /\ x[3] <= e}}
    IN  IF epochs = {} THEN ConfigKey(type, i) ELSE st.rot[<<type, i, Max(epochs)>>].newKey

\* certifiersKeys of epoch e: signing keys and master keys.
certifiersKeys(st, e, p) ==
    << [i \in 1 .. p.cert_max_keys |-> KeyAt(st, 0, i - 1, e)],
       [i \in 1 .. IF p.key_rotation THEN p.cert_max_keys ELSE 0 |-> KeyAt(st, 1, i - 1, e)] >>

\* validateWithWithdrawalEpoch, checkKeyRotationProofValidity: r is signed by
\* the keys of the epoch before, for this epoch.
ValidRotation(st, r, keys) ==
    /\ r.index \in 0 .. keys - 1
    /\ r.signing = Signature(KeyAt(st, 0, r.index, st.we - 1), r.type, r.newKey, st.we)
    /\ r.master = Signature(KeyAt(st, 1, r.index, st.we - 1), r.type, r.newKey, st.we)
    /\ r.self = Signature(r.newKey, r.type, r.newKey, st.we)

IsRotation(tx) == tx.call.f = "rotate"

\* The last rotation of a key in an epoch is the one that counts.
AddRotation(st, tx) ==
    IF IsRotation(tx) THEN [st EXCEPT !.rot = Put(@, <<tx.call.type, tx.call.index, st.we>>, tx.call)] ELSE st

----------------------------------------------------------------------------
(* The allowed forgers. A sidechain may restrict its forgers to the        *)
(* sequence p.allowed_forgers until more than half of them vote to open    *)
(* the list. A forger is a block signing key and a VRF key under one name. *)

IsOpenStake(tx) == tx.call.f = "open"

\* isForgingOpen, isForgerListOpen
isForgingOpen(st, p) == p.allowed_forgers = <<>> \/ Cardinality(st.open) > Len(p.allowed_forgers) \div 2

\* A new stake is for an allowed forger.
AllowedStakes(st, tx, p) ==
    \/ isForgingOpen(st, p)
    \/ \A i \in 1 .. Len(tx.outs) : tx.outs[i].type = "ForgerBox" => tx.outs[i].forger \in Range(p.allowed_forgers)

\* A vote, by the index of a forger, which is not the second one of it.
ValidVote(st, index, p) ==
    ~isForgingOpen(st, p) /\ index \in 0 .. Len(p.allowed_forgers) - 1 /\ index \notin st.open

\* SidechainState.validate of an OpenStakeTransaction: the box it opens is of
\* the forger.
ValidOpenStake(st, tx, p) ==
    /\ st.epoch >= FORK_EPOCH /\ ValidVote(st, tx.call.index, p)
    /\ \A b \in Range(st.boxes) : BoxId(b) \in tx.ins => b.owner = p.allowed_forgers[tx.call.index + 1]

AddVotes(st, txs) == [st EXCEPT !.open = @ \cup {t.call.index : t \in {x \in Range(txs) : IsOpenStake(x)}}]

\* Two transactions that exclude each other in a block and in a pool: rotations
\* of one key (CertificateKeyRotationTransactionIncompatibilityChecker), votes
\* of one forger (OpenStakeTransactionIncompatibilityChecker).
SameKey(t, u) == IsRotation(t) /\ IsRotation(u) /\ t.call.type = u.call.type /\ t.call.index = u.call.index
SameForger(t, u) == IsOpenStake(t) /\ IsOpenStake(u) /\ t.call.index = u.call.index

----------------------------------------------------------------------------
(* The forger stakes of the account model (ForgerStakeMsgProcessor). The    *)
(* stakes are the boxes, in the order of getListOfForgersStakes: that of a  *)
(* list in ForgerStakeStorageV1, that of an array in ForgerStakeStorageV2,  *)
(* which has an array of ids for each owner too.                            *)

IsSpendStake(tx) == tx.call.f = "spend_stake"
IsUpgrade(tx) == tx.call.f = "upgrade"

\* isEoaAccount: neither a native contract nor one that was deployed.
isEoaAccount(st, a) == a \notin NativeContracts \cup st.code

IndexOf(s, id) == CHOOSE i \in 1 .. Len(s) : s[i] = id

\* StateDbArray.removeAndRearrange: the last element takes the place.
removeAndRearrange(s, i) == IF i = Len(s) THEN Front(s) ELSE [Front(s) EXCEPT ![i] = Last(s)]

\* OwnerStakeInfo.append for each of the stakes
AppendOwned(owned, stakes) ==
    FoldLeft(LAMBDA acc, b : Put(acc, b.owner, Append(Get(acc, b.owner, <<>>), BoxId(b))), owned, stakes)

\* addForgerStake
AddStakes(st, stakes) ==
    [st EXCEPT !.boxes = @ \o stakes, !.owned = IF st.upgraded THEN AppendOwned(@, stakes) ELSE @]

\* doUpgradeCmd: from the tip of the list, the newest stake first.
Upgrade(st) ==
    [st EXCEPT !.boxes = Reverse(@), !.owned = AppendOwned(<<>>, Reverse(st.boxes)), !.upgraded = TRUE]

\* doRemoveStakeCmd of the stake at index i: its owner gets the amount.
RemoveStakeAt(st, i) ==
    LET stake == st.boxes[i]
    IN  [st EXCEPT !.boxes = IF st.upgraded THEN removeAndRearrange(@, i) ELSE RemoveAt(@, i),
                   !.owned = IF ~st.upgraded THEN @
                             ELSE [@ EXCEPT ![stake.owner] = removeAndRearrange(@, IndexOf(@, BoxId(stake)))],
                   !.bal = Put(@, stake.owner, Get(@, stake.owner, 0) + stake.value)]

ApplyStakeCall(st, tx) ==
    IF IsSpendStake(tx) THEN RemoveStakeAt(st, CHOOSE i \in 1 .. Len(st.boxes) : BoxId(st.boxes[i]) = tx.call.stake)
    ELSE IF IsUpgrade(tx) THEN Upgrade(st)
    ELSE IF tx.call.f = "deploy" THEN [st EXCEPT !.code = @ \cup {tx.call.address}] ELSE st

\* What the contract answers to the commands of Version1_3_0Fork, before the fork
\* and before the upgrade.
ForkError(st) ==
    IF st.epoch < V1_3_EPOCH THEN "op code not supported"
    ELSE IF ~st.upgraded THEN "Forger stake storage not upgraded yet" ELSE ""

\* getPagedListOfForgersStakesFromList: the page and the next position, -1 after
\* the last.
Page(s, start, size) ==
    [next |-> IF start + size >= Len(s) THEN -1 ELSE start + size,
     ids |-> SubSeq(s, start + 1, Min({start + size, Len(s)}))]

ValidPage(s, start, size) == start >= 0 /\ size > 0 /\ start <= Len(s) - 1

----------------------------------------------------------------------------
(* Validity and effect of transactions *)

\* validateWithFork: no coins below the dust threshold after the fork.
validateWithFork(st, tx) ==
    st.epoch >= FORK_EPOCH => \A i \in 1 .. Len(tx.outs) : tx.outs[i].value >= DUST

\* Whether a transaction can be applied to a state (SidechainState.validate,
\* or the nonce and balance checks of the account state).
ValidTx(st, tx, p) ==
    IF tx.from = ""
    THEN /\ tx.ins \subseteq {BoxId(b) : b \in Range(st.boxes)}
         /\ validateWithFork(st, tx)
         /\ IsRotation(tx) => ValidRotation(st, tx.call, p.cert_max_keys)
         /\ IsOpenStake(tx) => ValidOpenStake(st, tx, p)
         /\ AllowedStakes(st, tx, p)
    ELSE /\ tx.nonce = Get(st.nonce, tx.from, 0)
         /\ tx.value + tx.fee <= Get(st.bal, tx.from, 0)

Credit(bal, owner, value) == Put(bal, owner, Get(bal, owner, 0) + value)

AddRequests(st, requests) ==
    IF requests = <<>> THEN st
    ELSE [st EXCEPT !.wr = Put(@, st.we, Get(@, st.we, <<>>) \o requests)]

SpendBoxes(st, tx) == [st EXCEPT !.boxes = SelectSeq(@, LAMBDA b : BoxId(b) \notin tx.ins) \o NewBoxes(tx)]

\* A transaction of the account model pays its value to an account, to a stake
\* or to a withdrawal request.
SpendBalance(st, tx) ==
    [st EXCEPT !.bal   = IF tx.outs = <<>>
                         THEN Credit(Credit(@, tx.from, -(tx.value + tx.fee)), tx.to, tx.value)
                         ELSE Credit(@, tx.from, -(tx.value + tx.fee)),
               !.nonce = Put(@, tx.from, tx.nonce + 1)]

\* Whether the message processors execute a transaction of the account model:
\* a withdrawal request is not below the dust threshold nor one too many, the
\* rotation of a key is signed by the old keys and has the gas it needs, a stake
\* is for an allowed forger and owned by an account without code, a forger votes
\* once (doOpenStakeForgerListCmd), a stake is removed with the signature of its
\* owner, the storage is upgraded once. A native contract takes no plain payment.
Executes(st, tx, p) ==
    /\ \A i \in 1 .. Len(tx.outs) : IsRequest(tx.outs[i]) =>
           tx.outs[i].value >= DUST /\ Len(Get(st.wr, st.we, <<>>)) < p.max_requests
    /\ IsRotation(tx) => tx.call.gas /\ ValidRotation(st, tx.call, p.cert_max_keys)
    /\ IsOpenStake(tx) => ValidVote(st, tx.call.index, p)
    /\ AllowedStakes(st, tx, p)
    /\ \A i \in 1 .. Len(tx.outs) : tx.outs[i].type = "ForgerBox" => isEoaAccount(st, tx.outs[i].owner)
    /\ IsSpendStake(tx) => \E b \in Range(st.boxes) : BoxId(b) = tx.call.stake /\ b.owner = tx.call.signer
    /\ IsUpgrade(tx) => st.epoch >= V1_3_EPOCH /\ ~st.upgraded
    /\ tx.to \in NativeContracts => tx.call # NoCall

\* A transaction that is reverted is in the block and pays its fee.
Revert(st, tx) ==
    [st EXCEPT !.bal = Credit(@, tx.from, -tx.fee), !.nonce = Put(@, tx.from, tx.nonce + 1),
               !.reverted = @ \cup {tx.id}]

\* A vote of the UTXO model counts after its block.
ApplyTx(st, tx, p) ==
    IF tx.from = "" THEN AddRotation(AddRequests(SpendBoxes(st, tx), Requests(tx)), tx)
    ELSE IF Executes(st, tx, p)
    THEN AddVotes(AddRotation(AddRequests(ApplyStakeCall(AddStakes(SpendBalance(st, tx), NewBoxes(tx)), tx), Requests(tx)), tx), <<tx>>)
    ELSE Revert(st, tx)

\* validateBlockTransactionsMutuality
Mutual(t, done) == t.from = "" => \A u \in Range(done) : ~SameKey(t, u) /\ ~SameForger(t, u)

\* The transactions that apply one after the other, in their order, after the
\* ones in done, and the state they lead to.
RECURSIVE Apply(_, _, _, _)
Apply(st, done, txs, p) ==
    IF txs = <<>> THEN [state |-> st, txs |-> done]
    ELSE IF ValidTx(st, Head(txs), p) /\ Mutual(Head(txs), done)
         THEN Apply(ApplyTx(st, Head(txs), p), Append(done, Head(txs)), Tail(txs), p)
         ELSE Apply(st, done, Tail(txs), p)

Applicable(st, txs, p) == Apply(st, <<>>, txs, p).txs

\* getAllowedWithdrawalRequestBoxes of a block with n references on top of st,
\* without the ones already mined in the epoch.
AllowedRequests(st, n, p) ==
    Min({p.max_requests, (p.max_requests * (st.idx + n)) \div (p.withdrawal_epoch_length - 1)})
    - Len(Get(st.wr, st.we, <<>>))

\* takeWithWithdrawalBoxesLimit
TakeWithLimit(txs, allowed) ==
    FoldLeft(LAMBDA acc, t : IF acc.n + Len(Requests(t)) <= allowed
                             THEN [n |-> acc.n + Len(Requests(t)), txs |-> Append(acc.txs, t)] ELSE acc,
             [n |-> 0, txs |-> <<>>], txs).txs

\* TransactionsByPriceAndNonceIter: of the next transactions of the accounts, by
\* their nonces, the one with the highest tip.
RECURSIVE ByPriceAndNonce(_, _)
ByPriceAndNonce(nonce, txs) ==
    LET heads == {i \in 1 .. Len(txs) : txs[i].nonce = Get(nonce, txs[i].from, 0)}
        best == CHOOSE i \in heads : \A j \in heads : txs[i].tip > txs[j].tip \/ (txs[i].tip = txs[j].tip /\ i <= j)
    IN  IF heads = {} THEN <<>>
        ELSE <<txs[best]>> \o ByPriceAndNonce(Put(nonce, txs[best].from, txs[best].nonce + 1), RemoveAt(txs, best))

\* collectTransactionsFromMemPool for a block with n references on top of st,
\* next being the state after them.
CollectTxs(st, next, n, pool, p) ==
    Applicable(next, IF p.evm THEN ByPriceAndNonce(next.nonce, pool)
                     ELSE IF next.epoch < FORK_EPOCH THEN pool
                     ELSE TakeWithLimit(pool, AllowedRequests(st, n, p)), p)

----------------------------------------------------------------------------
(* Mainchain blocks seen by the sidechain *)

IsCert(tx) == tx.kind = "cert"


Best(certs) == CHOOSE c \in certs : \A d \in certs : d.quality <= c.quality

\* topQualityCertificate of each of the mainchain blocks refs that has one.
TopQualityCertificates(refs) ==
    LET certs(ref) == {t \in Range(ref.txs) : IsCert(t)}
        with == SelectSeq(refs, LAMBDA ref : certs(ref) # {})
    IN  [i \in 1 .. Len(with) |-> Best(certs(with[i]))]

\* The certificate of epoch e after a block with these certificates.
TopQualityCertificate(st, certs, e) ==
    IF certs # <<>> THEN <<Last(certs)>>
    ELSE IF e \in DOMAIN st.certs THEN <<st.certs[e]>> ELSE <<>>

\* validateTopQualityCertificate: the backward transfers are the withdrawal
\* requests of the epoch.
CertificateMatches(st, cert) == cert.bts = Get(st.wr, cert.epoch, <<>>)

----------------------------------------------------------------------------
(* Fees *)

\* What the forger of a block gets of its fees, and what all forgers share. The
\* forger is an address and, from a fork of the account model on, its key.
BlockFeeInfo(st, txs, reward, key, evm) ==
    LET fee == FoldSeq(LAMBDA t, acc : t.fee + acc, 0, txs)
        own == IF evm THEN FoldSeq(LAMBDA t, acc : t.tip + acc, 0, txs) ELSE (fee * 7) \div 10
    IN  [forger |-> <<reward, IF evm /\ st.epoch >= V1_4_EPOCH THEN key ELSE "">>, own |-> own, shared |-> fee - own]

\* A mutant: what is left of the division is paid to nobody.
RewardWithoutRest(fees, f, shared) ==
    SumRange([i \in 1 .. Len(fees) |->
                 IF fees[i].forger # f THEN 0 ELSE fees[i].own + (shared \div Len(fees))], 1, Len(fees))

\* getFeePayments, getForgersRewards: the blocks of an epoch get equal parts of
\* what is shared, and the first ones one more of the rest.
RewardOf(fees, f, shared) ==
    SumRange([i \in 1 .. Len(fees) |->
                 IF fees[i].forger # f THEN 0
                 ELSE fees[i].own + (shared \div Len(fees)) + (IF i <= shared % Len(fees) THEN 1 ELSE 0)], 1, Len(fees))

RewardsOfShared(fees, shared) == [f \in {x.forger : x \in Range(fees)} |-> RewardOf(fees, f, shared)]

ForgersRewards(fees) == RewardsOfShared(fees, SumRange([i \in 1 .. Len(fees) |-> fees[i].shared], 1, Len(fees)))

\* Payments to the distinct addresses of forgers, from the first. No forger of the
\* scripts gives a share to its delegators.
Payees(forgers, rewards) ==
    LET to(a) == MapThenSumSet(LAMBDA f : rewards[f], {f \in DOMAIN rewards : f[1] = a})
        first(i) == \A k \in 1 .. i - 1 : forgers[k][1] # forgers[i][1]
    IN  SelectSeq([i \in 1 .. Len(forgers) |-> [owner |-> forgers[i][1], value |-> IF first(i) THEN to(forgers[i][1]) ELSE 0]],
                  LAMBDA x : x.value > 0)

\* getMcForgerPoolRewards: the available part of the forger pool, by blocks
\* forged; what is left of the division goes to the ones with the fewest.
PoolRewards(counters, available) ==
    LET blocks == MapThenSumSet(LAMBDA f : counters[f], DOMAIN counters)
        order == SortSeq(SetToSeq(DOMAIN counters), LAMBDA f, g : counters[f] < counters[g])
        before[i \in 1 .. Len(order)] == IF i = 1 THEN 0 ELSE before[i - 1] + counters[order[i - 1]]
        extra(i) == Min({counters[order[i]], Max({0, (available % blocks) - before[i]})})
    IN  [f \in DOMAIN counters |->
            (available \div blocks) * counters[f] + extra(CHOOSE i \in 1 .. Len(order) : order[i] = f)]

\* getMainchainWithdrawalEpochDistributionCap, before the first halving: a tenth
\* of the rewards of the mainchain blocks of an epoch.
DistributionCap(L) == (125 * COIN * L) \div 100

AvailablePool(st, p) ==
    IF st.epoch < V1_2_EPOCH THEN 0
    ELSE IF st.epoch < V1_4_EPOCH THEN Get(st.bal, FORGER_POOL, 0)
    ELSE Min({DistributionCap(p.withdrawal_epoch_length), Get(st.bal, FORGER_POOL, 0)})

AddRewards(f, g) == [x \in DOMAIN f \cup DOMAIN g |-> Get(f, x, 0) + Get(g, x, 0)]

CreditAll(bal, payments) == FoldLeft(LAMBDA acc, x : Credit(acc, x.owner, x.value), bal, payments)

\* subtractForgerPoolBalanceAndResetBlockCounters and the payments
PayForgers(st, available, rewards) ==
    LET payments == Payees([i \in 1 .. Len(st.fees) |-> st.fees[i].forger] \o SetToSeq(DOMAIN rewards), rewards)
    IN  [st EXCEPT !.fees = <<>>, !.payments = payments,
                   !.bal = CreditAll(IF available = 0 THEN @ ELSE Credit(@, FORGER_POOL, -available), payments),
                   !.counters = IF available = 0 THEN @ ELSE <<>>]

PayFeesFrom(st, available) ==
    PayForgers(st, available,
               AddRewards(ForgersRewards(st.fees), IF available = 0 THEN <<>> ELSE PoolRewards(st.counters, available)))

\* The fees as boxes
PayInBoxes(st, payments) ==
    [st EXCEPT !.fees = <<>>, !.payments = payments,
               !.boxes = @ \o [i \in 1 .. Len(payments) |->
                                  Box(-(st.we + 1), i, Out("ZenBox", payments[i].owner, payments[i].value))]]

\* At the last index of a withdrawal epoch the fees of its blocks are paid.
PayFees(st, p) ==
    IF p.evm THEN PayFeesFrom(st, AvailablePool(st, p))
    ELSE PayInBoxes(st, Payees([i \in 1 .. Len(st.fees) |-> st.fees[i].forger], ForgersRewards(st.fees)))

----------------------------------------------------------------------------
(* Data for withdrawals from a ceased sidechain, by withdrawal epoch: the  *)
(* forward transfers of the epoch and the coins at its end                 *)
(* (SidechainWalletCswDataProvider). A wallet keeps the ones it owns.      *)

CswDataOf(st, we) == Get(st.csw, we, [fts |-> <<>>, utxos |-> <<>>])

AddForwardTransfers(st, boxes, p) ==
    IF ~p.csw_enabled THEN st ELSE [st EXCEPT !.csw = Put(@, st.we, [CswDataOf(st, st.we) EXCEPT !.fts = @ \o boxes])]

AddUtxos(st, p) ==
    IF ~p.csw_enabled THEN st ELSE [st EXCEPT !.csw = Put(@, st.we, [CswDataOf(st, st.we) EXCEPT !.utxos = st.boxes])]

----------------------------------------------------------------------------
(* Blocks *)

Enter(st, n, epoch, p) ==
    [st EXCEPT !.we  = EpochAfter(st, n, p.withdrawal_epoch_length),
               !.idx = IndexAfter(st, n, p.withdrawal_epoch_length),
               !.epoch = epoch]

\* How many references the chain of st has, which are all in their epochs.
RefCount(st, p) == st.we * p.withdrawal_epoch_length + st.idx

\* The last reference with a certificate, counted from the first of the chain.
LastCertificate(st, refs, p) ==
    Max({st.lastCert} \cup {RefCount(st, p) + i : i \in {j \in 1 .. Len(refs) :
                                \E t \in Range(refs[j].txs) : IsCert(t)}})

\* The state after the references of a block: its epoch, its certificates,
\* whether the sidechain has ceased, the forward transfers.
ApplyCertificates(st, next, certs, p) ==
    [next EXCEPT !.certs  = FoldLeft(LAMBDA acc, c : Put(acc, c.epoch, c), @, certs),
                 !.ceased = /\ ~p.non_ceasing
                            /\ hasReachedCertificateSubmissionWindowEnd(st, next, p.withdrawal_epoch_length)
                            /\ TopQualityCertificate(st, certs, next.we - 1) = <<>>]

\* Each forward transfer makes a ZenBox, or is added to the balance of its
\* receiver.
ApplyForwardTransfer(st, tx, p) ==
    IF p.evm THEN [st EXCEPT !.bal = CreditAll(@, tx.outs)]
    ELSE AddForwardTransfers([st EXCEPT !.boxes = @ \o NewBoxes(tx)], NewBoxes(tx), p)

ApplyReferences(st, refs, epoch, p) ==
    FoldLeft(LAMBDA acc, tx : IF IsCert(tx) THEN acc ELSE ApplyForwardTransfer(acc, tx, p),
             [ApplyCertificates(st, Enter(st, Len(refs), epoch, p), TopQualityCertificates(refs), p)
              EXCEPT !.lastCert = LastCertificate(st, refs, p)],
             FlattenSeq([i \in 1 .. Len(refs) |-> refs[i].txs]))

\* updateForgerBlockCounter
CountBlock(st, info, evm) ==
    [st EXCEPT !.fees = Append(@, info), !.payments = <<>>,
               !.counters = IF evm /\ st.epoch >= V1_2_EPOCH THEN Put(@, info.forger, Get(@, info.forger, 0) + 1) ELSE @]

CountVotes(st, txs, p) == IF p.evm THEN st ELSE AddVotes(st, txs)

\* The end of the withdrawal epoch
EndEpoch(st, p) == IF st.idx = p.withdrawal_epoch_length THEN AddUtxos(PayFees(st, p), p) ELSE st

\* The state st of the references of a block becomes that of the block, forged
\* with a key, for a reward address, with the transactions txs.
ApplyTxs(st, txs, reward, key, p) ==
    EndEpoch(CountVotes(Apply(CountBlock(st, BlockFeeInfo(st, txs, reward, key, p.evm), p.evm), <<>>, txs, p).state, txs, p), p)

\* A mutant: certificates are not compared with the requests.
ValidBlockAnyCertificate(st, next, certs, p) == ~st.ceased

\* SidechainState.validate, for what a forger cannot prevent: a block on top of
\* st, with these certificates, that leads to the epoch and index of next.
ValidBlock(st, next, certs, p) ==
    /\ ~st.ceased
    /\ IF p.non_ceasing THEN \A i \in 1 .. Len(certs) : CertificateMatches(st, certs[i])
       ELSE hasReachedCertificateSubmissionWindowEnd(st, next, p.withdrawal_epoch_length) =>
                \A cert \in Range(TopQualityCertificate(st, certs, next.we - 1)) : CertificateMatches(st, cert)

\* The state of the genesis block, which references the block of the creation.
GenesisState(p) ==
    [epoch |-> 1, we |-> 0, idx |-> 1, wr |-> <<>>, certs |-> <<>>, lastCert |-> 0, ceased |-> FALSE,
     fees |-> <<[forger |-> <<"genesis", "">>, own |-> 0, shared |-> 0]>>, payments |-> <<>>, counters |-> <<>>,
     csw |-> <<>>, open |-> {}, bal |-> <<>>, nonce |-> <<>>, reverted |-> {}, rot |-> <<>>,
     upgraded |-> FALSE, owned |-> <<>>, code |-> {},
     boxes |-> <<Box(0, 1, Out("ForgerBox", "genesis", p.forward_amount))>>]

----------------------------------------------------------------------------
(* Memory pools *)

SameNonce(t, u) == t.from # "" /\ t.from = u.from /\ t.nonce = u.nonce

\* A transaction the pool of a node in state st takes besides the ones it has.
\* One of the account model may wait for the nonces before its own, and it takes
\* the place of one with a lower tip.
Compatible(st, t, kept, p) ==
    IF t.from = ""
    THEN /\ ValidTx(st, t, p)
         /\ \A u \in Range(kept) : u.id # t.id /\ u.ins \cap t.ins = {} /\ ~SameKey(t, u) /\ ~SameForger(t, u)
    ELSE /\ t.nonce >= Get(st.nonce, t.from, 0)
         /\ t.value + t.fee <= Get(st.bal, t.from, 0)
         /\ \A u \in Range(kept) : SameNonce(t, u) => t.tip > u.tip

\* The pool with a transaction that it takes.
AddToPool(kept, t) == Append(SelectSeq(kept, LAMBDA u : ~SameNonce(t, u)), t)

\* The pool after its node moved to state st (updateMemPool).
PoolFilter(st, txs, p) ==
    FoldLeft(LAMBDA kept, t : IF Compatible(st, t, kept, p) THEN AddToPool(kept, t) ELSE kept, <<>>, txs)
=============================================================================
