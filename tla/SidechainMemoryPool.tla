------------------------- MODULE SidechainMemoryPool -------------------------
(***************************************************************************)
(* The memory pool of the UTXO model (SidechainMemoryPool, MempoolMap)     *)
(* between the node view holder that fills it, refuses to, and cleans it   *)
(* after a switch of the chain, and the forger that takes transactions     *)
(* from it.  The state is the set of boxes the active chain leaves.        *)
(***************************************************************************)
EXTENDS Integers, FiniteSets, FiniteSetsExt, SequencesExt

CONSTANTS
    Tx,             \* transactions, numbered in the order of their ids
    Inputs,         \* tx -> boxes it opens
    Outputs,        \* tx -> boxes it makes
    Slot,           \* tx -> forger index it opens or key it rotates, or 0
    Mainchain,      \* MC2SCAggregatedTransactions
    OpenStake,      \* OpenStakeTransactions
    Stakes,         \* transactions with a ForgerBox of a key that is not allowed to forge
    Forgers,        \* size of params.allowedForgersList
    Withdrawals,    \* tx -> number of its WithdrawalRequestBoxes
    Fee, Size,      \* tx -> fee and size in bytes
    GenesisBoxes,
    minFeeRate,
    maxPoolSizeBytes,
    MaxBlocks,      \* bound: blocks after genesis
    MaxTxs,         \* bound: transactions in a block
    MaxApplied      \* bound: transactions of the blocks applied at once

ASSUME PoolAssumption ==
    /\ Tx \subseteq Nat /\ Mainchain \subseteq Tx /\ Forgers \in Nat
    /\ \A t \in Tx : Size[t] \in Nat \ {0} /\ Fee[t] \in Nat /\ Withdrawals[t] \in Nat

VARIABLES
    chain,          \* the blocks of the active chain after genesis: their transactions
    map,            \* MempoolMap.map
    ids,            \* MempoolMap.idsSortedByFeeRate
    used            \* MempoolMap.usedPoolSizeBytes

pool == <<map, ids, used>>
vars == <<chain, pool>>

----------------------------------------------------------------------------
(* The state *)

TxsOf(blocks) == UNION {Range(blocks[i]) : i \in DOMAIN blocks}

Boxes(blocks) ==
    (GenesisBoxes \cup UNION {Outputs[t] : t \in TxsOf(blocks)}) \ UNION {Inputs[t] : t \in TxsOf(blocks)}

\* The forger indexes that have opened the stake
forgerIndexes(blocks) == {Slot[t] : t \in TxsOf(blocks) \cap OpenStake}

isForgingOpen(blocks) == Cardinality(forgerIndexes(blocks)) > Forgers \div 2

\* SidechainState.validate(tx), the checks whose outcome a block can change but
\* for those of epochs and forks: the boxes to open are there, a forger opens the
\* stake once and as long as it is closed, and others stake when it is open.
Valid(t, blocks) ==
    \/ t \in Mainchain
    \/ /\ Inputs[t] \subseteq Boxes(blocks)
       /\ t \in OpenStake => ~isForgingOpen(blocks) /\ Slot[t] \notin forgerIndexes(blocks)
       /\ t \in Stakes => isForgingOpen(blocks)

\* What isTransactionCompatible looks for: a box, a forger index or a key in common
Conflicts(t, u) == Inputs[t] \cap Inputs[u] # {} \/ (Slot[t] # 0 /\ Slot[t] = Slot[u])

\* validateBlockTransactionsMutuality, and every transaction against the state
ValidBlock(txs, blocks) ==
    /\ \A i \in DOMAIN txs : Valid(txs[i], blocks) /\ txs[i] \notin TxsOf(blocks)
    /\ \A i, j \in DOMAIN txs : i # j =>
           /\ txs[i] # txs[j] /\ Inputs[txs[i]] \cap Inputs[txs[j]] = {}
           /\ Slot[txs[i]] = 0 \/ Slot[txs[i]] # Slot[txs[j]]

----------------------------------------------------------------------------
(* MempoolMap *)

FeeRate(t) == (Fee[t] * 1000) \div Size[t]

\* MempoolMapKey.compare
Before(t, u) == FeeRate(t) < FeeRate(u) \/ (FeeRate(t) = FeeRate(u) /\ t < u)

takeLowest(p) == SetToSortSeq(p.ids, Before)
takeHighest(p) == Reverse(takeLowest(p))

AddTo(p, t) ==
    IF t \in p.map THEN p
    ELSE [map |-> p.map \cup {t}, ids |-> p.ids \cup {t}, used |-> p.used + Size[t]]

RemoveAll(p, txs) ==
    [map |-> p.map \ txs, ids |-> p.ids \ txs, used |-> p.used - SumFunctionOnSet(Size, txs \cap p.map)]

----------------------------------------------------------------------------
(* SidechainMemoryPool *)

\* isTransactionCompatible
Compatible(t, txs) == t \notin Mainchain /\ \A u \in txs : ~Conflicts(t, u)

SizeOfFirst(s, n) == SumFunctionOnSet([i \in 1 .. n |-> Size[s[i]]], 1 .. n)

\* Mutant: the fee rate of what leaves is not looked at.
addWithSizeCheckAnyway(p, t) ==
    LET lowest == takeLowest(p)
        enough == {n \in 0 .. Len(lowest) : p.used - SizeOfFirst(lowest, n) + Size[t] <= maxPoolSizeBytes}
    IN  IF enough = {} THEN [added |-> FALSE, pool |-> p]
        ELSE [added |-> TRUE,
              pool |-> AddTo(RemoveAll(p, Range(SubSeq(lowest, 1, Min(enough)))), t)]

\* As many of the lowest transactions leave as the new one needs room, if none
\* of them has a higher fee rate.
addWithSizeCheck(p, t) ==
    LET lowest == takeLowest(p)
        enough == {n \in 0 .. Len(lowest) : p.used - SizeOfFirst(lowest, n) + Size[t] <= maxPoolSizeBytes}
    IN  IF enough = {} \/ \E i \in 1 .. Min(enough) : FeeRate(lowest[i]) > FeeRate(t)
        THEN [added |-> FALSE, pool |-> p]
        ELSE [added |-> TRUE,
              pool |-> AddTo(RemoveAll(p, Range(SubSeq(lowest, 1, Min(enough)))), t)]

\* put(tx)
put(p, t) ==
    IF FeeRate(t) < minFeeRate \/ ~Compatible(t, p.map) THEN [added |-> FALSE, pool |-> p]
    ELSE addWithSizeCheck(p, t)

\* Mutant: what comes back is compared with the pool only.
putWithoutCheckAmongThem(p, txs) ==
    LET compatible == SelectSeq(txs, LAMBDA t : Compatible(t, p.map))
    IN  FoldLeft(LAMBDA q, t : IF FeeRate(t) >= minFeeRate THEN addWithSizeCheck(q, t).pool ELSE q,
                 p, compatible)

\* putWithoutCheck: of two conflicting transactions the later stays, and what
\* conflicts with the pool does not come.
putWithoutCheck(p, txs) ==
    LET unopposed == {i \in DOMAIN txs : Compatible(txs[i], {txs[j] : j \in i + 1 .. Len(txs)})}
        compatible == SelectSeq(txs, LAMBDA t : /\ \E i \in unopposed : txs[i] = t
                                                /\ Compatible(t, p.map))
    IN  FoldLeft(LAMBDA q, t : IF FeeRate(t) >= minFeeRate THEN addWithSizeCheck(q, t).pool ELSE q,
                 p, compatible)

\* filter: a new MempoolMap of the transactions that satisfy the condition
filter(p, keep) == RemoveAll(p, p.map \ keep)

----------------------------------------------------------------------------
(* The node view holder and the forger *)

Current == [map |-> map, ids |-> ids, used |-> used]
Becomes(p) == map' = p.map /\ ids' = p.ids /\ used' = p.used

\* external: sparkz NodeViewHolder.txModify, for local and remote transactions
txModify(t) ==
    /\ t \notin TxsOf(chain) /\ Valid(t, chain)
    /\ Becomes(put(Current, t).pool)
    /\ UNCHANGED chain

\* updateMemPool: the pool without what was applied or is no longer valid, and
\* what was removed and still is
updateMemPool(removed, applied, blocks) ==
    LET kept == {t \in map \ TxsOf(applied) : Valid(t, blocks)}
        back == SelectSeq(FlattenSeq(removed), LAMBDA t : t \notin TxsOf(applied) /\ Valid(t, blocks))
    IN  putWithoutCheck(filter(Current, kept), back)

\* The active chain becomes one that has n of its blocks and others after them.
pmodModify(n, applied) ==
    LET blocks == SubSeq(chain, 1, n) \o applied
        removed == SubSeq(chain, n + 1, Len(chain))
    IN  /\ \A i \in DOMAIN applied : ValidBlock(applied[i], SubSeq(blocks, 1, n + i - 1))
        /\ chain' = blocks
        /\ Becomes(updateMemPool(removed, applied, blocks))

\* takeWithWithdrawalBoxesLimit
takeWithWithdrawalBoxesLimit(p, limit) ==
    FoldLeft(LAMBDA acc, t : IF acc.boxes + Withdrawals[t] <= limit
                             THEN [txs |-> Append(acc.txs, t), boxes |-> acc.boxes + Withdrawals[t]]
                             ELSE acc,
             [txs |-> << >>, boxes |-> 0], takeHighest(p)).txs

Init == chain = << >> /\ map = {} /\ ids = {} /\ used = 0

TxSeqs == {s \in UNION {[1 .. n -> Tx] : n \in 0 .. MaxTxs} : IsInjective(s)}

\* Ommers count for the score: the chain that wins need not be longer.
Next ==
    \/ \E t \in Tx : txModify(t)
    \/ \E n \in 0 .. Len(chain) : \E m \in 1 .. MaxBlocks - n :
           \E applied \in {b \in [1 .. m -> TxSeqs] : Len(FlattenSeq(b)) <= MaxApplied} :
               pmodModify(n, applied)

Spec == Init /\ [][Next]_vars

----------------------------------------------------------------------------
(* Properties *)

\* The index by fee rate has the transactions of the map (map.get(...).get in
\* takeLowest never throws) and the size in use is theirs and within the limit.
TypeOK ==
    /\ map \in SUBSET Tx /\ ids = map
    /\ used = SumFunctionOnSet(Size, map) /\ used <= maxPoolSizeBytes

\* The transactions of the pool can go into one block on the state as it is,
\* after every switch of the chain (validateBlockTransactionsMutuality would
\* refuse the whole block of a forger that takes two conflicting ones), and the
\* size in use is exactly theirs and within the limit.
PoolFitsInOneBlock ==
    /\ map \cap Mainchain = {}
    /\ used = SumFunctionOnSet(Size, map) /\ used <= maxPoolSizeBytes
    /\ ValidBlock(takeLowest(Current), chain)

\* What the forger takes has no more withdrawal requests than are allowed, and no
\* transaction is left behind that would still fit
\* (takeWithWithdrawalBoxesLimit).
TakenWithinLimit ==
    \A limit \in -1 .. 3 :
        LET taken == Range(takeWithWithdrawalBoxesLimit(Current, limit))
            boxes == SumFunctionOnSet(Withdrawals, taken)
        IN  /\ taken # {} => boxes <= limit
            /\ \A t \in map \ taken : boxes + Withdrawals[t] > limit

\* A transaction that is still valid leaves the pool, or is not taken back from a
\* removed block, only for one that has as high a fee rate or, when it comes from
\* a removed block, for one it conflicts with; of the pool those with the lowest
\* fee rate leave, and no more of them than one that comes needs
\* (addWithSizeCheck, updateMemPool).
LostTransactionsWereOutbid ==
    [][LET lost == {t \in (map \cup TxsOf(chain)) \ (map' \cup TxsOf(chain')) :
                       t \notin Mainchain /\ Valid(t, chain')}
       IN  /\ \A t \in lost :
                 \/ \E u \in map' : FeeRate(u) >= FeeRate(t)
                 \/ t \notin map /\ FeeRate(t) < minFeeRate
                 \/ t \notin map /\ \E u \in (map \cup TxsOf(chain)) \ {t} : Conflicts(t, u)
           /\ \A t \in lost \cap map, u \in map \cap map' : Before(t, u)
           /\ chain' = chain /\ lost # {} =>
                 \E t \in lost : used' + Size[t] > maxPoolSizeBytes]_vars
=============================================================================
