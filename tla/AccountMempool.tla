--------------------------- MODULE AccountMempool ---------------------------
(***************************************************************************)
(* The memory pool of the account model: MempoolMap, its TxCache, and the  *)
(* AccountMemoryPool that wraps them.  Executable transactions of a sender *)
(* follow its state nonce without a gap; the others wait in a sub-pool.    *)
(* The pool is a record, every method of MempoolMap an operator on it:     *)
(*   exec, nonExec  executableTxs and nonExecutableTxs: sender -> nonce    *)
(*                  -> transaction (an absent sender is an empty map);     *)
(*   nonces         the next expected nonce of the senders that have one;  *)
(*   cache          TxCache, from the oldest entry to the youngest;        *)
(*   size, nonExecSize  the slot counters of TxCache.                      *)
(***************************************************************************)
EXTENDS Integers, Sequences, FiniteSets, SequencesExt, Functions

CONSTANTS
    Account,             \* senders
    Tx,                  \* transactions: from, nonce, slots, maxFee, tip, cost
    Balances,            \* the balances of the senders that a block may leave
    MaxNonceGap,         \* AccountMempoolSettings.maxNonceGap
    MaxSlotsPerAccount,  \* AccountMempoolSettings.maxAccountSlots
    MaxMemPoolSlots,     \* AccountMempoolSettings.maxMemPoolSlots
    MaxNonExecSlots,     \* AccountMempoolSettings.maxNonExecMemPoolSlots
    MaxNumOfSlotsForTx,  \* MempoolMap.MaxNumOfSlotsForTx
    MaxBlocks,           \* bound: blocks of the active chain, genesis included
    MaxBranch,           \* bound: blocks applied by one update
    MaxBlockTxs,         \* bound: transactions of a block
    MaxTimedOut          \* bound: transactions that time out at once

ASSUME MempoolSettings ==
    /\ Tx \subseteq [from : Account, nonce : Nat, slots : Nat \ {0},
                     maxFee : Nat, tip : Nat, cost : Nat]
    /\ Balances \subseteq [Account -> Nat]
    /\ MaxNonceGap > 0 /\ MaxSlotsPerAccount > 0
    /\ MaxMemPoolSlots >= MaxNumOfSlotsForTx
    /\ MaxNonExecSlots >= MaxNumOfSlotsForTx
    /\ MaxNonExecSlots < MaxMemPoolSlots
    /\ MaxMemPoolSlots >= MaxSlotsPerAccount

VARIABLES
    chain,      \* the active chain: blocks with their transactions and the balances they leave
    pool,       \* the memory pool
    announced   \* transactions of the last NewExecTransactionsEvent

vars == <<chain, pool, announced>>

----------------------------------------------------------------------------
(* The state the pool reads through AccountStateReaderProvider. *)

TxsOf(blocks) == FlattenSeq([i \in DOMAIN blocks |-> blocks[i].txs])

FromAccount(txs, a) == SelectSeq(txs, LAMBDA t : t.from = a)

StateNonce(c, a) == Len(FromAccount(TxsOf(c), a))

Balance(c, a) == Last(c).balance[a]

----------------------------------------------------------------------------
(* TxCache *)

InCache(p, t) == \E i \in DOMAIN p.cache : p.cache[i].tx = t

CacheAdd(p, t, isExec) ==
    [p EXCEPT !.cache = Append(@, [tx |-> t, exec |-> isExec]),
              !.size = @ + t.slots,
              !.nonExecSize = IF isExec THEN @ ELSE @ + t.slots]

CacheRemove(p, t) ==
    IF ~InCache(p, t) THEN p
    ELSE LET info == p.cache[SelectInSeq(p.cache, LAMBDA e : e.tx = t)]
         IN  [p EXCEPT !.cache = RemoveFirstMatch(@, LAMBDA e : e.tx = t),
                       !.size = @ - t.slots,
                       !.nonExecSize = IF info.exec THEN @ ELSE @ - t.slots]

SetStatus(p, t, isExec) ==
    [p EXCEPT !.cache = [i \in DOMAIN @ |->
                           IF @[i].tx = t THEN [@[i] EXCEPT !.exec = isExec] ELSE @[i]],
              !.nonExecSize = IF isExec THEN @ - t.slots ELSE @ + t.slots]

PromoteTransaction(p, t) == SetStatus(p, t, TRUE)
DemoteTransaction(p, t) == SetStatus(p, t, FALSE)

----------------------------------------------------------------------------
(* Maps from nonces to transactions. *)

Without(m, nonces) == Restrict(m, DOMAIN m \ nonces)

With(m, t) == [n \in DOMAIN m \cup {t.nonce} |-> IF n = t.nonce THEN t ELSE m[n]]

ByNonce(m) == SetToSortSeq(Range(m), LAMBDA t, u : t.nonce < u.nonce)

\* The nonces of m from n on, up to the first that is missing.
Run(m, n) == {k \in DOMAIN m : k >= n /\ n .. k \subseteq DOMAIN m}

NonceAfter(nonces, default) == IF nonces = {} THEN default ELSE Max(nonces) + 1

FindTxWithSameNonce(p, t) ==
    {u \in Range(p.exec[t.from]) \cup Range(p.nonExec[t.from]) : u.nonce = t.nonce}

SlotsOf(txs) == FoldLeft(LAMBDA s, t : s + t.slots, 0, txs)

AccountSlots(p, a) == SlotsOf(ByNonce(p.exec[a]) \o ByNonce(p.nonExec[a]))

ForgetNonce(p, a) == [p EXCEPT !.nonces = Restrict(@, DOMAIN @ \ {a})]

PutNonce(p, a, n) ==
    [p EXCEPT !.nonces = [x \in DOMAIN @ \cup {a} |-> IF x = a THEN n ELSE @[x]]]

----------------------------------------------------------------------------
(* MempoolMap.remove and the evictions built on it. *)

\* Mutant: the transactions that follow the removed one stay executable.
RemoveWithoutDemotion(p, t) ==
    IF ~InCache(p, t) THEN p
    ELSE [CacheRemove(p, t) EXCEPT !.exec[t.from] = Without(@, {t.nonce}),
                                   !.nonExec[t.from] = Without(@, {t.nonce})]

RemoveTx(p, t) ==
    LET a == t.from
        removed == CacheRemove(p, t)
        demoted == Run(p.exec[a], t.nonce + 1)
        orphans == FoldLeft(DemoteTransaction, removed, ByNonce(Restrict(p.exec[a], demoted)))
        Tidy(q) == IF DOMAIN q.exec[a] = {} /\ DOMAIN q.nonExec[a] = {}
                   THEN ForgetNonce(q, a) ELSE q
    IN  CASE ~InCache(p, t) -> p
          [] InCache(p, t) /\ p.nonces[a] < t.nonce ->
                Tidy([removed EXCEPT !.nonExec[a] = Without(@, {t.nonce})])
          [] OTHER ->
                Tidy(PutNonce([orphans EXCEPT
                                 !.exec[a] = Without(@, demoted \cup {t.nonce}),
                                 !.nonExec[a] = Restrict(p.exec[a], demoted) @@ @],
                              a, t.nonce))

\* Removes the victims one by one, at least one, until Fits.
Evict(p, victims, Fits(_)) ==
    LET After(k) == FoldLeft(RemoveTx, p, SubSeq(victims, 1, k))
    IN  After(CHOOSE k \in 1 .. Len(victims) :
                 Fits(After(k)) /\ \A j \in 1 .. k - 1 : ~Fits(After(j)))

CachedTxs(entries) == [i \in DOMAIN entries |-> entries[i].tx]

PoolFits(p) == p.size <= MaxMemPoolSlots
NonExecFits(p) == p.nonExecSize <= MaxNonExecSlots

FreeMempoolSlots(p) == Evict(p, CachedTxs(p.cache), PoolFits)

FreeNonExecSubpoolSlots(p) ==
    IF NonExecFits(p) THEN p
    ELSE Evict(p, CachedTxs(SelectSeq(p.cache, LAMBDA e : ~e.exec)), NonExecFits)

\* Mutant: the orphans that an eviction leaves are not counted again.
CheckMempoolSizeOnce(p) ==
    LET q == FreeNonExecSubpoolSlots(p)
    IN  IF PoolFits(q) THEN q ELSE FreeMempoolSlots(q)

CheckMempoolSize(p) ==
    LET q == FreeNonExecSubpoolSlots(p)
    IN  IF PoolFits(q) THEN q ELSE FreeNonExecSubpoolSlots(FreeMempoolSlots(q))

\* timedOut: the oldest entries, those whose lifetime is over.
RemoveTimedoutTransactions(p, timedOut) ==
    FoldLeft(RemoveTx, p, SelectSeq(CachedTxs(p.cache), LAMBDA t : t \in timedOut))

----------------------------------------------------------------------------
(* MempoolMap.add *)

CanPayHigherFee(t, old) == t.maxFee > old.maxFee /\ t.tip > old.tip

Acceptable(p, c, t) ==
    LET replaced == FindTxWithSameNonce(p, t)
        oldSlots == IF replaced = {} THEN 0 ELSE (CHOOSE old \in replaced : TRUE).slots
        additional == IF t.slots > oldSlots THEN t.slots - oldSlots ELSE 0
    IN  /\ ~InCache(p, t)
        /\ t.slots <= MaxNumOfSlotsForTx
        /\ t.nonce < StateNonce(c, t.from) + MaxNonceGap
        /\ \A old \in replaced : CanPayHigherFee(t, old)
        /\ AccountSlots(p, t.from) + additional <= MaxSlotsPerAccount

ExpectedNonce(p, c, a) == IF a \in DOMAIN p.nonces THEN p.nonces[a] ELSE StateNonce(c, a)

AddNewExec(p, t) ==
    LET a == t.from
        promoted == Run(p.nonExec[a], t.nonce + 1)
        q == FoldLeft(PromoteTransaction, CacheAdd(p, t, TRUE),
                      ByNonce(Restrict(p.nonExec[a], promoted)))
    IN  PutNonce([q EXCEPT !.exec[a] = With(Restrict(p.nonExec[a], promoted) @@ @, t),
                           !.nonExec[a] = Without(@, promoted)],
                 a, t.nonce + Cardinality(promoted) + 1)

Replace(p, t) ==
    CacheAdd(FoldLeft(CacheRemove, p, SetToSeq(FindTxWithSameNonce(p, t))),
             t, t.nonce \in DOMAIN p.exec[t.from])

\* Mutant: the replaced transaction stays in the cache.
AddTxKeepingReplaced(p, c, t) ==
    LET a == t.from
        expected == ExpectedNonce(p, c, a)
    IN  CASE t.nonce = expected -> AddNewExec(p, t)
          [] t.nonce > expected ->
                PutNonce([CacheAdd(p, t, FALSE) EXCEPT !.nonExec[a] = With(@, t)], a, expected)
          [] OTHER -> [CacheAdd(p, t, TRUE) EXCEPT !.exec[a] = With(@, t)]

AddTx(p, c, t) ==
    LET a == t.from
        expected == ExpectedNonce(p, c, a)
    IN  CASE t.nonce = expected -> AddNewExec(p, t)
          [] t.nonce > expected ->
                PutNonce([Replace(p, t) EXCEPT !.nonExec[a] = With(@, t)], a, expected)
          [] OTHER -> [Replace(p, t) EXCEPT !.exec[a] = With(@, t)]

\* The transactions that add reports as newly executable: with a replacement,
\* the replaced one.
AnnouncedByAdd(p, c, t) ==
    LET expected == ExpectedNonce(p, c, t.from)
    IN  CASE t.nonce = expected ->
                {t} \cup Range(Restrict(p.nonExec[t.from], Run(p.nonExec[t.from], t.nonce + 1)))
          [] t.nonce > expected -> {}
          [] OTHER -> FindTxWithSameNonce(p, t)

----------------------------------------------------------------------------
(* MempoolMap.updateMemPool, sender by sender. *)

\* Mutant: the largest acceptable nonce is dropped.
RefitBelowMaxNonce(r, t, balance, maxNonce, fromBlock) ==
    IF t.nonce < maxNonce /\ balance >= t.cost /\ ~r.gap
    THEN [r EXCEPT !.exec = With(@, t)] ELSE [r EXCEPT !.gap = TRUE]

\* One transaction of the rebuilt maps: kept while the balance, the nonce gap
\* and the account's slots allow; from the first that is dropped on, the others
\* are not executable.
Refit(r, t, balance, maxNonce, fromBlock) ==
    LET fits == /\ t.nonce <= maxNonce
                /\ balance >= t.cost
                /\ fromBlock => t.slots <= MaxNumOfSlotsForTx
                /\ r.slots + t.slots <= MaxSlotsPerAccount
    IN  CASE fits /\ ~r.gap -> [r EXCEPT !.exec = With(@, t), !.slots = @ + t.slots]
          [] fits /\ r.gap  -> [r EXCEPT !.nonExec = With(@, t), !.slots = @ + t.slots]
          [] OTHER          -> [r EXCEPT !.gap = TRUE]

SetMaps(p, a, exec, nonExec) == [p EXCEPT !.exec[a] = exec, !.nonExec[a] = nonExec]

\* The maps rebuilt from the rejected transactions and then from the pool.
RefitAll(p, a, balance, maxNonce, rejected) ==
    LET fitBlock(r, t) == Refit(r, t, balance, maxNonce, TRUE)
        fitPool(r, t) == Refit(r, t, balance, maxNonce, FALSE)
        r1 == FoldLeft(fitBlock, [exec |-> <<>>, nonExec |-> <<>>, slots |-> 0, gap |-> FALSE],
                       rejected)
        r2 == FoldLeft(fitPool, r1, ByNonce(p.exec[a]))
    IN  FoldLeft(fitPool, [r2 EXCEPT !.gap = TRUE], ByNonce(p.nonExec[a]))

\* The pool with the rebuilt maps r: what came back is put before the rest of
\* the cache, what was dropped leaves it.
WithRebuiltMaps(p, a, r, stateNonce, rejected) ==
    LET kept == Range(r.exec) \cup Range(r.nonExec)
        reinjected == SelectSeq(rejected, LAMBDA t : t \in kept)
        add(q, t) == CacheAdd(q, t, t \in Range(r.exec))
        settle(q, t) == IF t \notin kept THEN CacheRemove(q, t)
                        ELSE IF t \in Range(r.nonExec) THEN DemoteTransaction(q, t) ELSE q
        q1 == FoldLeft(add, p, Reverse(reinjected))
        q2 == FoldLeft(settle, q1, ByNonce(p.exec[a]))
        q3 == FoldLeft(CacheRemove, q2, SelectSeq(ByNonce(p.nonExec[a]), LAMBDA t : t \notin kept))
    IN  [pool |-> PutNonce(SetMaps(q3, a, r.exec, r.nonExec), a,
                           NonceAfter(DOMAIN r.exec, stateNonce)),
         announced |-> Range(reinjected) \cap Range(r.exec)]

\* Mutant: the transactions of the pool are not looked at again, the ones that
\* come back are put before them, unannounced.
RevertedTxsInFront(p, a, c, rejected) ==
    LET add(q, t) == CacheAdd(q, t, TRUE)
    IN  [pool |-> [FoldLeft(add, p, Reverse(rejected)) EXCEPT
                     !.exec[a] = FoldLeft(With, @, rejected)],
         announced |-> {}]

UpdateAccountWithRevertedNonce(p, a, c, rejected) ==
    LET stateNonce == Head(rejected).nonce
    IN  WithRebuiltMaps(p, a,
                        RefitAll(p, a, Balance(c, a), stateNonce + MaxNonceGap - 1, rejected),
                        stateNonce, rejected)

AffordableFrom(m, balance, from) == {n \in DOMAIN m : n >= from /\ m[n].cost <= balance}

\* live: the executable nonces that remain, exec: those that stay executable,
\* waiting: the other nonces that remain, promoted: those that follow exec.
SettleAccount(p, a, next, live, exec, waiting, promoted) ==
    LET dropped == ByNonce(Without(p.exec[a], live)) \o ByNonce(Without(p.nonExec[a], waiting))
        q1 == FoldLeft(CacheRemove, p, dropped)
        q2 == FoldLeft(DemoteTransaction, q1, ByNonce(Restrict(p.exec[a], live \ exec)))
        q3 == FoldLeft(PromoteTransaction, q2, ByNonce(Restrict(p.nonExec[a], promoted)))
        q4 == SetMaps(q3, a,
                      Restrict(p.exec[a], exec) @@ Restrict(p.nonExec[a], promoted),
                      Restrict(p.exec[a], live \ exec) @@ Restrict(p.nonExec[a], waiting \ promoted))
    IN  [pool |-> IF live \cup waiting = {} THEN ForgetNonce(q4, a)
                  ELSE PutNonce(q4, a, next + Cardinality(promoted)),
         announced |-> Range(Restrict(p.nonExec[a], promoted))]

PromoteFrom(p, a, balance, next, live, exec) ==
    LET waiting == AffordableFrom(p.nonExec[a], balance, next)
    IN  SettleAccount(p, a, next, live, exec, waiting,
                      {n \in waiting : next .. n \subseteq waiting})

KeepFrom(p, a, balance, first, live) ==
    LET exec == {n \in live : \A m \in DOMAIN p.exec[a] : m \in first .. n => m \in live}
    IN  PromoteFrom(p, a, balance, NonceAfter(exec, first), live, exec)

UpdateAccount(p, a, c, lastNonce, rejected) ==
    LET first == lastNonce + 1
    IN  IF rejected # <<>> /\ Last(rejected).nonce >= first
        THEN UpdateAccountWithRevertedNonce(p, a, c,
                                            SelectSeq(rejected, LAMBDA t : t.nonce >= first))
        ELSE KeepFrom(p, a, Balance(c, a), first,
                      AffordableFrom(p.exec[a], Balance(c, a), first))

\* The senders of the rejected blocks come first, in any order, then the other
\* senders of the applied ones; then lifetimes and sizes are checked.
UpdateMemPool(p, c, rejected, applied, order, timedOut) ==
    LET Step(r, a) ==
          LET was == FromAccount(TxsOf(rejected), a)
              now == FromAccount(TxsOf(applied), a)
              u == CASE now # <<>> -> UpdateAccount(r.pool, a, c, Last(now).nonce, was)
                     [] now = <<>> /\ was # <<>> -> UpdateAccountWithRevertedNonce(r.pool, a, c, was)
                     [] OTHER -> [pool |-> r.pool, announced |-> {}]
          IN  [pool |-> u.pool, announced |-> r.announced \cup u.announced]
        updated == FoldLeft(Step, [pool |-> p, announced |-> {}], order)
    IN  [updated EXCEPT !.pool = CheckMempoolSize(RemoveTimedoutTransactions(@, timedOut))]

----------------------------------------------------------------------------
(* The specification. *)

EmptyPool ==
    [exec |-> [a \in Account |-> <<>>], nonExec |-> [a \in Account |-> <<>>],
     nonces |-> <<>>, cache |-> <<>>, size |-> 0, nonExecSize |-> 0]

Init ==
    /\ chain \in {<<[txs |-> <<>>, balance |-> b]>> : b \in Balances}
    /\ pool = EmptyPool
    /\ announced = {}

\* AccountState.validate lets the transaction through to AccountMemoryPool.put.
put(t) ==
    /\ t.nonce >= StateNonce(chain, t.from)
    /\ Balance(chain, t.from) >= t.cost
    /\ Acceptable(pool, chain, t)
    /\ pool' = CheckMempoolSize(AddTx(pool, chain, t))
    /\ announced' = AnnouncedByAdd(pool, chain, t)
    /\ UNCHANGED chain

remove(t) ==
    /\ InCache(pool, t)
    /\ pool' = FreeNonExecSubpoolSlots(RemoveTx(pool, t))
    /\ announced' = {}
    /\ UNCHANGED chain

Block == [txs : BoundedSeq(Tx, MaxBlockTxs), balance : Balances]

\* Nonces follow each other, costs are covered, and only the sender of a
\* transaction ends with less than before.
ValidOn(c, b) ==
    /\ \A i \in DOMAIN b.txs :
          LET t == b.txs[i]
          IN  /\ t.cost <= Balance(c, t.from)
              /\ t.nonce = StateNonce(c, t.from) + Len(FromAccount(SubSeq(b.txs, 1, i - 1), t.from))
    /\ \A x \in Account : b.balance[x] < Balance(c, x) => FromAccount(b.txs, x) # <<>>

\* The branches of at most MaxBranch blocks that are valid on top of c.
Branches(c) ==
    LET one == {<<b>> : b \in {x \in Block : ValidOn(c, x)}}
        more(k, from) == UNION {{Append(br, x) : x \in {y \in Block : ValidOn(c \o br, y)}} : br \in from}
        grown[k \in 1 .. MaxBranch] == IF k = 1 THEN one ELSE more(k, grown[k - 1])
    IN  {br \in UNION {grown[k] : k \in 1 .. MaxBranch} : Len(c) + Len(br) <= MaxBlocks}

\* The senders in any order; it only shows when several have rejected transactions.
Orders(rejected) ==
    LET all == {o \in [1 .. Cardinality(Account) -> Account] : IsInjective(o)}
    IN  IF \E x \in Account : \A i \in DOMAIN rejected : rejected[i].from = x
        THEN {CHOOSE o \in all : TRUE} ELSE all

\* The node view holder has changed the active chain from one branch to another,
\* or extended it, and updates the pool.
updateMemPool ==
    \E keep \in 1 .. Len(chain) :
        LET rejected == SubSeq(chain, keep + 1, Len(chain))
        IN  \E branch \in Branches(SubSeq(chain, 1, keep)), order \in Orders(TxsOf(rejected)),
               old \in 0 .. MaxTimedOut :
                LET c == SubSeq(chain, 1, keep) \o branch
                    r == UpdateMemPool(pool, c, rejected, branch, order,
                                       {pool.cache[i].tx : i \in DOMAIN pool.cache \cap 1 .. old})
                IN  /\ old <= Len(pool.cache)
                    /\ chain' = c
                    /\ pool' = r.pool
                    /\ announced' = r.announced

Next ==
    \/ \E t \in Tx : put(t)
    \/ \E t \in Tx : remove(t)
    \/ updateMemPool

Spec == Init /\ [][Next]_vars

----------------------------------------------------------------------------
(* Properties *)

\* The maps of the pool hold transactions of their sender, the expected nonces
\* are numbers, and the counters are not negative.
TypeOK ==
    /\ \A a \in Account : Range(pool.exec[a]) \cup Range(pool.nonExec[a]) \subseteq {t \in Tx : t.from = a}
    /\ DOMAIN pool.nonces \subseteq Account /\ Range(pool.nonces) \subseteq Nat
    /\ \A i \in DOMAIN pool.cache : pool.cache[i].tx \in Tx /\ pool.cache[i].exec \in BOOLEAN
    /\ pool.size \in Nat /\ pool.nonExecSize \in Nat

\* Through additions, evictions, timeouts and chain switches the executable
\* transactions of a sender are exactly those from its state nonce up to the
\* expected nonce, the others come later, and a sender without transactions in
\* the pool is expected to continue at its state nonce (MempoolMap.nonces).
ExecutableNoncesAreContiguous ==
    \A a \in Account :
        LET expected == ExpectedNonce(pool, chain, a)
        IN  /\ DOMAIN pool.exec[a] = StateNonce(chain, a) .. expected - 1
            /\ \A n \in DOMAIN pool.nonExec[a] : n > expected
            /\ DOMAIN pool.exec[a] \cup DOMAIN pool.nonExec[a] # {} => a \in DOMAIN pool.nonces

\* The cache and the two maps agree: every transaction of a map is cached once
\* with the status of its map, nothing else is cached, and the two counters are
\* the slots of what is cached (TxCache.sizeInSlots, nonExecSizeInSlots).
CacheMatchesMaps ==
    LET Held(m) == UNION {Range(m[a]) : a \in Account}
        CachedAs(s) == SelectSeq(pool.cache, LAMBDA e : e.exec = s)
    IN  /\ \A i, j \in DOMAIN pool.cache : pool.cache[i].tx = pool.cache[j].tx => i = j
        /\ ToSet(CachedTxs(CachedAs(TRUE))) = Held(pool.exec)
        /\ ToSet(CachedTxs(CachedAs(FALSE))) = Held(pool.nonExec)
        /\ \A a \in Account :
              \A m \in {pool.exec[a], pool.nonExec[a]} : \A n \in DOMAIN m : m[n].nonce = n
        /\ pool.size = SlotsOf(CachedTxs(pool.cache))
        /\ pool.nonExecSize = SlotsOf(CachedTxs(CachedAs(FALSE)))

\* After every operation the pool, its sub-pool of non executable transactions
\* and each sender are within their slots, and no nonce is too far from the
\* state nonce, also when a chain switch put the state nonce back.
PoolWithinLimits ==
    /\ PoolFits(pool) /\ NonExecFits(pool)
    /\ \A a \in Account :
          /\ AccountSlots(pool, a) <= MaxSlotsPerAccount
          /\ \A n \in DOMAIN pool.exec[a] \cup DOMAIN pool.nonExec[a] :
                n < StateNonce(chain, a) + MaxNonceGap

\* A transaction that put accepts is in the pool afterwards: the evictions that
\* make room for it, and the orphans they leave, never take the new one.
AcceptedTransactionStays ==
    [][chain' = chain => \A t \in Tx : put(t) => InCache(pool', t)]_vars

Executable(p) == UNION {Range(p.exec[x]) : x \in Account}

ValidFor(c, t) ==
    /\ t.nonce \in StateNonce(c, t.from) .. StateNonce(c, t.from) + MaxNonceGap - 1
    /\ t.cost <= Balance(c, t.from)

\* What a change of the active chain may find in the pool or bring back to it
Candidates == {t \in Tx : InCache(pool, t) \/ Contains(TxsOf(chain), t)}

\* There is room for all of it, and for what may lose its predecessor to be non
\* executable.
RoomForCandidates ==
    LET Slots(S) == MapThenSumSet(LAMBDA t : t.slots, S)
    IN  /\ Slots(Candidates) <= MaxMemPoolSlots
        /\ Slots({t \in Candidates : t.nonce > 0}) <= MaxNonExecSlots
        /\ \A a \in Account : Slots({t \in Candidates : t.from = a}) <= MaxSlotsPerAccount

\* When there is room, a change of the active chain loses no valid transaction:
\* those of the pool stay, but for the oldest that may time out, and those of the
\* removed blocks come back (MempoolMap.updateMemPool).
ValidTransactionsSurvive ==
    [][chain' # chain /\ RoomForCandidates =>
          \A t \in Candidates :
              ValidFor(chain', t) /\ t \notin {pool.cache[i].tx : i \in 1 .. MaxTimedOut \cap DOMAIN pool.cache}
                  => InCache(pool', t)]_vars

\* Whatever becomes executable by a change of the active chain is in the list
\* that updateMemPool returns for the event.
UpdateAnnouncesNewExecutables ==
    [][chain' # chain => Executable(pool') \ Executable(pool) \subseteq announced']_vars

\* What becomes executable by put is in the list that add returns for the event.
PutAnnouncesNewExecutables ==
    [][chain' = chain => Executable(pool') \ Executable(pool) \subseteq announced']_vars

\* After a change of the active chain no transaction of the pool has a nonce
\* below the state's or costs more than its sender has.
InvalidTransactionsAreRemoved ==
    [][chain' # chain => \A i \in DOMAIN pool'.cache : ValidFor(chain', pool'.cache[i].tx)]_vars

=============================================================================
