--------------------------- MODULE ForgerStakesV2 ---------------------------
(***************************************************************************)
(* The native contract that keeps the forgers of the account model and     *)
(* what is delegated to them (ForgerStakeV2MsgProcessor over StakeStorage).*)
(* Every call runs in a transaction: a check that fails reverts all of it, *)
(* so a call is one step with the checks as its guard.                     *)
(***************************************************************************)
EXTENDS StakeCheckpoints, Functions

CONSTANTS
    Forger,        \* pairs of block sign key and VRF key
    Delegator,     \* accounts that stake
    OldStakes,     \* stakes of the first contract, [Forger -> [Delegator -> Nat]]
    Funds,         \* the balance each account starts with
    MinStake,      \* MIN_REGISTER_FORGER_STAKED_AMOUNT_IN_WEI
    MaxEpoch       \* bound: consensus epochs

ASSUME StakesAssumption ==
    /\ IsFiniteSet(Forger) /\ IsFiniteSet(Delegator)
    /\ OldStakes \in [Forger -> [Delegator -> Nat]]
    /\ Funds \in Nat /\ MinStake \in Nat \ {0} /\ MaxEpoch \in Nat

VARIABLES
    active,         \* StakeStorage.isActive
    epoch,          \* BlockContext.consensusEpochNumber
    forgers,        \* ForgerMap.ListOfForgers
    rewarded,       \* forgers with a reward share and a reward address
    forgerHistory,  \* ForgerStakeHistory of each forger
    stakeHistory,   \* StakeHistory of each forger and delegator
    delegators,     \* DelegatorList of each forger
    forgersOf,      \* DelegatorListOfForgerKeys of each delegator
    balance,        \* balances of the delegators
    contract,       \* balance of this contract
    oldContract     \* balance of the first contract

vars == <<active, epoch, forgers, rewarded, forgerHistory, stakeHistory,
          delegators, forgersOf, balance, contract, oldContract>>

Elems(s) == {s[i] : i \in DOMAIN s}

\* The sequences that list a finite set.
Listings(S) ==
    {s \in [1 .. Cardinality(S) -> S] : S \subseteq Elems(s)}

OldStakers(f) == {d \in Delegator : OldStakes[f][d] > 0}

OldTotal(f) == SumFunction(OldStakes[f])

OldSupply == SumFunction([f \in Forger |-> OldTotal(f)])

Init ==
    /\ active = FALSE
    /\ epoch \in 0 .. MaxEpoch
    /\ forgers = <<>>
    /\ rewarded = {}
    /\ forgerHistory = [f \in Forger |-> <<>>]
    /\ stakeHistory = [f \in Forger |-> [d \in Delegator |-> <<>>]]
    /\ delegators = [f \in Forger |-> <<>>]
    /\ forgersOf = [d \in Delegator |-> <<>>]
    /\ balance = [d \in Delegator |-> Funds]
    /\ contract = 0
    /\ oldContract = OldSupply

\* existsForger
Exists(f) == f \in Elems(forgers)

NotPast(h) == h # <<>> => h[Len(h)].from <= epoch

----------------------------------------------------------------------------
(* The calls. *)

\* doActivateCmd: the stakes of the first contract move, summed by forger and by
\* owner, in the order in which the maps of the code are walked.
activate ==
    /\ ~active
    /\ LET migrated == {f \in Forger : OldStakers(f) # {}}
       IN  /\ forgers' \in Listings(migrated)
           /\ delegators' \in {l \in [Forger -> UNION {Listings(OldStakers(f)) : f \in Forger}] :
                                 \A f \in Forger : l[f] \in Listings(OldStakers(f))}
           /\ forgersOf' = [d \in Delegator |-> SelectSeq(forgers', LAMBDA f : d \in OldStakers(f))]
           /\ forgerHistory' = [f \in Forger |->
                 IF f \in migrated THEN <<Checkpoint(epoch, OldTotal(f))>> ELSE <<>>]
           /\ stakeHistory' = [f \in Forger |-> [d \in Delegator |->
                 IF d \in OldStakers(f) THEN <<Checkpoint(epoch, OldStakes[f][d])>> ELSE <<>>]]
           /\ contract' = contract + OldSupply
           /\ oldContract' = oldContract - OldSupply
    /\ active' = TRUE
    /\ UNCHANGED <<epoch, rewarded, balance>>

AddDelegator(f, d) ==
    /\ delegators' = [delegators EXCEPT ![f] = Append(@, d)]
    /\ forgersOf' = [forgersOf EXCEPT ![d] = Append(@, f)]

\* doRegisterForger
registerForger(f, d, amount, withReward) ==
    /\ active
    /\ amount >= MinStake
    /\ balance[d] >= amount
    /\ ~Exists(f)
    /\ forgers' = Append(forgers, f)
    /\ rewarded' = IF withReward THEN rewarded \cup {f} ELSE rewarded
    /\ forgerHistory' = [forgerHistory EXCEPT ![f] = Append(@, Checkpoint(epoch, amount))]
    /\ stakeHistory' = [stakeHistory EXCEPT ![f][d] = Append(@, Checkpoint(epoch, amount))]
    /\ AddDelegator(f, d)
    /\ balance' = [balance EXCEPT ![d] = @ - amount]
    /\ contract' = contract + amount
    /\ UNCHANGED <<active, epoch, oldContract>>

\* doUpdateForger: once, for a forger that has no reward share yet.
updateForger(f) ==
    /\ active
    /\ Exists(f)
    /\ f \notin rewarded
    /\ rewarded' = rewarded \cup {f}
    /\ UNCHANGED <<active, epoch, forgers, forgerHistory, stakeHistory, delegators, forgersOf,
                   balance, contract, oldContract>>

UpdateHistories(f, d, forgerAmount, amount) ==
    /\ NotPast(forgerHistory[f]) /\ NotPast(stakeHistory[f][d])
    /\ forgerHistory' = [forgerHistory EXCEPT ![f] = UpdateOrAddCheckpoint(@, epoch, forgerAmount)]
    /\ stakeHistory' = [stakeHistory EXCEPT ![f][d] = UpdateOrAddCheckpoint(@, epoch, amount)]

\* doDelegateCmd, StakeStorage.addStake
delegate(f, d, amount) ==
    /\ active
    /\ amount > 0
    /\ balance[d] >= amount
    /\ forgerHistory[f] # <<>>
    /\ UpdateHistories(f, d, LatestAmount(forgerHistory[f]) + amount,
                       LatestAmount(stakeHistory[f][d]) + amount)
    /\ IF stakeHistory[f][d] = <<>> THEN AddDelegator(f, d)
       ELSE UNCHANGED <<delegators, forgersOf>>
    /\ balance' = [balance EXCEPT ![d] = @ - amount]
    /\ contract' = contract + amount
    /\ UNCHANGED <<active, epoch, forgers, rewarded, oldContract>>

\* Mutant: the stake of the delegator is not updated.
withdrawFromForgerOnly(f, d, amount) ==
    /\ active /\ amount > 0
    /\ LatestAmount(stakeHistory[f][d]) >= amount
    /\ forgerHistory' = [forgerHistory EXCEPT ![f] =
          UpdateOrAddCheckpoint(@, epoch, LatestAmount(@) - amount)]
    /\ balance' = [balance EXCEPT ![d] = @ + amount]
    /\ contract' = contract - amount
    /\ UNCHANGED <<active, epoch, forgers, rewarded, stakeHistory, delegators, forgersOf, oldContract>>

\* doWithdrawCmd, StakeStorage.removeStake
withdraw(f, d, amount) ==
    /\ active
    /\ amount > 0
    /\ forgerHistory[f] # <<>> /\ stakeHistory[f][d] # <<>>
    /\ LatestAmount(stakeHistory[f][d]) >= amount
    /\ LatestAmount(forgerHistory[f]) >= amount
    /\ UpdateHistories(f, d, LatestAmount(forgerHistory[f]) - amount,
                       LatestAmount(stakeHistory[f][d]) - amount)
    /\ balance' = [balance EXCEPT ![d] = @ + amount]
    /\ contract' = contract - amount
    /\ UNCHANGED <<active, epoch, forgers, rewarded, delegators, forgersOf, oldContract>>

\* A block of the next consensus epoch.
NextEpoch ==
    /\ epoch < MaxEpoch
    /\ epoch' = epoch + 1
    /\ UNCHANGED <<active, forgers, rewarded, forgerHistory, stakeHistory, delegators, forgersOf,
                   balance, contract, oldContract>>

Supply == Cardinality(Delegator) * Funds + OldSupply

Next ==
    \/ activate
    \/ NextEpoch
    \/ \E f \in Forger : updateForger(f)
    \/ \E f \in Forger, d \in Delegator, amount \in 1 .. Supply :
          \/ \E withReward \in BOOLEAN : registerForger(f, d, amount, withReward)
          \/ delegate(f, d, amount)
          \/ withdraw(f, d, amount)

Spec == Init /\ [][Next]_vars

----------------------------------------------------------------------------
(* Properties *)

History == Seq([from : Nat, amount : Nat])

\* The lists hold forgers and delegators, the histories checkpoints, and no
\* balance is negative.
TypeOK ==
    /\ active \in BOOLEAN /\ epoch \in 0 .. MaxEpoch
    /\ forgers \in Seq(Forger) /\ rewarded \subseteq Forger
    /\ forgerHistory \in [Forger -> History]
    /\ stakeHistory \in [Forger -> [Delegator -> History]]
    /\ delegators \in [Forger -> Seq(Delegator)]
    /\ forgersOf \in [Delegator -> Seq(Forger)]
    /\ balance \in [Delegator -> Nat]
    /\ contract \in Nat /\ oldContract \in Nat

Ordered(h) ==
    \A i \in DOMAIN h : /\ h[i].from <= epoch
                        /\ \A j \in DOMAIN h : j < i => h[j].from < h[i].from

\* The checkpoints of every history are in the order of their epochs, one for an
\* epoch, none in the future: what checkpointBSearch relies on.
HistoriesAreOrdered ==
    \A f \in Forger : /\ Ordered(forgerHistory[f])
                      /\ \A d \in Delegator : Ordered(stakeHistory[f][d])

\* At every epoch, past ones included, the stake of a forger is what its
\* delegators have with it, although the histories are updated one by one and
\* drop checkpoints one by one (updateOrAddCheckpoint).
ForgerStakeIsSumOfDelegators ==
    \A f \in Forger, e \in 0 .. epoch :
        StakeAt(forgerHistory[f], e) =
            SumFunction([d \in Delegator |-> StakeAt(stakeHistory[f][d], e)])

\* The balance of the contract is exactly what can be withdrawn from it, and no
\* coin is made or lost by a migration, a delegation or a withdrawal.
ContractCoversStakes ==
    /\ contract = SumFunction([f \in Forger |-> LatestAmount(forgerHistory[f])])
    /\ contract + oldContract + SumFunction(balance) = Supply

ListedOnce(s) == \A i, j \in DOMAIN s : s[i] = s[j] => i = j

\* Each forger is listed once and has a history; a delegator and a forger list
\* each other, once, exactly when the delegator ever had stake with the forger,
\* so the paged queries show every stake once.
ListsMatchHistories ==
    /\ ListedOnce(forgers)
    /\ \A f \in Forger :
          /\ Exists(f) <=> forgerHistory[f] # <<>>
          /\ ListedOnce(delegators[f])
          /\ Elems(delegators[f]) = {d \in Delegator : stakeHistory[f][d] # <<>>}
    /\ \A d \in Delegator :
          /\ ListedOnce(forgersOf[d])
          /\ Elems(forgersOf[d]) = {f \in Forger : stakeHistory[f][d] # <<>>}

\* The answer of getStakeTotal for a range of epochs, found by binary search and
\* a walk backwards, is what the checkpoints say for each epoch.
QueriesAgreeWithCheckpoints ==
    \A f \in Forger, first, last \in 0 .. epoch :
        \A h \in {forgerHistory[f]} \cup {stakeHistory[f][d] : d \in Delegator} :
            first <= last => \A e \in first .. last : StakesPerEpoch(h, first, last)[e] = StakeAt(h, e)

\* The stake a forger or a delegator had in an epoch that is over never changes:
\* leader election and reward sharing read it later.
PastStakesAreFrozen ==
    [][active => \A f \in Forger : \A e \in 0 .. epoch - 1 :
          /\ StakeAt(forgerHistory'[f], e) = StakeAt(forgerHistory[f], e)
          /\ \A d \in Delegator : StakeAt(stakeHistory'[f][d], e) = StakeAt(stakeHistory[f][d], e)]_vars

=============================================================================
