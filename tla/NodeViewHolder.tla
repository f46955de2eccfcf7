-------------------------- MODULE NodeViewHolder --------------------------
(***************************************************************************)
(* AbstractSidechainNodeViewHolder with AbstractHistory and the storages   *)
(* it drives.  One actor takes a block at a time: the block is appended to *)
(* the history, the state and the wallet are rolled back to the branching  *)
(* point if the chain switches, and the blocks to apply are written to     *)
(* the state storages, then the wallet storages, then the history.  Every  *)
(* write to a storage is a step, because the node may stop between two     *)
(* writes; a storage is the list of its versions, newest first (module     *)
(* VersionedStore shows that a version stands for its contents).           *)
(***************************************************************************)
EXTENDS BlockTree

CONSTANTS
    Epoch,          \* block -> consensus epoch of its timestamp
    Dubious,        \* blocks that state.applyModifier or the check on
                    \* mainchain references may refuse
    StateOrder,     \* the state storages, in the order they are updated
    WalletOrder,    \* the wallet storages, in the order they are updated
    VersionStorage, \* the state storage whose version is state.version
    ForgingStorage, \* forgingBoxesInfoStorage, if the wallet has one
    MaxRewrite,     \* params.maxHistoryRewritingLength
    Keep,           \* versions a storage keeps
    CrashFrom,      \* best blocks during which a stop is considered
    CrashInSwitch,  \* whether stops in the middle of a chain switch are, too
    CrashIfRefused, \* whether they are when some block is refused
    MaxCrashes      \* bound on the number of stops

ASSUME NodeAssumption ==
    /\ Epoch \in [Block -> Nat]
    /\ Dubious \subseteq Block \ {Genesis}
    /\ MaxRewrite \in Nat \ {0}
    /\ Keep \in Nat \ {0, 1}
    /\ CrashFrom \subseteq Block
    /\ CrashInSwitch \in BOOLEAN /\ CrashIfRefused \in BOOLEAN
    /\ MaxCrashes \in Nat

StateStorages == {StateOrder[i] : i \in DOMAIN StateOrder}
WalletStorages == {WalletOrder[i] : i \in DOMAIN WalletOrder}
Storages == StateStorages \cup WalletStorages

VARIABLES
    known,      \* blocks in the history storage
    validity,   \* their semantic validity
    best,       \* bestBlockId in the history storage
    versions,   \* storage -> its versions, newest first
    phase,      \* what the node view holder is doing
    left,       \* storages the current phase has still to write
    branch,     \* progressInfo.branchPoint, or the target of a recovery
    toRemove,   \* progressInfo.toRemove
    toApply,    \* what is left of progressInfo.toApply
    done,       \* the blocks of progressInfo.toApply applied so far
    booting,    \* the storages are being checked after a start
    crashes,    \* number of stops so far
    refused     \* the blocks whose contents are refused, fixed from the start

history == <<known, validity, best>>
progress == <<branch, toRemove, toApply, done>>
vars == <<history, versions, phase, left, progress, booting, crashes, refused>>

Phases == {"idle", "walletRollback", "stateRollback", "apply", "state", "wallet",
           "valid", "best", "invalid", "down", "compare", "halted"}

(***************************************************************************)
(* A version is a pair <<b, n>>: <<b, 0>> is the id of block b, <<b, n>>   *)
(* the nth version ForgingBoxesInfoStorage.nextVersion derives from it.    *)
(***************************************************************************)
IdVersion(b) == <<b, 0>>
NextVersion(v) == <<v[1], v[2] + 1>>

Top(s) == Head(versions[s])
HasVersion(s, v) == \E i \in 1 .. Len(versions[s]) : versions[s][i] = v

\* VersionedLDBKVStore.update: the new version first, at most Keep of them.
Pushed(s, v) ==
    LET all == <<v>> \o versions[s]
    IN  SubSeq(all, 1, IF Len(all) < Keep THEN Len(all) ELSE Keep)

\* VersionedLDBKVStore.rollbackTo: the versions from v on.
RolledBack(s, v) ==
    LET i == CHOOSE j \in 1 .. Len(versions[s]) : versions[s][j] = v
    IN  SubSeq(versions[s], i, Len(versions[s]))

stateVersion == Top(VersionStorage)

ActiveChain == Anc[best]

(***************************************************************************)
(* AbstractHistory: what appending b does to the active chain.             *)
(***************************************************************************)
Progress(branchPoint, remove, apply) ==
    [branchPoint |-> branchPoint, toRemove |-> remove, toApply |-> apply]

\* A branch point of None goes with nothing to remove and is never read.
NoProgress == Progress(best, << >>, << >>)

\* Equal scores: the longer chain wins.
isBestBlock(b) ==
    \/ Score[b] > Score[best]
    \/ Score[b] = Score[best] /\ Height[b] > Height[best]

\* Mutant: the limit on the length of a fork is off by one.
bestForkChangesTooStrict(b) ==
    LET common == LastCommon(Parent[b], best)
        newChainSuffix == PathFromTo(common, Parent[b])
    IN  IF Height[best] - Height[common] >= MaxRewrite THEN NoProgress
        ELSE IF \E i \in DOMAIN newChainSuffix : validity[newChainSuffix[i]] = "Invalid" THEN NoProgress
        ELSE Progress(common, PathFromTo(common, best), Append(newChainSuffix, b))

\* With the setting resetModifiersStatus at its default, false.
bestForkChanges(b) ==
    LET common == LastCommon(Parent[b], best)
        newChainSuffix == PathFromTo(common, Parent[b])
    IN  IF Height[best] - Height[common] > MaxRewrite THEN NoProgress
        ELSE IF \E i \in DOMAIN newChainSuffix : validity[newChainSuffix[i]] = "Invalid" THEN NoProgress
        ELSE Progress(common, PathFromTo(common, best), Append(newChainSuffix, b))

ProgressInfo(b) ==
    IF Parent[b] = best THEN Progress(best, << >>, <<b>>)
    ELSE IF isBestBlock(b) THEN bestForkChanges(b)
    ELSE NoProgress

(***************************************************************************)
(* AbstractSidechainNodeViewHolder.updateStateAndWallet: the rollbacks, if *)
(* the chain switches and the state is not at the branch point already.    *)
(***************************************************************************)
RollbackStart == IF WalletOrder = << >> THEN "stateRollback" ELSE "walletRollback"
RollbackLeft == IF WalletOrder = << >> THEN StateOrder ELSE WalletOrder

updateStateAndWallet(info) ==
    LET rollback == info.toRemove # << >> /\ stateVersion # IdVersion(info.branchPoint)
    IN  /\ branch' = info.branchPoint
        /\ toRemove' = info.toRemove
        /\ toApply' = info.toApply
        /\ done' = << >>
        /\ phase' = IF rollback THEN RollbackStart
                    ELSE IF info.toApply # << >> THEN "apply" ELSE "idle"
        /\ left' = IF rollback THEN RollbackLeft ELSE << >>

\* pmodModify and AbstractHistory.append: the block is stored whatever the
\* fork choice says of it.
pmodModify(b) ==
    /\ phase = "idle"
    /\ b \notin known
    /\ Parent[b] \in known
    /\ known' = known \cup {b}
    /\ validity' = [validity EXCEPT ![b] = "Unknown"]
    /\ updateStateAndWallet(ProgressInfo(b))
    /\ UNCHANGED <<best, versions, booting, crashes, refused>>

\* One storage of the current phase is written; after the last one the node
\* goes on with the next phase.
Advance(rest, next, nextLeft) ==
    IF rest # << >>
    THEN phase' = phase /\ left' = rest
    ELSE phase' = next /\ left' = nextLeft

\* The storages are rolled back in the reverse order of their update.
\* Storage.rollback throws if the version is not there; the failed Try ends
\* in ??? and the actor takes the node down.
RollbackStorage(next, nextLeft) ==
    LET s == left[Len(left)]
    IN  IF HasVersion(s, IdVersion(branch))
        THEN /\ versions' = [versions EXCEPT ![s] = RolledBack(s, IdVersion(branch))]
             /\ Advance(SubSeq(left, 1, Len(left) - 1), next, nextLeft)
        ELSE /\ phase' = "halted"
             /\ left' = << >>
             /\ UNCHANGED versions

walletRollback ==
    /\ phase = "walletRollback"
    /\ RollbackStorage("stateRollback", StateOrder)
    /\ UNCHANGED <<history, progress, booting, crashes, refused>>

stateRollback ==
    /\ phase = "stateRollback"
    /\ RollbackStorage(IF booting THEN "compare"
                       ELSE IF toApply # << >> THEN "apply" ELSE "idle", << >>)
    /\ UNCHANGED <<history, progress, booting, crashes, refused>>

(***************************************************************************)
(* applyStateAndWallet: the block at the head of toApply.                  *)
(***************************************************************************)
switchingEpoch(b) == Epoch[b] # Epoch[stateVersion[1]]

\* state.applyModifier checks that the block extends the state's version.
AppliesToState(b) == b \notin refused /\ stateVersion = IdVersion(Parent[b])

StartBlock(b) ==
    /\ phase' = IF AppliesToState(b) THEN "state" ELSE "invalid"
    /\ left' = IF AppliesToState(b) THEN StateOrder ELSE << >>

\* wallet.applyConsensusEpochInfo is written before the state looks at the
\* block, under a version that is not a block id.
applyConsensusEpochInfo ==
    /\ phase = "apply"
    /\ switchingEpoch(Head(toApply))
    /\ versions' = [s \in Storages |->
           IF s = ForgingStorage THEN Pushed(s, NextVersion(Top(s))) ELSE versions[s]]
    /\ StartBlock(Head(toApply))
    /\ UNCHANGED <<history, progress, booting, crashes, refused>>

\* The epoch information cannot be worked out for a block that is refused
\* here: nothing has been written for it yet.
epochInfoFails ==
    /\ phase = "apply"
    /\ switchingEpoch(Head(toApply))
    /\ Head(toApply) \in refused
    /\ StartBlock(Head(toApply))
    /\ UNCHANGED <<history, versions, progress, booting, crashes, refused>>

stayInEpoch ==
    /\ phase = "apply"
    /\ ~switchingEpoch(Head(toApply))
    /\ StartBlock(Head(toApply))
    /\ UNCHANGED <<history, versions, progress, booting, crashes, refused>>

\* Storage.update throws if the version is there already: the state returns
\* a Failure, the wallet lets the exception take the actor down.
UpdateStorage(failed, next, nextLeft) ==
    LET s == Head(left)
        v == IdVersion(Head(toApply))
    IN  IF HasVersion(s, v)
        THEN /\ phase' = failed
             /\ left' = << >>
             /\ UNCHANGED versions
        ELSE /\ versions' = [versions EXCEPT ![s] = Pushed(s, v)]
             /\ Advance(Tail(left), next, nextLeft)

applyModifier ==
    /\ phase = "state"
    /\ UpdateStorage("invalid", IF WalletOrder = << >> THEN "valid" ELSE "wallet", WalletOrder)
    /\ UNCHANGED <<history, progress, booting, crashes, refused>>

\* cswDataProvider.update comes last and its failure is not looked at.
scanPersistent ==
    /\ phase = "wallet"
    /\ UpdateStorage(IF Head(left) = "csw" THEN "valid" ELSE "halted", "valid", << >>)
    /\ UNCHANGED <<history, progress, booting, crashes, refused>>

\* Mutant: blocks of a new branch become best without being marked valid.
updateSemanticValidityOfExtension ==
    /\ phase = "valid"
    /\ validity' = [validity EXCEPT ![Head(toApply)] = IF toRemove = << >> THEN "Valid" ELSE @]
    /\ phase' = "best"
    /\ UNCHANGED <<known, best, versions, left, progress, booting, crashes, refused>>

\* reportModifierIsValid: two writes to the history storage.
updateSemanticValidity ==
    /\ phase = "valid"
    /\ validity' = [validity EXCEPT ![Head(toApply)] = "Valid"]
    /\ phase' = "best"
    /\ UNCHANGED <<known, best, versions, left, progress, booting, crashes, refused>>

\* Mutant: the tip of the new branch becomes best with its first block.
setTipAsBestBlock ==
    /\ phase = "best"
    /\ best' = toApply[Len(toApply)]
    /\ toApply' = Tail(toApply)
    /\ done' = Append(done, Head(toApply))
    /\ phase' = IF Tail(toApply) = << >> THEN "idle" ELSE "apply"
    /\ UNCHANGED <<known, validity, versions, left, branch, toRemove, booting, crashes, refused>>

setAsBestBlock ==
    /\ phase = "best"
    /\ best' = Head(toApply)
    /\ toApply' = Tail(toApply)
    /\ done' = Append(done, Head(toApply))
    /\ phase' = IF Tail(toApply) = << >> THEN "idle" ELSE "apply"
    /\ UNCHANGED <<known, validity, versions, left, branch, toRemove, booting, crashes, refused>>

\* Mutants: the blocks that were removed are not applied again; the refused
\* block is tried once more after them.
reportModifierIsInvalidNoReturn ==
    /\ phase = "invalid"
    /\ validity' = [validity EXCEPT ![Head(toApply)] = "Invalid"]
    /\ updateStateAndWallet(Progress(branch, done, << >>))
    /\ UNCHANGED <<known, best, versions, booting, crashes, refused>>

reportModifierIsInvalidRetry ==
    /\ phase = "invalid"
    /\ validity' = [validity EXCEPT ![Head(toApply)] = "Invalid"]
    /\ updateStateAndWallet(Progress(branch, done, Append(toRemove, Head(toApply))))
    /\ UNCHANGED <<known, best, versions, booting, crashes, refused>>

\* The blocks applied so far are removed and the ones removed applied again.
reportModifierIsInvalid ==
    /\ phase = "invalid"
    /\ validity' = [validity EXCEPT ![Head(toApply)] = "Invalid"]
    /\ updateStateAndWallet(Progress(branch, done, toRemove))
    /\ UNCHANGED <<known, best, versions, booting, crashes, refused>>

(***************************************************************************)
(* The process ends between two writes; what it held in memory is lost.    *)
(***************************************************************************)
Crash ==
    /\ phase \notin {"down", "halted"}
    /\ best \in CrashFrom
    /\ CrashInSwitch \/ phase = "idle" \/ toRemove = << >>
    /\ CrashIfRefused \/ refused = {}
    /\ crashes < MaxCrashes
    /\ crashes' = crashes + 1
    /\ phase' = "down"
    /\ left' = << >>
    /\ branch' = best
    /\ toRemove' = << >>
    /\ toApply' = << >>
    /\ done' = << >>
    /\ booting' = FALSE
    /\ UNCHANGED <<history, versions, refused>>

\* genesisState: createGenesisState, then createGenesisWallet with the epoch
\* information of the genesis block, then createGenesisHistory.
Init ==
    /\ known = {Genesis}
    /\ validity = [b \in Block |-> IF b = Genesis THEN "Valid" ELSE "Absent"]
    /\ best = Genesis
    /\ versions = [s \in Storages |->
          IF s = ForgingStorage
          THEN <<NextVersion(IdVersion(Genesis)), IdVersion(Genesis)>>
          ELSE <<IdVersion(Genesis)>>]
    /\ phase = "idle"
    /\ left = << >>
    /\ branch = Genesis
    /\ toRemove = << >>
    /\ toApply = << >>
    /\ done = << >>
    /\ booting = FALSE
    /\ crashes = 0
    /\ refused \in SUBSET Dubious

\* What the actor does by itself, once it has taken a block.
Process ==
    \/ walletRollback
    \/ stateRollback
    \/ applyConsensusEpochInfo
    \/ epochInfoFails
    \/ stayInEpoch
    \/ applyModifier
    \/ scanPersistent
    \/ updateSemanticValidity
    \/ setAsBestBlock
    \/ reportModifierIsInvalid

Receive == \E b \in Block : pmodModify(b)

-----------------------------------------------------------------------------

Version == Block \X Nat

\* The history holds whole chains, and the blocks that the node view holder
\* works with are all in it; a storage always has a version.
TypeOK ==
    /\ known \in SUBSET Block
    /\ \A b \in known : Anc[b] \subseteq known
    /\ validity \in [Block -> {"Absent", "Unknown", "Valid", "Invalid"}]
    /\ best \in known
    /\ versions \in [Storages -> Seq(Version)]
    /\ \A s \in Storages : versions[s] # << >>
    /\ phase \in Phases
    /\ left \in Seq(Storages)
    /\ branch \in known
    /\ toRemove \in Seq(known)
    /\ toApply \in Seq(known)
    /\ done \in Seq(known)
    /\ booting \in BOOLEAN
    /\ crashes \in Nat
    /\ refused \in SUBSET Dubious

\* Between two blocks, the newest version of every storage of the state and
\* of the wallet is the best block of the history: a reorganisation, a block
\* refused half-way through it and the return to the old branch leave them
\* in step (forgingBoxesInfo may hold epoch information on top of it).
InStep ==
    phase = "idle" =>
        \A s \in Storages : /\ Top(s)[1] = best
                            /\ s # ForgingStorage => Top(s)[2] = 0

\* Every block of the active chain has been applied to the state: the history
\* never moves its best block past a block it has not marked valid.
ActiveChainValid == \A b \in ActiveChain : b \in known /\ validity[b] = "Valid"

\* A block is marked invalid, which is for good, only if the state refuses it:
\* never because the state happened to be at another block.
OnlyRefusedAreInvalid == \A b \in Block : validity[b] = "Invalid" => b \in refused

\* Once the blocks at hand are dealt with by a node that was never stopped (the
\* block it is at when stopped waits for a child), no known chain of acceptable blocks
\* is better than the active one, unless it branched off more than
\* maxHistoryRewritingLength blocks below a block that has been active.  (Such
\* a chain is not looked at again when the active chain gets shorter.)
BestChainIsActive ==
    phase = "idle" /\ crashes = 0 =>
        \A b \in known :
            isBestBlock(b) /\ Anc[b] \cap refused = {} =>
                \E c \in known :
                    /\ validity[c] = "Valid"
                    /\ Height[c] - Height[LastCommon(b, c)] > MaxRewrite

\* The blocks taken off the state are off the active chain when the update is
\* over: the history follows the state in both directions.
RemovedBlocksLeaveActiveChain ==
    phase = "idle" => \A i \in DOMAIN toRemove : toRemove[i] \notin ActiveChain

\* A rollback always finds the version it asks for in every storage, and no
\* storage meets a version twice: the node view holder never ends in ???.
NeverHalted == phase # "halted"

\* The best block only ever moves to a child of a block of the active chain,
\* which is what ActiveChain.setNonGenesisBlock insists on after the new best
\* block has been written to disk.
BestMovesAlongActiveChain ==
    [][best' # best => Parent[best'] \in ActiveChain]_vars

\* The recursion of updateStateAndWallet ends: whatever blocks turn out to be
\* refused, the node comes back to taking the next block.
Settles == phase # "idle" ~> phase \in {"idle", "halted"}
=============================================================================
