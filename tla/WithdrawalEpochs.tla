--------------------------- MODULE WithdrawalEpochs ---------------------------
(***************************************************************************)
(* The part of the UTXO state that follows the withdrawal epochs of the    *)
(* mainchain (WithdrawalEpochUtils, SidechainState, SidechainStateStorage): *)
(* where in its epoch a block is, the withdrawal requests and the top      *)
(* quality certificate of an epoch, when the sidechain has ceased, the     *)
(* fees paid at the end of an epoch and the rotation of certifiers keys.   *)
(* One step is one block that is validated and applied.                    *)
(***************************************************************************)
EXTENDS Integers, FiniteSets

CONSTANTS
    L,              \* params.withdrawalEpochLength
    MaxWBs,         \* params.maxWBsAllowed
    Key,            \* keys of the one certifier
    GenesisKey,
    MaxEpoch,       \* bound: epochs
    MaxRefs,        \* bound: mainchain references in one block
    MaxFees         \* bound: blocks of an epoch

None == -1

ASSUME EpochAssumption ==
    /\ L \in Nat /\ L >= 2
    /\ MaxWBs \in Nat
    /\ GenesisKey \in Key /\ None \notin Key
    /\ MaxEpoch \in Nat /\ MaxRefs \in 0 .. L /\ MaxFees \in Nat

VARIABLES
    nonCeasing,     \* params.isNonCeasing, which never changes
    epoch, index,   \* WithdrawalEpochInfo(epoch, lastEpochIndex)
    requests,       \* number of withdrawal requests stored for an epoch
    certificate,    \* top quality certificate stored for an epoch: its transfers, or None
    lastCertEpoch,  \* lastCertificateReferencedEpoch
    blockFees,      \* number of BlockFeeInfo records of an epoch
    certifiersKeys, \* key stored at the end of an epoch, or None
    rotationProof,  \* key rotation proof stored for an epoch, or None
    hasCeased,
    refs,           \* history: mainchain references so far
    mined,          \* history: withdrawal requests of an epoch
    certified,      \* history: epochs that have a certificate on the mainchain
    feeBlocks,      \* history: blocks of an epoch
    paid,           \* history: block fees paid at the end of an epoch
    rotated         \* history: last key rotation of an epoch, or None

storage == <<requests, certificate, lastCertEpoch, blockFees, certifiersKeys, rotationProof, hasCeased>>
history == <<refs, mined, certified, feeBlocks, paid, rotated>>
vars == <<nonCeasing, epoch, index, storage, history>>

Epoch == 0 .. MaxEpoch

----------------------------------------------------------------------------
(* WithdrawalEpochUtils *)

certificateSubmissionWindowLength == IF L \div 5 > 2 THEN L \div 5 ELSE 2

\* Mutant: a block that begins at the end of an epoch stays in it.
EpochAfterLate(n) == IF index + n > L THEN epoch + 1 ELSE epoch

\* getWithdrawalEpochInfo: the epoch of a block with n references
EpochAfter(n) == IF index = L \/ index + n > L THEN epoch + 1 ELSE epoch

\* getWithdrawalEpochInfo: the last index
IndexAfter(n) ==
    IF EpochAfter(n) = epoch THEN index + n
    ELSE IF n = L /\ index = L THEN n ELSE (index + n) % L

\* Mutant: the window ends only at a block whose parent is inside of it.
hasReachedWindowEndFromInside(n) ==
    /\ EpochAfter(n) > 0
    /\ index < certificateSubmissionWindowLength
    /\ IndexAfter(n) >= certificateSubmissionWindowLength

\* hasReachedCertificateSubmissionWindowEnd
hasReachedCertificateSubmissionWindowEnd(n) ==
    /\ EpochAfter(n) > 0
    /\ index < certificateSubmissionWindowLength \/ index = L
    /\ IndexAfter(n) >= certificateSubmissionWindowLength

----------------------------------------------------------------------------
(* SidechainState.validate *)

\* getAllowedWithdrawalRequestBoxes
Allowed(n) ==
    LET open == (MaxWBs * (index + n)) \div (L - 1) IN IF open < MaxWBs THEN open ELSE MaxWBs

\* Mutant: the requests of earlier blocks are not counted.
WithinLimitOfBlock(n, w) == w <= Allowed(n)

\* checkWithdrawalBoxesAllowed, of a block with w withdrawal requests (the fork
\* that enables the limit is active)
WithinLimit(n, w) == requests[epoch] + w <= Allowed(n)

\* WithdrawalEpochValidator.validateBlock: references of one epoch only, and no
\* sidechain transactions in the last block of an epoch that began before it
ReferencesAllowed(n, hasTx) ==
    /\ EpochAfter(n) > epoch => index = L
    /\ EpochAfter(n) = epoch /\ IndexAfter(n) = L => ~hasTx

\* The epoch before the one of a block with n references
Previous(n) == EpochAfter(n) - 1

\* external: which epochs a certificate in the block's references can be of.  The
\* mainchain takes one for the previous epoch inside the submission window and,
\* for a non-ceasing sidechain, one epoch after the other.
Certifiable(n) ==
    {e \in Epoch : /\ n > 0
                   /\ IF nonCeasing THEN e > lastCertEpoch /\ e <= Previous(n)
                      ELSE e = Previous(n) /\ IndexAfter(n) - n < certificateSubmissionWindowLength}

\* The epochs whose records a non-ceasing sidechain removes with a new certificate
Superseded(c) == IF c # None THEN lastCertEpoch + 1 .. c - 1 ELSE {}

\* The epochs whose certificates come with the block, c the last of them
Certificates(c) == IF c = None THEN {} ELSE IF nonCeasing THEN Superseded(c) \cup {c} ELSE {c}

\* topQualityCertificateOpt of the block, or else the stored one
TopQuality(n, c, transfers) == IF c # None THEN transfers[c] ELSE certificate[Previous(n)]

\* validateTopQualityCertificate: a non-ceasing sidechain looks at every
\* certificate of the block when it comes, a ceasing one at the last certificate
\* when the window ends.
CertificateValid(n, c, transfers) ==
    IF nonCeasing THEN \A e \in Certificates(c) : transfers[e] = requests[e]
    ELSE hasReachedCertificateSubmissionWindowEnd(n) =>
             TopQuality(n, c, transfers) \in {None, requests[Previous(n)]}

\* validateWithWithdrawalEpoch: the old keys must be there.
RotationValid(n, k) == k # None => certifiersKeys[Previous(n)] # None

----------------------------------------------------------------------------
(* SidechainState.applyChanges and SidechainStateStorage.update *)

\* Mutant: the records of the epoch before are removed.
OutdatedEarly(n) == IF EpochAfter(n) # epoch THEN {Previous(n)} ELSE {}

\* The epoch whose withdrawal requests a ceasing sidechain removes at a switch
Outdated(n) == IF EpochAfter(n) # epoch THEN {EpochAfter(n) - 2} ELSE {}

\* The epoch whose certificate and keys a ceasing sidechain removes at a switch
OutdatedCertificates(n) == IF EpochAfter(n) # epoch THEN {EpochAfter(n) - 4} ELSE {}

RequestsRemoved(n, c) == IF nonCeasing THEN Superseded(c) ELSE Outdated(n)
CertificatesRemoved(n, c) == IF nonCeasing THEN Superseded(c) ELSE OutdatedCertificates(n)

\* applyChanges: scHasCeased
scHasCeased(n, c) ==
    /\ ~nonCeasing
    /\ hasReachedCertificateSubmissionWindowEnd(n)
    /\ c = None /\ certificate[Previous(n)] = None

\* Mutant: the rotations of the epoch before are taken.
KeysAtEndOfPrevious(e) ==
    IF e > 0 /\ rotationProof[e - 1] # None THEN rotationProof[e - 1] ELSE certifiersKeys[e - 1]

\* applyChanges: the keys at the end of an epoch, from the proofs stored before
\* the block
KeysAtEnd(e) == IF rotationProof[e] # None THEN rotationProof[e] ELSE certifiersKeys[e - 1]

\* getFeePayments: the stored fees and the one of the block itself
FeesAtEnd(e) == blockFees[e] + 1

\* applyModifier: a block with n references, forward transfers in them or not,
\* w withdrawal requests, other transactions or not, a key rotation or None, the
\* last certificate of its references or None, and the transfers of each.  The
\* limit is checked at every transaction, that of a reference included.
applyModifier(n, forward, w, plain, k, c, transfers) ==
    LET e == EpochAfter(n)
        hasTx == w > 0 \/ plain \/ k # None
        ends == IndexAfter(n) = L
    IN  /\ ~hasCeased
        /\ e <= MaxEpoch /\ feeBlocks[e] < MaxFees
        /\ ReferencesAllowed(n, hasTx)
        /\ forward => n > 0
        /\ hasTx \/ forward => WithinLimit(n, w)
        /\ CertificateValid(n, c, transfers)
        /\ RotationValid(n, k)
        /\ ends => certifiersKeys[e - 1] # None
        /\ epoch' = e
        /\ index' = IndexAfter(n)
        /\ requests' = [f \in Epoch |-> IF f = e THEN requests[f] + w
                                        ELSE IF f \in RequestsRemoved(n, c) THEN 0 ELSE requests[f]]
        /\ certificate' = [f \in Epoch |-> IF f = c THEN transfers[c]
                                           ELSE IF f \in CertificatesRemoved(n, c) THEN None
                                           ELSE certificate[f]]
        /\ lastCertEpoch' = IF c # None THEN c ELSE lastCertEpoch
        /\ blockFees' = [f \in Epoch |-> IF f = e THEN blockFees[f] + 1
                                         ELSE IF e # epoch /\ f = e - 1 THEN 0 ELSE blockFees[f]]
        /\ certifiersKeys' = [f \in Epoch \cup {None} |->
                                IF f = e /\ ends THEN KeysAtEnd(e)
                                ELSE IF f \in CertificatesRemoved(n, c) \ {None} THEN None
                                ELSE certifiersKeys[f]]
        /\ rotationProof' = [f \in Epoch |-> IF f = e /\ k # None THEN k
                                             ELSE IF f \in CertificatesRemoved(n, c) THEN None
                                             ELSE rotationProof[f]]
        /\ hasCeased' = scHasCeased(n, c)
        /\ refs' = refs + n
        /\ mined' = [mined EXCEPT ![e] = @ + w]
        /\ certified' = certified \cup Certificates(c)
        /\ feeBlocks' = [feeBlocks EXCEPT ![e] = @ + 1]
        /\ paid' = IF ends THEN [paid EXCEPT ![e] = @ + FeesAtEnd(e)] ELSE paid
        /\ rotated' = IF k # None THEN [rotated EXCEPT ![e] = k] ELSE rotated
        /\ UNCHANGED nonCeasing

\* The genesis block holds the first reference.
Init ==
    /\ nonCeasing \in BOOLEAN
    /\ epoch = 0 /\ index = 1
    /\ requests = [e \in Epoch |-> 0]
    /\ certificate = [e \in Epoch |-> None]
    /\ lastCertEpoch = None
    /\ blockFees = [e \in Epoch |-> IF e = 0 THEN 1 ELSE 0]
    /\ certifiersKeys = [e \in Epoch \cup {None} |-> IF e = None THEN GenesisKey ELSE None]
    /\ rotationProof = [e \in Epoch |-> None]
    /\ hasCeased = FALSE
    /\ refs = 1
    /\ mined = [e \in Epoch |-> 0]
    /\ certified = {}
    /\ feeBlocks = blockFees
    /\ paid = [e \in Epoch |-> 0]
    /\ rotated = [e \in Epoch |-> None]

\* The transfers of a certificate are those of the sidechain or others.
Transfers(c) ==
    {t \in [Certificates(c) -> 0 .. MaxWBs + 1] :
        \A e \in Certificates(c) : t[e] \in {requests[e], requests[e] + 1}}

Next ==
    \E n \in 0 .. MaxRefs, forward, plain \in BOOLEAN, w \in 0 .. MaxWBs, k \in Key \cup {None} :
    \E c \in Certifiable(n) \cup {None} :
    \E transfers \in Transfers(c) :
        applyModifier(n, forward, w, plain, k, c, transfers)

Spec == Init /\ [][Next]_vars

----------------------------------------------------------------------------
(* Properties *)

TypeOK ==
    /\ nonCeasing \in BOOLEAN
    /\ epoch \in Epoch /\ index \in 0 .. L
    /\ requests \in [Epoch -> 0 .. MaxWBs]
    /\ certificate \in [Epoch -> None .. MaxWBs + 1]
    /\ lastCertEpoch \in None .. MaxEpoch
    /\ blockFees \in [Epoch -> 0 .. MaxFees]
    /\ certifiersKeys \in [Epoch \cup {None} -> Key \cup {None}]
    /\ rotationProof \in [Epoch -> Key \cup {None}]
    /\ hasCeased \in BOOLEAN

\* The epoch and the index of a block (getWithdrawalEpochInfo) are those of its
\* last mainchain reference, however the references are spread over blocks.
EpochCountsReferences == epoch * L + index = refs

\* A ceasing sidechain has ceased (applyChanges, scHasCeased) exactly when the
\* submission window of an epoch has ended and no certificate of the epoch before
\* is on the mainchain, however many references a block jumps over.
CeasedIffUncertified ==
    ~nonCeasing =>
        /\ 0 .. epoch - 2 \subseteq certified
        /\ hasCeased <=> /\ epoch > 0 /\ index >= certificateSubmissionWindowLength
                         /\ epoch - 1 \notin certified

\* An epoch has no more withdrawal requests than a certificate can hold
\* (checkWithdrawalBoxesAllowed).
EpochWithinLimit == \A e \in Epoch : mined[e] <= MaxWBs

\* The epochs a certificate can still come for
AwaitingCertificate ==
    {e \in Epoch : e <= epoch /\ IF nonCeasing THEN e > lastCertEpoch ELSE e >= epoch - 1}

\* What a certificate is made of and compared with is there until the certificate
\* of that epoch has come, whatever SidechainStateStorage.update removes: the
\* withdrawal requests, and the keys at the end of the epoch and of the one before.
RecordsForCertificates ==
    \A e \in AwaitingCertificate :
        /\ requests[e] = mined[e]
        /\ certifiersKeys[e - 1] # None
        /\ e < epoch \/ index = L => certifiersKeys[e] # None

\* When an epoch ends the fee of each of its blocks has been paid once, the block
\* that ends it included (getFeePayments).
FeesArePaidOnce ==
    \A e \in Epoch : paid[e] = IF e < epoch \/ (e = epoch /\ index = L) THEN feeBlocks[e] ELSE 0

\* The keys stored at the end of epoch e are those of the epoch before with the
\* rotations of the epoch ("certifiers keys data actual at the end of the given
\* withdrawal epoch").
KeysFollowRotations(e) ==
    certifiersKeys[e] # None /\ certifiersKeys[e - 1] # None =>
        certifiersKeys[e] = IF rotated[e] # None THEN rotated[e] ELSE certifiersKeys[e - 1]

\* The rotations of every epoch with two blocks or more are in the keys stored at
\* its end (applyChanges). A block that holds a whole epoch of references may have
\* a rotation too, and that one is lost.
RotationsTakeEffect == \A e \in Epoch : feeBlocks[e] > 1 => KeysFollowRotations(e)

\* The same of every epoch, which the code does not give.
AllRotationsTakeEffect == \A e \in Epoch : KeysFollowRotations(e)

\* Every mainchain reference of an epoch opens the same number of slots for
\* withdrawal requests ("WithdrawalRequestBox slots open per MC block reference").
SlotsOpenPerReference == requests[epoch] <= (MaxWBs * index) \div (L - 1)

\* A new certificate removes the records up to its own epoch ("remove outdated
\* withdrawal related records and counters from upt to the current cert data").
OutdatedRecordsAreRemoved ==
    nonCeasing => \A e \in Epoch : e < lastCertEpoch => requests[e] = 0 /\ certificate[e] = None
=============================================================================
