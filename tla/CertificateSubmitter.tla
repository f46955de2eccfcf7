------------------------ MODULE CertificateSubmitter ------------------------
(***************************************************************************)
(* The actor that signs and submits withdrawal certificates                *)
(* (AbstractCertificateSubmitter).  It takes the messages of its mailbox   *)
(* one by one; the timer, the threads that compute proofs and the          *)
(* publishers of block events only add messages to it.  Windows and        *)
(* quality are those of a sidechain that ceases when an epoch has no       *)
(* certificate (CeasingSidechain); an epoch is the one in whose window the *)
(* certificate of the epoch before is submitted.                           *)
(***************************************************************************)
EXTENDS Integers, Sequences, FiniteSets

CONSTANTS
    Signer,         \* indexes of the signers' public keys
    WalletKeys,     \* indexes whose secret is in the wallet
    EnclaveKeys,    \* indexes whose secret is in the secure enclave
    Threshold,      \* params.signersThreshold
    MaxEpoch,       \* bound: withdrawal epochs
    MaxReorgs,      \* bound: chain switches across the end of an epoch
    MaxCalls,       \* bound: messages of peers and API calls
    MaxMail         \* bound: mailbox length up to which others send

ASSUME SubmitterAssumption ==
    /\ WalletKeys \subseteq Signer /\ EnclaveKeys \subseteq Signer \ WalletKeys
    /\ IsFiniteSet(Signer) /\ Threshold \in 1 .. Cardinality(Signer)
    /\ MaxEpoch \in Nat

VARIABLES
    failures,           \* whether requests may time out or fail; never changes
    mailbox,            \* messages of the actor
    tip,                \* last block of the chain: its epoch, whether in the window
    version,            \* of each epoch: how often its predecessor's end was replaced
    reorgs,             \* chain switches so far
    calls,              \* messages of peers and API calls so far
    status,             \* signaturesStatus
    generating,         \* certGenerationState
    timer,              \* CertificateGenerationTimer: "off", "on", "fired"
    submitterEnabled,
    signingEnabled,     \* certificateSigningEnabled
    threads,            \* the threads that generate and send a certificate
    mc                  \* newest certificate of the mainchain: epoch, quality

vars == <<failures, mailbox, tip, version, reorgs, calls, status, generating, timer,
          submitterEnabled, signingEnabled, threads, mc>>

----------------------------------------------------------------------------
(* Messages *)

Block(b) == [type |-> "SemanticallySuccessfulModifier", epoch |-> b.epoch, in |-> b.in]
LocalSignature(i, m) == [type |-> "LocallyGeneratedSignature", index |-> i, signs |-> m]
RemoteSignature(i, m, s) == [type |-> "SignatureFromRemote", index |-> i, message |-> m, signs |-> s]
Plain(type) == [type |-> type]

\* SubmitterPrioritizedMailbox: "case SemanticallySuccessfulModifier => 2" names
\* the companion object of the case class, which no message equals, so that all
\* messages have the same priority.
Priority(m) == 1

\* UnboundedStablePriorityMailbox: the first of the messages that come first.
NextInLine == CHOOSE i \in DOMAIN mailbox :
    \A j \in DOMAIN mailbox :
        \/ Priority(mailbox[i]) < Priority(mailbox[j])
        \/ Priority(mailbox[i]) = Priority(mailbox[j]) /\ i <= j

Message == mailbox[NextInLine]

Rest == [i \in 1 .. Len(mailbox) - 1 |-> IF i < NextInLine THEN mailbox[i] ELSE mailbox[i + 1]]

Receives(type) == mailbox # <<>> /\ Message.type = type

----------------------------------------------------------------------------
(* Signatures and quality *)

NoStatus == [epoch |-> 0, message |-> <<>>, known |-> <<>>]

\* circuit.generateMessageToBeSigned: depends on the chain up to the end of the
\* epoch before.
MessageToSign(e) == <<e, version[e]>>

NewStatus(e) == [epoch |-> e, message |-> MessageToSign(e), known |-> <<>>]

KnownIndexes(s) == {s.known[i].index : i \in DOMAIN s.known}

\* The signatures of the keys in the order of their indexes.
SignaturesOf(keys, m) ==
    [n \in 1 .. Cardinality(keys) |->
        LocalSignature(CHOOSE i \in keys : Cardinality({j \in keys : j < i}) = n - 1, m)]

\* calculateSignatures: the enclave may sign with any part of its keys, the
\* wallet signs with all of them.
Signatures(part, m) == SignaturesOf(part, m) \o SignaturesOf(WalletKeys, m)

\* The answers of getTopQualityCertificates: the truth, an error the mainchain
\* reports, no connection.
Answer == IF failures THEN {"top", "error", "down"} ELSE {"top"}

\* CeasingSidechain.checkQuality
CheckQuality(s, answer) ==
    /\ Len(s.known) >= Threshold
    /\ \/ answer = "error"
       \/ answer = "top" /\ mc.epoch < s.epoch
       \/ answer = "top" /\ mc.epoch = s.epoch /\ Len(s.known) > mc.quality

\* A thread shares the signatures with the actor until the actor replaces them.
Seen(t) == IF t.shared THEN status ELSE t.status

Detached(ts) == [n \in DOMAIN ts |-> [ts[n] EXCEPT !.shared = FALSE, !.status = Seen(ts[n])]]

----------------------------------------------------------------------------
Init ==
    /\ failures \in BOOLEAN
    /\ mailbox = <<>>
    /\ tip = [epoch |-> 0, in |-> FALSE]
    /\ version = [e \in 1 .. MaxEpoch |-> 0]
    /\ reorgs = 0
    /\ calls = 0
    /\ status = NoStatus
    /\ generating = FALSE
    /\ timer = "off"
    /\ submitterEnabled \in BOOLEAN
    /\ signingEnabled \in BOOLEAN
    /\ threads = <<>>
    /\ mc = [epoch |-> 0, quality |-> 0]

chainVars == <<failures, tip, version, reorgs>>
surroundings == <<chainVars, calls>>
settings == <<submitterEnabled, signingEnabled>>

----------------------------------------------------------------------------
(* The handlers of the working cycle. *)

\* newBlockArrived, when the window of the block cannot be found out in time.
newBlockUnknown ==
    /\ Receives("SemanticallySuccessfulModifier")
    /\ failures
    /\ mailbox' = Rest
    /\ UNCHANGED <<surroundings, status, generating, timer, settings, threads, mc>>

\* newBlockArrived, in the submission window
newBlockInWindow ==
    /\ Receives("SemanticallySuccessfulModifier")
    /\ Message.in
    /\ \/ /\ status.epoch = Message.epoch
          /\ mailbox' = Rest
          /\ UNCHANGED <<status, threads>>
       \/ /\ status.epoch # Message.epoch
          /\ status' = NewStatus(Message.epoch)
          /\ threads' = Detached(threads)
          /\ IF signingEnabled
             THEN \E part \in SUBSET EnclaveKeys :
                     mailbox' = Rest \o Signatures(part, MessageToSign(Message.epoch))
             ELSE mailbox' = Rest
       \/ /\ status.epoch # Message.epoch
          /\ failures
          /\ status' = NoStatus
          /\ threads' = Detached(threads)
          /\ mailbox' = Rest
    /\ UNCHANGED <<surroundings, generating, timer, settings, mc>>

Without(q, i) == SubSeq(q, 1, i - 1) \o SubSeq(q, i + 1, Len(q))

TimerMessages(q) == {i \in DOMAIN q : q[i].type = "TryToGenerateCertificate"}

\* There is one such message at most.
WithoutTimerMessage(q) ==
    IF TimerMessages(q) = {} THEN q ELSE Without(q, CHOOSE i \in TimerMessages(q) : TRUE)

\* Mutant: the signatures are kept when the window ends.
newBlockOutsideWindowKeeping ==
    /\ Receives("SemanticallySuccessfulModifier")
    /\ ~Message.in
    /\ IF timer # "off"
       THEN mailbox' = Append(WithoutTimerMessage(Rest), Plain("CertificateSubmissionStopped"))
       ELSE mailbox' = Rest
    /\ timer' = "off"
    /\ UNCHANGED <<surroundings, status, generating, settings, threads, mc>>

\* newBlockArrived, outside the submission window: a message of the cancelled
\* timer that is still in the mailbox will be ignored.
newBlockOutsideWindow ==
    /\ Receives("SemanticallySuccessfulModifier")
    /\ ~Message.in
    /\ IF timer # "off"
       THEN mailbox' = Append(WithoutTimerMessage(Rest), Plain("CertificateSubmissionStopped"))
       ELSE mailbox' = Rest
    /\ timer' = "off"
    /\ status' = NoStatus
    /\ threads' = Detached(threads)
    /\ UNCHANGED <<surroundings, generating, settings, mc>>

Learn(k) == [status EXCEPT !.known = Append(@, k)]

\* locallyGeneratedSignature: the message does not say what was signed.
locallyGeneratedSignature ==
    /\ Receives("LocallyGeneratedSignature")
    /\ IF status = NoStatus \/ Message.index \in KnownIndexes(status)
       THEN /\ mailbox' = Rest
            /\ UNCHANGED status
       ELSE /\ status' = Learn([index |-> Message.index, signs |-> Message.signs])
            /\ mailbox' = Append(Rest, Plain("TryToScheduleCertificateGeneration"))
    /\ UNCHANGED <<surroundings, generating, timer, settings, threads, mc>>

\* signatureFromRemote
Acceptable(r) ==
    /\ status # NoStatus
    /\ r.message = status.message
    /\ r.index \in Signer
    /\ r.signs = r.message
    /\ r.index \notin KnownIndexes(status)

signatureFromRemote ==
    /\ Receives("SignatureFromRemote")
    /\ IF Acceptable(Message)
       THEN /\ status' = Learn([index |-> Message.index, signs |-> Message.signs])
            /\ mailbox' = Append(Rest, Plain("TryToScheduleCertificateGeneration"))
       ELSE /\ mailbox' = Rest
            /\ UNCHANGED status
    /\ UNCHANGED <<surroundings, generating, timer, settings, threads, mc>>

\* Mutant: only the timer is looked at, not the state of the generation.
tryToScheduleUnlessTimer ==
    /\ Receives("TryToScheduleCertificateGeneration")
    /\ \/ /\ submitterEnabled /\ timer = "off"
          /\ status # NoStatus
          /\ \E answer \in Answer : CheckQuality(status, answer)
          /\ timer' = "on"
          /\ mailbox' = Append(Rest, Plain("CertificateSubmissionStarted"))
       \/ /\ \/ ~submitterEnabled \/ timer # "off"
             \/ status = NoStatus
             \/ \E answer \in Answer : ~CheckQuality(status, answer)
          /\ mailbox' = Rest
          /\ UNCHANGED timer
    /\ UNCHANGED <<surroundings, status, generating, settings, threads, mc>>

\* tryToScheduleCertificateGeneration
tryToScheduleCertificateGeneration ==
    /\ Receives("TryToScheduleCertificateGeneration")
    /\ \/ /\ submitterEnabled /\ ~generating /\ timer = "off"
          /\ status # NoStatus
          /\ \E answer \in Answer : CheckQuality(status, answer)
          /\ timer' = "on"
          /\ mailbox' = Append(Rest, Plain("CertificateSubmissionStarted"))
       \/ /\ \/ ~submitterEnabled \/ generating \/ timer # "off"
             \/ status = NoStatus
             \/ \E answer \in Answer : ~CheckQuality(status, answer)
          /\ mailbox' = Rest
          /\ UNCHANGED timer
    /\ UNCHANGED <<surroundings, status, generating, settings, threads, mc>>

\* The delay of 5 to 20 seconds is over.
TimerFires ==
    /\ timer = "on"
    /\ timer' = "fired"
    /\ mailbox' = Append(mailbox, Plain("TryToGenerateCertificate"))
    /\ UNCHANGED <<surroundings, status, generating, settings, threads, mc>>

\* The proof counts the signatures that are valid for the message.
Quality(s) == Cardinality({i \in DOMAIN s.known : s.known[i].signs = s.message})

\* tryToGenerateCertificate: a thread starts, or nothing is to be done.
tryToGenerateCertificate ==
    /\ Receives("TryToGenerateCertificate")
    /\ timer' = "off"
    /\ \/ /\ status # NoStatus
          /\ \E answer \in Answer : CheckQuality(status, answer)
          /\ threads' = Append(threads, [pc |-> "proving", shared |-> TRUE, status |-> NoStatus,
                                         epoch |-> status.epoch, quality |-> Quality(status),
                                         answer |-> "none"])
          /\ mailbox' = Rest
       \/ /\ \/ status = NoStatus
             \/ \E answer \in Answer : ~CheckQuality(status, answer)
             \/ failures
          /\ mailbox' = Append(Rest, Plain("CertificateSubmissionStopped"))
          /\ UNCHANGED threads
    /\ UNCHANGED <<surroundings, status, generating, settings, mc>>

\* onCertificateSubmissionEvent
onCertificateSubmissionEvent ==
    /\ Receives("CertificateSubmissionStarted") \/ Receives("CertificateSubmissionStopped")
    /\ generating' = (Message.type = "CertificateSubmissionStarted")
    /\ mailbox' = Rest
    /\ UNCHANGED <<surroundings, status, timer, settings, threads, mc>>

\* Mutant: nothing is scheduled when the submitter is enabled.
submitterStatusOnly ==
    /\ Receives("EnableSubmitter") \/ Receives("DisableSubmitter")
    /\ submitterEnabled' = (Message.type = "EnableSubmitter")
    /\ mailbox' = Rest
    /\ UNCHANGED <<surroundings, status, generating, timer, signingEnabled, threads, mc>>

\* submitterStatus
submitterStatus ==
    /\ Receives("EnableSubmitter") \/ Receives("DisableSubmitter")
    /\ submitterEnabled' = (Message.type = "EnableSubmitter")
    /\ mailbox' = IF Message.type = "EnableSubmitter" /\ ~submitterEnabled
                  THEN Append(Rest, Plain("TryToScheduleCertificateGeneration"))
                  ELSE Rest
    /\ UNCHANGED <<surroundings, status, generating, timer, signingEnabled, threads, mc>>

\* signerStatus
signerStatus ==
    /\ Receives("EnableCertificateSigner") \/ Receives("DisableCertificateSigner")
    /\ signingEnabled' = (Message.type = "EnableCertificateSigner")
    /\ mailbox' = Rest
    /\ UNCHANGED <<surroundings, status, generating, timer, submitterEnabled, threads, mc>>

----------------------------------------------------------------------------
(* The thread that generates the proof and sends the certificate. *)

threadStops(n) ==
    /\ threads' = Without(threads, n)
    /\ mailbox' = Append(mailbox, Plain("CertificateSubmissionStopped"))

\* generateProof
generateProof(n) ==
    /\ threads[n].pc = "proving"
    /\ \/ /\ threads' = [threads EXCEPT ![n].pc = "proved"]
          /\ UNCHANGED mailbox
       \/ failures /\ threadStops(n)
    /\ UNCHANGED <<surroundings, status, generating, timer, settings, mc>>

\* An exception while the request is made, as for a proof that is null, ends the
\* thread without CertificateSubmissionStopped.
createRequestFails(n) ==
    /\ threads[n].pc = "proved"
    /\ failures
    /\ threads' = Without(threads, n)
    /\ UNCHANGED <<mailbox, surroundings, status, generating, timer, settings, mc>>

\* The last look at the quality, before the certificate is sent.
checkBeforeSending(n) ==
    /\ threads[n].pc = "proved"
    /\ \E answer \in Answer :
          \/ /\ CheckQuality(Seen(threads[n]), answer)
             /\ threads' = [threads EXCEPT ![n].pc = "sending", ![n].answer = answer]
             /\ UNCHANGED mailbox
          \/ ~CheckQuality(Seen(threads[n]), answer) /\ threadStops(n)
    /\ UNCHANGED <<surroundings, status, generating, timer, settings, mc>>

\* The mainchain takes a certificate of enough quality, better than what it has.
AcceptedByMainchain(e, q) ==
    q >= Threshold /\ (mc.epoch < e \/ (mc.epoch = e /\ mc.quality < q))

\* mainchainChannel.sendCertificate
sendCertificate(n) ==
    /\ threads[n].pc = "sending"
    /\ \/ /\ AcceptedByMainchain(threads[n].epoch, threads[n].quality)
          /\ mc' = [epoch |-> threads[n].epoch, quality |-> threads[n].quality]
       \/ /\ failures \/ ~AcceptedByMainchain(threads[n].epoch, threads[n].quality)
          /\ UNCHANGED mc
    /\ threadStops(n)
    /\ UNCHANGED <<surroundings, status, generating, timer, settings>>

----------------------------------------------------------------------------
(* The surroundings. *)

Send(m) == Len(mailbox) < MaxMail /\ mailbox' = Append(mailbox, m)

Call(m) == calls < MaxCalls /\ calls' = calls + 1 /\ Send(m)

\* The chain grows by a block: WithdrawalEpochValidator makes sure that an epoch
\* ends with a block that is outside the window.
ChainGrows ==
    /\ \/ tip.in /\ tip' = tip
       \/ tip.in /\ tip' = [tip EXCEPT !.in = FALSE]
       \/ ~tip.in /\ tip.epoch < MaxEpoch /\ tip' = [epoch |-> tip.epoch + 1, in |-> TRUE]
    /\ Send(Block(tip'))
    /\ UNCHANGED <<failures, calls, version, reorgs, status, generating, timer, settings, threads, mc>>

\* A chain switch replaces the end of the epoch before.
ChainSwitches ==
    /\ tip.in /\ reorgs < MaxReorgs
    /\ reorgs' = reorgs + 1
    /\ version' = [version EXCEPT ![tip.epoch] = @ + 1]
    /\ tip' = [epoch |-> tip.epoch - 1, in |-> FALSE]
    /\ Send(Block(tip'))
    /\ UNCHANGED <<failures, calls, status, generating, timer, settings, threads, mc>>

\* A peer sends a signature, for this chain or another one, valid or not.
PeerSends ==
    /\ tip.epoch > 0
    /\ \E i \in Signer, v, s \in 0 .. version[tip.epoch] :
          Call(RemoteSignature(i, <<tip.epoch, v>>, <<tip.epoch, s>>))
    /\ UNCHANGED <<chainVars, status, generating, timer, settings, threads, mc>>

ApiCalls ==
    /\ \E c \in {"EnableSubmitter", "DisableSubmitter", "EnableCertificateSigner",
                 "DisableCertificateSigner"} : Call(Plain(c))
    /\ UNCHANGED <<chainVars, status, generating, timer, settings, threads, mc>>

\* Another node has its certificate accepted.
OtherCertificate ==
    /\ \E e \in 1 .. tip.epoch, q \in Threshold .. Cardinality(Signer) :
          AcceptedByMainchain(e, q) /\ mc' = [epoch |-> e, quality |-> q]
    /\ UNCHANGED <<mailbox, surroundings, status, generating, timer, settings, threads>>

Handle ==
    \/ newBlockUnknown \/ newBlockInWindow \/ newBlockOutsideWindow
    \/ locallyGeneratedSignature \/ signatureFromRemote
    \/ tryToScheduleCertificateGeneration \/ tryToGenerateCertificate
    \/ onCertificateSubmissionEvent \/ submitterStatus \/ signerStatus

ThreadStep ==
    \E n \in DOMAIN threads :
        generateProof(n) \/ createRequestFails(n) \/ checkBeforeSending(n) \/ sendCertificate(n)

Next ==
    \/ Handle \/ TimerFires \/ ThreadStep
    \/ ChainGrows \/ ChainSwitches \/ PeerSends \/ ApiCalls \/ OtherCertificate

Spec == Init /\ [][Next]_vars

\* The dispatcher runs the actor while it has mail, the scheduler fires the timer
\* and a proof is finished or fails.
FairSpec == Spec /\ WF_vars(Handle) /\ WF_vars(TimerFires) /\ WF_vars(ThreadStep)

----------------------------------------------------------------------------
(* Properties *)

Signed == [index : Signer, signs : {<<e, v>> : e \in 1 .. MaxEpoch, v \in 0 .. MaxReorgs}]

\* The status names an epoch and holds signatures of signers, one of each signer,
\* so that their number is the quality that checkQuality takes it for; a thread
\* works on an epoch and is at one of its three steps.
TypeOK ==
    /\ failures \in BOOLEAN
    /\ tip.epoch \in 0 .. MaxEpoch /\ tip.in \in BOOLEAN
    /\ status.epoch \in 0 .. MaxEpoch /\ status.known \in Seq(Signed)
    /\ Cardinality(KnownIndexes(status)) = Len(status.known)
    /\ timer \in {"off", "on", "fired"}
    /\ generating \in BOOLEAN /\ submitterEnabled \in BOOLEAN /\ signingEnabled \in BOOLEAN
    /\ \A n \in DOMAIN threads : /\ threads[n].pc \in {"proving", "proved", "sending"}
                                 /\ threads[n].epoch \in 1 .. MaxEpoch
    /\ mc.epoch \in 0 .. MaxEpoch /\ mc.quality \in 0 .. Cardinality(Signer)

\* A certificate is scheduled or generated once at a time, and while a proof is
\* generated GetCertificateGenerationState says so, although the flag is set and
\* cleared by messages that wait in the mailbox like all others.
OneSubmissionAtATime ==
    /\ Len(threads) + (IF timer = "off" THEN 0 ELSE 1) <= 1
    /\ threads # <<>> => generating

Pending(type) == \E i \in DOMAIN mailbox : mailbox[i].type = type

\* Once the events of all blocks are handled and no request failed, the signatures are collected for the
\* message of the active chain in the window, and for none outside of it, even
\* after a chain switch that replaced the end of the epoch.
StatusFollowsChain ==
    ~failures /\ ~Pending("SemanticallySuccessfulModifier") =>
        IF tip.in THEN status.epoch = tip.epoch /\ status.message = MessageToSign(tip.epoch)
        ELSE status = NoStatus /\ timer = "off"

\* A certificate generation that was announced comes to an end, wherever the window
\* ends (CertificateSubmissionStopped): so without failures; createRequestFails ends
\* it with no word, and the submitter then schedules no other certificate.
SubmissionEnds == generating ~> ~generating

\* With enough signatures and the submitter enabled, the mainchain gets a
\* certificate of the epoch, unless the window ends or the submitter is disabled.
EnoughSignaturesLeadToCertificate ==
    \A e \in 1 .. MaxEpoch :
        (~failures /\ status.epoch = e /\ Len(status.known) >= Threshold /\ submitterEnabled)
            ~> (mc.epoch >= e \/ status.epoch # e \/ ~submitterEnabled)

\* The same for the first message that is signed, when no generation of an
\* earlier epoch, or of a chain that was left, can still be under way: whatever
\* the order of signatures, of API calls and of the timer, the attempt to
\* schedule is not lost.
FirstMessageLeadsToCertificate ==
    (~failures /\ status.message = <<1, 0>> /\ Len(status.known) >= Threshold /\ submitterEnabled)
        ~> (mc.epoch >= 1 \/ status.message # <<1, 0>> \/ ~submitterEnabled)

\* The signatures of the status sign its message (test newBlockArrived: "Signature
\* expected to be valid").
KnownSignaturesAreValid == \A i \in DOMAIN status.known : status.known[i].signs = status.message

\* A certificate is only sent when its quality is above the one the mainchain
\* reports ("Submission not needed. Certificate of equal or higher quality already
\* present", CeasingSidechain.checkQuality).
OnlyBetterCertificatesAreSent ==
    [][\A n \in DOMAIN threads \cap DOMAIN threads' :
          (threads[n].pc = "proved" /\ threads'[n].pc = "sending" /\ threads'[n].answer = "top")
              => mc.epoch < threads[n].epoch \/ mc.quality < threads[n].quality]_vars

=============================================================================
