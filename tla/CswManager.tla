----------------------------- MODULE CswManager -----------------------------
(***************************************************************************)
(* The actor that generates proofs of ceased sidechain withdrawals         *)
(* (CswManager).  Witness data is loaded by requests whose answers other   *)
(* threads store in the actor; a proof is made by a thread that reports    *)
(* its result to the mailbox.                                              *)
(***************************************************************************)
EXTENDS Integers, Sequences, FiniteSets

CONSTANTS
    Box,            \* box ids
    Receiver,       \* valid mainchain addresses
    Owned,          \* Owned[n]: boxes with data at the n-th ceasing, Owned[0] when alive
    MaxCeasings,    \* bound: how often the sidechain ceases
    MaxRequests,    \* bound: requests for a proof
    MaxMail         \* bound: mailbox length up to which others send

ASSUME CswAssumption == Owned \in [0 .. MaxCeasings -> SUBSET Box]

VARIABLES
    phase,          \* "initialization", "asked", "answered", "workingCycle", "stopped"
    mailbox,        \* messages of the actor
    ceased,         \* state.hasCeased, as the node view holder has it
    ceasings,       \* how often the sidechain has ceased
    requests,       \* requests for a proof so far
    known,          \* the answer to the question of the start, before it is stored
    hasSidechainCeased,
    witness,        \* cswWitnessHolderOpt: the ceasing it is about, or None
    loads,          \* requests for witness data: "asked", or the ceasing answered
    queue,          \* proofsInQueue
    inProcess,      \* proofInProcessOpt
    generated,      \* generatedProofsMap
    threads,        \* the threads that make a proof
    leftWaiting     \* history: the last attempt to schedule has left the queue to the next request

nodeVars == <<ceased, ceasings>>
vars == <<phase, mailbox, nodeVars, requests, known, hasSidechainCeased, witness, loads,
          queue, inProcess, generated, threads, leftWaiting>>

None == -1
NoProof == [box |-> None]

----------------------------------------------------------------------------
(* Messages and what the actor knows about a box *)

Plain(type) == [type |-> type]
Request(b, r) == [type |-> "GenerateCswProof", box |-> b, receiver |-> r]
Result(p) == [type |-> "CswProofSuccessfullyGenerated", proof |-> p]

Receives(type) == phase = "workingCycle" /\ mailbox # <<>> /\ Head(mailbox).type = type

Pending(type) == {i \in DOMAIN mailbox : mailbox[i].type = type}

\* findCswData
Found(b) == witness # None /\ b \in Owned[witness]

Positions(b) == {i \in DOMAIN queue : queue[i].box = b}
FirstOf(b) == CHOOSE i \in Positions(b) : \A j \in Positions(b) : i <= j

\* getProofInfo
ProofInfo(b) ==
    CASE generated[b] # NoProof -> [status |-> "Generated", receiver |-> generated[b].receiver]
      [] generated[b] = NoProof /\ Positions(b) # {} ->
            [status |-> "InQueue", receiver |-> queue[FirstOf(b)].receiver]
      [] generated[b] = NoProof /\ Positions(b) = {} /\ inProcess # NoProof /\ inProcess.box = b ->
            [status |-> "InProcess", receiver |-> inProcess.receiver]
      [] OTHER -> [status |-> "Absent"]

\* The answer to GenerateCswProof.
Response(b, r) ==
    LET info == ProofInfo(b)
        same == info.status # "Absent" /\ info.receiver = r
    IN  CASE ~hasSidechainCeased -> "SidechainIsAlive"
          [] hasSidechainCeased /\ r \notin Receiver -> "InvalidAddress"
          [] hasSidechainCeased /\ r \in Receiver /\ info.status = "Absent" /\ ~Found(b) -> "NoProofData"
          [] hasSidechainCeased /\ same /\ info.status = "Generated" -> "ProofCreationFinished"
          [] hasSidechainCeased /\ same /\ info.status # "Generated" -> "ProofGenerationInProcess"
          [] OTHER -> "ProofGenerationStarted"

Without(i) == SubSeq(queue, 1, i - 1) \o SubSeq(queue, i + 1, Len(queue))

----------------------------------------------------------------------------
Init ==
    /\ phase = "initialization"
    /\ mailbox = <<Plain("SidechainApplicationStart")>>
    /\ ceased \in BOOLEAN
    /\ ceasings = IF ceased THEN 1 ELSE 0
    /\ requests = 0
    /\ known = FALSE
    /\ hasSidechainCeased = FALSE
    /\ witness = None
    /\ loads = <<>>
    /\ queue = <<>>
    /\ inProcess = NoProof
    /\ generated = [b \in Box |-> NoProof]
    /\ threads = <<>>
    /\ leftWaiting = FALSE

proofVars == <<queue, inProcess, generated, threads, leftWaiting>>

\* onApplicationStart: the node view holder is asked.
onApplicationStart ==
    /\ phase = "initialization"
    /\ mailbox # <<>> /\ Head(mailbox).type = "SidechainApplicationStart"
    /\ phase' = "asked"
    /\ mailbox' = Tail(mailbox)
    /\ UNCHANGED <<nodeVars, requests, known, hasSidechainCeased, witness, loads, proofVars>>

\* Until the working cycle begins every other message is strange input.
reportStrangeInput ==
    /\ phase \in {"initialization", "asked", "answered"}
    /\ mailbox # <<>> /\ Head(mailbox).type # "SidechainApplicationStart"
    /\ mailbox' = Tail(mailbox)
    /\ UNCHANGED <<phase, nodeVars, requests, known, hasSidechainCeased, witness, loads, proofVars>>

\* The node view holder answers with the status it has at that time.
StatusAnswered ==
    /\ phase = "asked"
    /\ phase' = "answered"
    /\ known' = ceased
    /\ UNCHANGED <<mailbox, nodeVars, requests, hasSidechainCeased, witness, loads, proofVars>>

\* onApplicationStart: the question fails or is not answered in time, which stops
\* the actor.
StatusFails ==
    /\ phase = "asked"
    /\ phase' = "stopped"
    /\ UNCHANGED <<mailbox, nodeVars, requests, known, hasSidechainCeased, witness, loads, proofVars>>

\* onApplicationStart: checkAsFuture.onComplete, on another thread
WorkBegins ==
    /\ phase = "answered"
    /\ hasSidechainCeased' = known
    /\ loads' = IF known THEN Append(loads, None) ELSE loads
    /\ phase' = "workingCycle"
    /\ UNCHANGED <<mailbox, nodeVars, requests, known, witness, proofVars>>

----------------------------------------------------------------------------
(* The handlers of the working cycle. *)

\* onChangedState: the status is read from the storage of the state, not from
\* the event.
onChangedState ==
    /\ Receives("ChangedState")
    /\ mailbox' = Tail(mailbox)
    /\ hasSidechainCeased' = ceased
    /\ \/ hasSidechainCeased = ceased /\ UNCHANGED <<witness, loads, queue, generated, inProcess>>
       \/ /\ ~hasSidechainCeased /\ ceased
          /\ loads' = Append(loads, None)
          /\ UNCHANGED <<witness, queue, generated, inProcess>>
       \/ /\ hasSidechainCeased /\ ~ceased
          /\ witness' = None
          /\ queue' = <<>>
          /\ generated' = [b \in Box |-> NoProof]
          /\ inProcess' = IF inProcess = NoProof THEN NoProof ELSE [inProcess EXCEPT !.isCancelled = TRUE]
          /\ UNCHANGED loads
    /\ UNCHANGED <<phase, nodeVars, requests, known, threads, leftWaiting>>

\* Mutant: the proof that is made for another receiver is forgotten, not cancelled.
onGenerateCswProofForgetting ==
    /\ Receives("GenerateCswProof")
    /\ LET b == Head(mailbox).box
           r == Head(mailbox).receiver
       IN  IF Response(b, r) = "ProofGenerationStarted"
           THEN /\ generated' = [generated EXCEPT ![b] = NoProof]
                /\ queue' = Append(IF Positions(b) = {} THEN queue ELSE Without(FirstOf(b)),
                                   [box |-> b, receiver |-> r])
                /\ inProcess' = IF inProcess # NoProof /\ inProcess.box = b
                                THEN NoProof
                                ELSE inProcess
                /\ mailbox' = Append(Tail(mailbox), Plain("TryToScheduleProofGeneration"))
                /\ leftWaiting' = FALSE
           ELSE /\ mailbox' = Tail(mailbox)
                /\ UNCHANGED <<generated, queue, inProcess, leftWaiting>>
    /\ UNCHANGED <<phase, nodeVars, requests, known, hasSidechainCeased, witness, loads, threads>>

\* onGenerateCswProof, removeProofInfo, addProofToQueue
onGenerateCswProof ==
    /\ Receives("GenerateCswProof")
    /\ LET b == Head(mailbox).box
           r == Head(mailbox).receiver
       IN  IF Response(b, r) = "ProofGenerationStarted"
           THEN /\ generated' = [generated EXCEPT ![b] = NoProof]
                /\ queue' = Append(IF Positions(b) = {} THEN queue ELSE Without(FirstOf(b)),
                                   [box |-> b, receiver |-> r])
                /\ inProcess' = IF inProcess # NoProof /\ inProcess.box = b
                                THEN [inProcess EXCEPT !.isCancelled = TRUE]
                                ELSE inProcess
                /\ mailbox' = Append(Tail(mailbox), Plain("TryToScheduleProofGeneration"))
                /\ leftWaiting' = FALSE
           ELSE /\ mailbox' = Tail(mailbox)
                /\ UNCHANGED <<generated, queue, inProcess, leftWaiting>>
    /\ UNCHANGED <<phase, nodeVars, requests, known, hasSidechainCeased, witness, loads, threads>>

\* The supervisor restarts the actor: its fields are new, answers that are still
\* to come go to the old ones, and no other SidechainApplicationStart is sent.
Restart ==
    /\ phase' = "initialization"
    /\ hasSidechainCeased' = FALSE
    /\ witness' = None
    /\ loads' = <<>>
    /\ queue' = <<>>
    /\ inProcess' = NoProof
    /\ generated' = [b \in Box |-> NoProof]
    /\ leftWaiting' = FALSE
    /\ UNCHANGED threads

LastAttempt == Cardinality(Pending("TryToScheduleProofGeneration")) = 1

StartProof(next) ==
    /\ inProcess' = [box |-> next.box, receiver |-> next.receiver, isCancelled |-> FALSE]
    /\ threads' = Append(threads, [box |-> next.box, receiver |-> next.receiver, witness |-> witness])

\* The first of the queue is taken.  Without data for it the next one is tried;
\* getCswOwner finds its key or finds none, in which case nothing else is tried,
\* or the wallet does not answer in time, which throws.
ScheduleNext ==
    \/ /\ Found(Head(queue).box)
       /\ mailbox' = Tail(mailbox)
       /\ Restart
    \/ /\ queue' = Tail(queue)
       /\ \/ /\ ~Found(Head(queue).box)
             /\ mailbox' = Append(Tail(mailbox), Plain("TryToScheduleProofGeneration"))
             /\ leftWaiting' = FALSE
             /\ UNCHANGED <<inProcess, threads>>
          \/ /\ Found(Head(queue).box)
             /\ mailbox' = Tail(mailbox)
             /\ StartProof(Head(queue))
             /\ leftWaiting' = FALSE
          \/ /\ Found(Head(queue).box)
             /\ mailbox' = Tail(mailbox)
             /\ leftWaiting' = (Tail(queue) # <<>> /\ LastAttempt)
             /\ UNCHANGED <<inProcess, threads>>
       /\ UNCHANGED <<phase, hasSidechainCeased, witness, loads, generated>>

tryScheduleProofGeneration ==
    /\ Receives("TryToScheduleProofGeneration")
    /\ \/ witness # None /\ inProcess = NoProof /\ queue # <<>> /\ ScheduleNext
       \/ /\ witness = None \/ inProcess # NoProof \/ queue = <<>>
          /\ mailbox' = Tail(mailbox)
          /\ leftWaiting' = (inProcess = NoProof /\ queue # <<>> /\ LastAttempt)
          /\ UNCHANGED <<phase, hasSidechainCeased, witness, loads, queue, inProcess, generated, threads>>
    /\ UNCHANGED <<nodeVars, requests, known>>

\* processProofGenerationResults: CswProofSuccessfullyGenerated
proofGenerated ==
    /\ Receives("CswProofSuccessfullyGenerated")
    /\ inProcess' = NoProof
    /\ generated' = IF inProcess # NoProof /\ ~inProcess.isCancelled
                    THEN [generated EXCEPT ![inProcess.box] =
                            [box |-> inProcess.box, receiver |-> inProcess.receiver,
                             proof |-> Head(mailbox).proof]]
                    ELSE generated
    /\ mailbox' = Append(Tail(mailbox), Plain("TryToScheduleProofGeneration"))
    /\ UNCHANGED <<phase, nodeVars, requests, known, hasSidechainCeased, witness, loads, queue, threads,
                   leftWaiting>>

\* Mutant: after a failure the next proof of the queue is not started.
proofFailedAtRest ==
    /\ Receives("CswProofFailed")
    /\ inProcess' = NoProof
    /\ mailbox' = Tail(mailbox)
    /\ UNCHANGED <<phase, nodeVars, requests, known, hasSidechainCeased, witness, loads, queue,
                   generated, threads, leftWaiting>>

\* processProofGenerationResults: CswProofFailed
proofFailed ==
    /\ Receives("CswProofFailed")
    /\ inProcess' = NoProof
    /\ mailbox' = Append(Tail(mailbox), Plain("TryToScheduleProofGeneration"))
    /\ UNCHANGED <<phase, nodeVars, requests, known, hasSidechainCeased, witness, loads, queue,
                   generated, threads, leftWaiting>>

----------------------------------------------------------------------------
(* Other threads and the surroundings. *)

\* The thread's proof is made, or cannot be made.
ThreadEnds ==
    /\ \E n \in DOMAIN threads :
          /\ threads' = SubSeq(threads, 1, n - 1) \o SubSeq(threads, n + 1, Len(threads))
          /\ \E m \in {Result(threads[n]), Plain("CswProofFailed")} : mailbox' = Append(mailbox, m)
    /\ UNCHANGED <<phase, nodeVars, requests, known, hasSidechainCeased, witness, loads, queue,
                   inProcess, generated, leftWaiting>>

\* loadCswWitnessMessage: the node view holder answers with the data it has then.
LoadAnswered ==
    /\ \E n \in DOMAIN loads :
          /\ loads[n] = None
          /\ \A k \in 1 .. n - 1 : loads[k] # None
          /\ loads' = [loads EXCEPT ![n] = IF ceased THEN ceasings ELSE 0]
    /\ UNCHANGED <<phase, mailbox, nodeVars, requests, known, hasSidechainCeased, witness, proofVars>>

\* loadCswWitness: checkAsFuture.onComplete, on another thread; a failure, or no
\* answer in time, stops the actor.
LoadCompletes ==
    /\ \E n \in DOMAIN loads :
          /\ loads' = SubSeq(loads, 1, n - 1) \o SubSeq(loads, n + 1, Len(loads))
          /\ \/ loads[n] # None /\ witness' = loads[n] /\ UNCHANGED phase
             \/ phase' = "stopped" /\ UNCHANGED witness
    /\ UNCHANGED <<mailbox, nodeVars, requests, known, hasSidechainCeased, proofVars>>

Send(m) == Len(mailbox) < MaxMail /\ mailbox' = Append(mailbox, m)

\* A block, or a chain switch, makes the sidechain cease or live again.
StateChanges ==
    /\ ceased \/ ceasings < MaxCeasings
    /\ ceased' = ~ceased
    /\ ceasings' = IF ceased THEN ceasings ELSE ceasings + 1
    /\ Send(Plain("ChangedState"))
    /\ UNCHANGED <<phase, requests, known, hasSidechainCeased, witness, loads, proofVars>>

\* A user asks for a proof.
UserAsks ==
    /\ requests < MaxRequests
    /\ requests' = requests + 1
    /\ \E b \in Box, r \in Receiver \cup {"invalid"} : Send(Request(b, r))
    /\ UNCHANGED <<phase, nodeVars, known, hasSidechainCeased, witness, loads, proofVars>>

Handle ==
    \/ onApplicationStart \/ reportStrangeInput \/ onChangedState \/ onGenerateCswProof
    \/ tryScheduleProofGeneration \/ proofGenerated \/ proofFailed

Background == StatusAnswered \/ StatusFails \/ WorkBegins \/ LoadAnswered \/ LoadCompletes

Next == Handle \/ Background \/ ThreadEnds \/ StateChanges \/ UserAsks

Spec == Init /\ [][Next]_vars

\* The dispatcher runs the actor while it has mail, and every proof ends.
FairSpec == Spec /\ WF_vars(Handle) /\ WF_vars(ThreadEnds)

----------------------------------------------------------------------------
(* Properties *)

\* A proof waits, is made or is there for a box and a receiver; the witness is
\* the one of a ceasing.
TypeOK ==
    /\ phase \in {"initialization", "asked", "answered", "workingCycle", "stopped"}
    /\ hasSidechainCeased \in BOOLEAN /\ witness \in None .. MaxCeasings
    /\ \A i \in DOMAIN queue : queue[i].box \in Box /\ queue[i].receiver \in Receiver
    /\ inProcess # NoProof => inProcess.box \in Box /\ inProcess.receiver \in Receiver
    /\ \A b \in Box : generated[b] # NoProof => generated[b].box = b

\* One proof is made at a time, a second request for another receiver, a chain
\* switch and a late result included, and a box waits in the queue once.
OneProofAtATime ==
    /\ Len(threads) + Cardinality(Pending("CswProofSuccessfullyGenerated"))
           + Cardinality(Pending("CswProofFailed")) = IF inProcess = NoProof THEN 0 ELSE 1
    /\ \A b \in Box : Cardinality(Positions(b)) <= 1

\* A proof is shown for the box and the receiver that it was made for, although
\* the result that a thread reports names neither.
GeneratedProofsMatch ==
    \A b \in Box : generated[b] # NoProof =>
        generated[b].proof.box = b /\ generated[b].proof.receiver = generated[b].receiver

Waiting(b) == ProofInfo(b).status \in {"InQueue", "InProcess"}

\* Every proof that was promised is made or has failed, or is given up because the
\* sidechain lives again or the actor stops or restarts, a second ceasing, late
\* results and missing data included; only an attempt to schedule that finds no
\* witness loaded yet, or no key for the first of the queue, may leave the others
\* to the next request (see QueueIsServed).
PromisedProofsEnd ==
    \A b \in Box : Waiting(b) ~> (~Waiting(b) \/ leftWaiting \/ phase # "workingCycle")

\* A proof of the queue is never left to the next request ("Emit next proof
\* generation only in case no other one in process").
QueueIsServed == ~leftWaiting

\* ProofGenerationInProcess is the answer when the proof for that receiver waits
\* or is being made ("Proof generation was started before, still in process").
InProcessIsPromised ==
    \A b \in Box, r \in Receiver :
        Response(b, r) = "ProofGenerationInProcess" =>
            \/ \E i \in DOMAIN queue : queue[i] = [box |-> b, receiver |-> r]
            \/ inProcess = [box |-> b, receiver |-> r, isCancelled |-> FALSE]

\* GetCswBoxIds answers with the boxes of the witness: there are none while the
\* sidechain is alive ("No box ids expected to be found while sc is alive.").
NoBoxIdsWhileAlive == ~hasSidechainCeased => witness = None

\* Once all events are handled the actor has the status of the state ("Sidechain
\* expected to be ceased.").
CeasedStatusFollowsState ==
    (phase = "workingCycle" /\ Pending("ChangedState") = {}) => hasSidechainCeased = ceased

=============================================================================
