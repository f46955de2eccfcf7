-------------------------- MODULE CswManagerProofs --------------------------
(***************************************************************************)
(* Proofs about CswManager: one proof is made at a time, and the result    *)
(* that comes is the one of the proof in process.                          *)
(***************************************************************************)
EXTENDS CswManager, TLAPS

IsSeq(q) == \E S : q \in Seq(S)

\* A message that is added comes last.
LEMMA Added ==
    ASSUME NEW q, IsSeq(q), NEW m
    PROVE  /\ IsSeq(Append(q, m))
           /\ Len(q) \in Nat /\ Len(Append(q, m)) = Len(q) + 1
           /\ \A i \in 1 .. Len(q) : Append(q, m)[i] = q[i]
           /\ Append(q, m)[Len(q) + 1] = m
<1>1. PICK S : q \in Seq(S)
  BY DEF IsSeq
<1>2. q \in Seq(S \cup {m})
  BY <1>1
<1>3. Append(q, m) \in Seq(S \cup {m})
  BY <1>2
<1>4. IsSeq(Append(q, m))
  BY <1>3, Zenon DEF IsSeq
<1>5. Len(q) \in Nat /\ Len(Append(q, m)) = Len(q) + 1
  BY <1>2
<1>6. /\ \A i \in 1 .. Len(q) : Append(q, m)[i] = q[i]
      /\ Append(q, m)[Len(q) + 1] = m
  BY <1>2
<1> QED
  BY <1>4, <1>5, <1>6

\* What is left when the first message is taken.
LEMMA Taken ==
    ASSUME NEW q, IsSeq(q), q # << >>
    PROVE  /\ IsSeq(Tail(q))
           /\ Len(q) \in Nat \ {0} /\ Len(Tail(q)) = Len(q) - 1
           /\ Head(q) = q[1]
           /\ \A i \in 1 .. Len(q) - 1 : Tail(q)[i] = q[i + 1]
<1>1. PICK S : q \in Seq(S)
  BY DEF IsSeq
<1>2. Tail(q) \in Seq(S)
  BY <1>1
<1>3. IsSeq(Tail(q))
  BY <1>2, Zenon DEF IsSeq
<1>4. Len(q) \in Nat \ {0} /\ Len(Tail(q)) = Len(q) - 1 /\ Head(q) = q[1]
  BY <1>1
<1>5. \A i \in 1 .. Len(q) - 1 : Tail(q)[i] = q[i + 1]
  BY <1>1
<1> QED
  BY <1>3, <1>4, <1>5

----------------------------------------------------------------------------
(* The proof that is made *)

IsResult(m) == m.type \in {"CswProofSuccessfullyGenerated", "CswProofFailed"}

NoResult(q) == \A i \in 1 .. Len(q) : ~IsResult(q[i])

\* The one result in the mailbox is that of p.
ResultOf(q, p) ==
    \E k \in 1 .. Len(q) :
        /\ IsResult(q[k]) /\ \A j \in 1 .. Len(q) : j # k => ~IsResult(q[j])
        /\ q[k].type = "CswProofSuccessfullyGenerated" =>
              q[k].proof.box = p.box /\ q[k].proof.receiver = p.receiver

IsProof(p) == p = [box |-> p.box, receiver |-> p.receiver, isCancelled |-> p.isCancelled]

\* Of the proof in process a thread is at work or the result is on its way, and
\* there is no other.
AtWork(q, ts, p) ==
    \/ p = NoProof /\ ts = << >> /\ NoResult(q)
    \/ /\ IsProof(p) /\ Len(ts) = 1 /\ NoResult(q)
       /\ ts[1].box = p.box /\ ts[1].receiver = p.receiver
    \/ IsProof(p) /\ ts = << >> /\ ResultOf(q, p)

\* A proof in process is one.
LEMMA ProofIsNotNone ==
    ASSUME NEW p, IsProof(p)
    PROVE  p # NoProof
<1>1. DOMAIN p = {"box", "receiver", "isCancelled"}
  BY DEF IsProof
<1>2. DOMAIN NoProof = {"box"}
  BY DEF NoProof
<1> QED
  BY <1>1, <1>2

\* A proof that is cancelled is the same proof.
LEMMA Cancelled ==
    ASSUME NEW p, IsProof(p), NEW x, x = [p EXCEPT !.isCancelled = TRUE]
    PROVE  IsProof(x) /\ x.box = p.box /\ x.receiver = p.receiver
<1>1. x = [box |-> p.box, receiver |-> p.receiver, isCancelled |-> TRUE]
  BY ZenonT(30) DEF IsProof
<1>2. x.box = p.box /\ x.receiver = p.receiver /\ x.isCancelled = TRUE
  BY <1>1
<1> QED
  BY <1>1, <1>2, Zenon DEF IsProof

\* The work is the same for a proof that is cancelled.
LEMMA WorkCancelled ==
    ASSUME NEW q, NEW ts, NEW p, AtWork(q, ts, p), NEW x,
           x = p \/ (p # NoProof /\ x = [p EXCEPT !.isCancelled = TRUE])
    PROVE  AtWork(q, ts, x)
<1> SUFFICES ASSUME p # NoProof, x = [p EXCEPT !.isCancelled = TRUE] PROVE AtWork(q, ts, x)
  BY Zenon
<1>1. IsProof(p)
  BY Zenon DEF AtWork
<1>2. IsProof(x) /\ x.box = p.box /\ x.receiver = p.receiver
  BY <1>1, Cancelled, Zenon
<1>3. ResultOf(q, p) => ResultOf(q, x)
  BY <1>2, Zenon DEF ResultOf
<1> QED
  BY <1>2, <1>3, Zenon DEF AtWork

\* A message that is no result is added.
LEMMA WorkAdded ==
    ASSUME NEW q, IsSeq(q), NEW ts, NEW p, AtWork(q, ts, p), NEW m, ~IsResult(m)
    PROVE  AtWork(Append(q, m), ts, p)
<1> DEFINE r == Append(q, m)
<1>1. /\ Len(q) \in Nat /\ Len(r) = Len(q) + 1
      /\ \A i \in 1 .. Len(q) : r[i] = q[i]
      /\ r[Len(q) + 1] = m
  BY Added, SMT
<1> HIDE DEF r
<1>2. \A i \in 1 .. Len(r) : i \in 1 .. Len(q) \/ i = Len(q) + 1
  BY <1>1
<1>3. \A i \in 1 .. Len(q) : i \in 1 .. Len(r)
  BY <1>1
<1>4. NoResult(q) => NoResult(r)
  BY <1>1, <1>2, Zenon DEF NoResult
<1>5. ResultOf(q, p) => ResultOf(r, p)
  <2> SUFFICES ASSUME NEW k \in 1 .. Len(q), IsResult(q[k]),
                      \A j \in 1 .. Len(q) : j # k => ~IsResult(q[j]),
                      q[k].type = "CswProofSuccessfullyGenerated" =>
                          q[k].proof.box = p.box /\ q[k].proof.receiver = p.receiver
               PROVE  ResultOf(r, p)
    BY Zenon DEF ResultOf
  <2>1. k \in 1 .. Len(r) /\ r[k] = q[k]
    BY <1>1, <1>3, Zenon
  <2>2. \A j \in 1 .. Len(r) : j # k => ~IsResult(r[j])
    BY <1>1, <1>2, Zenon
  <2> QED
    BY <2>1, <2>2, Zenon DEF ResultOf
<1>6. AtWork(r, ts, p)
  BY <1>4, <1>5, Zenon DEF AtWork
<1> QED
  BY <1>6 DEF r

\* A message that is no result is taken.
LEMMA WorkTaken ==
    ASSUME NEW q, IsSeq(q), q # << >>, ~IsResult(q[1]), NEW ts, NEW p, AtWork(q, ts, p)
    PROVE  AtWork(Tail(q), ts, p)
<1> DEFINE r == Tail(q)
<1>1. /\ Len(q) \in Nat \ {0} /\ Len(r) = Len(q) - 1
      /\ \A i \in 1 .. Len(q) - 1 : r[i] = q[i + 1]
  BY Taken, SMT
<1> HIDE DEF r
<1>2. \A i \in 1 .. Len(r) : i + 1 \in 1 .. Len(q) /\ r[i] = q[i + 1]
  BY <1>1
<1>3. NoResult(q) => NoResult(r)
  BY <1>2, Zenon DEF NoResult
<1>4. ResultOf(q, p) => ResultOf(r, p)
  <2> SUFFICES ASSUME NEW k \in 1 .. Len(q), IsResult(q[k]),
                      \A j \in 1 .. Len(q) : j # k => ~IsResult(q[j]),
                      q[k].type = "CswProofSuccessfullyGenerated" =>
                          q[k].proof.box = p.box /\ q[k].proof.receiver = p.receiver
               PROVE  ResultOf(r, p)
    BY Zenon DEF ResultOf
  <2>1. k # 1
    BY Zenon
  <2>2. k - 1 \in 1 .. Len(r) /\ r[k - 1] = q[k]
    BY <2>1, <1>1
  <2>3. \A j \in 1 .. Len(r) : j # k - 1 => j + 1 # k
    BY <1>1
  <2>4. \A j \in 1 .. Len(r) : j # k - 1 => ~IsResult(r[j])
    BY <2>3, <1>2, Zenon
  <2> QED
    BY <2>2, <2>4, Zenon DEF ResultOf
<1>5. AtWork(r, ts, p)
  BY <1>3, <1>4, Zenon DEF AtWork
<1> QED
  BY <1>5 DEF r

\* The result is taken: nothing is at work any more, and it is that of the proof
\* in process.
LEMMA ResultTaken ==
    ASSUME NEW q, IsSeq(q), q # << >>, IsResult(q[1]), NEW ts, NEW p, AtWork(q, ts, p)
    PROVE  /\ NoResult(Tail(q)) /\ ts = << >> /\ IsProof(p)
           /\ q[1].type = "CswProofSuccessfullyGenerated" =>
                 q[1].proof.box = p.box /\ q[1].proof.receiver = p.receiver
<1> DEFINE r == Tail(q)
<1>1. /\ Len(q) \in Nat \ {0} /\ Len(r) = Len(q) - 1
      /\ \A i \in 1 .. Len(q) - 1 : r[i] = q[i + 1]
  BY Taken, SMT
<1> HIDE DEF r
<1>2. 1 \in 1 .. Len(q)
  BY <1>1
<1>3. ResultOf(q, p) /\ ts = << >> /\ IsProof(p)
  BY <1>2, Zenon DEF AtWork, NoResult
<1>4. PICK k \in 1 .. Len(q) :
          /\ IsResult(q[k]) /\ \A j \in 1 .. Len(q) : j # k => ~IsResult(q[j])
          /\ q[k].type = "CswProofSuccessfullyGenerated" =>
                q[k].proof.box = p.box /\ q[k].proof.receiver = p.receiver
  BY <1>3, Zenon DEF ResultOf
<1>5. k = 1
  BY <1>2, <1>4, Zenon
<1>6. \A i \in 1 .. Len(r) : i + 1 \in 1 .. Len(q) /\ r[i] = q[i + 1] /\ i + 1 # 1
  BY <1>1
<1>7. NoResult(r)
  BY <1>4, <1>5, <1>6, Zenon DEF NoResult
<1> QED
  BY <1>3, <1>4, <1>5, <1>7 DEF r

\* The thread reports.
LEMMA ResultAdded ==
    ASSUME NEW q, IsSeq(q), NEW ts, ts # << >>, NEW p, AtWork(q, ts, p), NEW m, IsResult(m),
           m.type = "CswProofSuccessfullyGenerated" => m.proof = ts[1]
    PROVE  AtWork(Append(q, m), << >>, p) /\ Len(ts) = 1
<1> DEFINE r == Append(q, m)
<1>1. /\ Len(q) \in Nat /\ Len(r) = Len(q) + 1
      /\ \A i \in 1 .. Len(q) : r[i] = q[i]
      /\ r[Len(q) + 1] = m
  BY Added, SMT
<1> HIDE DEF r
<1>2. IsProof(p) /\ Len(ts) = 1 /\ NoResult(q) /\ ts[1].box = p.box /\ ts[1].receiver = p.receiver
  BY Zenon DEF AtWork
<1>3. \A i \in 1 .. Len(r) : i \in 1 .. Len(q) \/ i = Len(q) + 1
  BY <1>1
<1>4. Len(q) + 1 \in 1 .. Len(r)
  BY <1>1
<1>5. \A j \in 1 .. Len(r) : j # Len(q) + 1 => ~IsResult(r[j])
  BY <1>1, <1>2, <1>3, Zenon DEF NoResult
<1>6. ResultOf(r, p)
  BY <1>1, <1>2, <1>4, <1>5, Zenon DEF ResultOf
<1>7. AtWork(r, << >>, p)
  BY <1>2, <1>6, Zenon DEF AtWork
<1> QED
  BY <1>2, <1>7 DEF r

----------------------------------------------------------------------------
(* The inductive invariant: besides what is at work, nothing is before the *)
(* working cycle, when messages are thrown away.                           *)

CswInv ==
    /\ IsSeq(mailbox) /\ IsSeq(threads) /\ AtWork(mailbox, threads, inProcess)
    /\ phase \in {"initialization", "asked", "answered"} => inProcess = NoProof
    /\ generated = [b \in Box |-> generated[b]]
    /\ GeneratedProofsMatch

\* A step that leaves the proofs and the phase, or goes on to another phase.
LEMMA CswKept ==
    ASSUME CswInv, NEW q, IsSeq(q), AtWork(q, threads, inProcess), mailbox' = q,
           UNCHANGED <<inProcess, generated, threads>>,
           phase' = phase \/ phase \in {"initialization", "asked", "answered"}
                          \/ phase' \notin {"initialization", "asked", "answered"}
    PROVE  CswInv'
BY Zenon DEF CswInv, GeneratedProofsMatch

\* A message that is no result is taken, and perhaps the actor sends itself one.
LEMMA CswTaken ==
    ASSUME CswInv, mailbox # << >>, ~IsResult(Head(mailbox))
    PROVE  /\ IsSeq(Tail(mailbox)) /\ AtWork(Tail(mailbox), threads, inProcess)
           /\ LET q == Append(Tail(mailbox), Plain("TryToScheduleProofGeneration"))
              IN  IsSeq(q) /\ AtWork(q, threads, inProcess)
<1>1. IsSeq(mailbox) /\ AtWork(mailbox, threads, inProcess)
  BY Zenon DEF CswInv
<1>2. IsSeq(Tail(mailbox)) /\ ~IsResult(mailbox[1])
  BY <1>1, Taken, Zenon
<1>3. AtWork(Tail(mailbox), threads, inProcess)
  BY <1>1, <1>2, WorkTaken, Zenon
<1>4. ~IsResult(Plain("TryToScheduleProofGeneration"))
  BY DEF IsResult, Plain
<1> QED
  BY <1>2, <1>3, <1>4, WorkAdded, Added, Zenon

\* A result of whatever kind is taken.
LEMMA CswResult ==
    ASSUME CswInv, mailbox # << >>, IsResult(Head(mailbox))
    PROVE  /\ LET q == Append(Tail(mailbox), Plain("TryToScheduleProofGeneration"))
              IN  IsSeq(q) /\ AtWork(q, threads, NoProof)
           /\ IsProof(inProcess)
           /\ Head(mailbox).type = "CswProofSuccessfullyGenerated" =>
                 /\ Head(mailbox).proof.box = inProcess.box
                 /\ Head(mailbox).proof.receiver = inProcess.receiver
<1>1. IsSeq(mailbox) /\ AtWork(mailbox, threads, inProcess)
  BY Zenon DEF CswInv
<1>2. IsSeq(Tail(mailbox)) /\ Head(mailbox) = mailbox[1]
  BY <1>1, Taken, Zenon
<1>3. /\ NoResult(Tail(mailbox)) /\ threads = << >> /\ IsProof(inProcess)
      /\ mailbox[1].type = "CswProofSuccessfullyGenerated" =>
            mailbox[1].proof.box = inProcess.box /\ mailbox[1].proof.receiver = inProcess.receiver
  BY <1>1, <1>2, ResultTaken, Zenon
<1>4. AtWork(Tail(mailbox), threads, NoProof)
  BY <1>3, Zenon DEF AtWork
<1>5. ~IsResult(Plain("TryToScheduleProofGeneration"))
  BY DEF IsResult, Plain
<1> QED
  BY <1>2, <1>3, <1>4, <1>5, WorkAdded, Added, Zenon

\* Handlers of messages that are no results.
LEMMA CswHandled ==
    ASSUME CswInv, NEW type, Receives(type), ~(type \in {"CswProofSuccessfullyGenerated", "CswProofFailed"})
    PROVE  /\ IsSeq(Tail(mailbox)) /\ AtWork(Tail(mailbox), threads, inProcess)
           /\ LET q == Append(Tail(mailbox), Plain("TryToScheduleProofGeneration"))
              IN  IsSeq(q) /\ AtWork(q, threads, inProcess)
           /\ phase = "workingCycle"
<1>1. mailbox # << >> /\ ~IsResult(Head(mailbox)) /\ phase = "workingCycle"
  BY Zenon DEF Receives, IsResult
<1> QED
  BY <1>1, CswTaken, Zenon

\* onGenerateCswProof: a proof for another receiver is cancelled, and goes on.
LEMMA CswAsked ==
    ASSUME CswInv, onGenerateCswProof
    PROVE  CswInv'
<1>1. Receives("GenerateCswProof") /\ threads' = threads /\ phase' = phase
  BY Zenon DEF onGenerateCswProof
<1>2. /\ IsSeq(Tail(mailbox)) /\ AtWork(Tail(mailbox), threads, inProcess)
      /\ LET q == Append(Tail(mailbox), Plain("TryToScheduleProofGeneration"))
         IN  IsSeq(q) /\ AtWork(q, threads, inProcess)
      /\ phase = "workingCycle"
  BY <1>1, CswHandled
<1>3. \/ mailbox' = Tail(mailbox) /\ UNCHANGED <<generated, inProcess>>
      \/ /\ mailbox' = Append(Tail(mailbox), Plain("TryToScheduleProofGeneration"))
         /\ \E b : generated' = [generated EXCEPT ![b] = NoProof]
         /\ inProcess' = inProcess
               \/ (inProcess # NoProof /\ inProcess' = [inProcess EXCEPT !.isCancelled = TRUE])
  BY Zenon DEF onGenerateCswProof
<1>4. CASE mailbox' = Tail(mailbox) /\ UNCHANGED <<generated, inProcess>>
  BY <1>1, <1>2, <1>4, CswKept, Zenon
<1>5. CASE /\ mailbox' = Append(Tail(mailbox), Plain("TryToScheduleProofGeneration"))
           /\ \E b : generated' = [generated EXCEPT ![b] = NoProof]
           /\ inProcess' = inProcess
                 \/ (inProcess # NoProof /\ inProcess' = [inProcess EXCEPT !.isCancelled = TRUE])
  <2>1. IsSeq(mailbox') /\ AtWork(mailbox', threads, inProcess)
    BY <1>2, <1>5, Zenon
  <2> DEFINE q == mailbox'
  <2> DEFINE x == inProcess'
  <2>2. x = inProcess \/ (inProcess # NoProof /\ x = [inProcess EXCEPT !.isCancelled = TRUE])
    BY <1>5, Zenon
  <2> HIDE DEF q, x
  <2>3. AtWork(q, threads, inProcess)
    BY <2>1 DEF q
  <2>4. AtWork(q, threads, x)
    BY <2>2, <2>3, WorkCancelled, Zenon
  <2>5. AtWork(mailbox', threads', inProcess')
    BY <2>4, <1>1 DEF q, x
  <2>6. PICK b : generated' = [generated EXCEPT ![b] = NoProof]
    BY <1>5, Zenon
  <2> DEFINE g == generated
  <2> DEFINE h == generated'
  <2>7. g = [a \in Box |-> g[a]] /\ h = [g EXCEPT ![b] = NoProof]
    BY <2>6, Zenon DEF CswInv
  <2> HIDE DEF g, h
  <2>8. DOMAIN g = Box
    BY <2>7, Zenon
  <2>9. h = [a \in Box |-> h[a]] /\ \A a \in Box : h[a] = g[a] \/ h[a] = NoProof
    BY <2>7, <2>8
  <2>10. GeneratedProofsMatch'
    BY <2>9, Zenon DEF CswInv, GeneratedProofsMatch, g, h
  <2>11. generated' = [a \in Box |-> generated'[a]]
    BY <2>9 DEF h
  <2>12. IsSeq(threads') /\ phase' \notin {"initialization", "asked", "answered"}
    BY <1>1, <1>2 DEF CswInv
  <2> QED
    BY <2>1, <2>5, <2>10, <2>11, <2>12, Zenon DEF CswInv
<1> QED
  BY <1>3, <1>4, <1>5, Zenon

\* Every step keeps the invariant.
LEMMA CswStep ==
    ASSUME CswInv, [Next]_vars
    PROVE  CswInv'
<1>0. IsSeq(mailbox) /\ IsSeq(threads) /\ AtWork(mailbox, threads, inProcess)
  BY Zenon DEF CswInv
<1>a. \A m : ~IsResult(m) => IsSeq(Append(mailbox, m)) /\ AtWork(Append(mailbox, m), threads, inProcess)
  BY <1>0, Added, WorkAdded, Zenon
<1>1. CASE onApplicationStart
  <2>1. /\ mailbox # << >> /\ Head(mailbox).type = "SidechainApplicationStart"
        /\ phase = "initialization" /\ mailbox' = Tail(mailbox)
        /\ UNCHANGED <<inProcess, generated, threads>>
    BY <1>1, Zenon DEF onApplicationStart, proofVars
  <2>2. ~IsResult(Head(mailbox))
    BY <2>1 DEF IsResult
  <2> QED
    BY <2>1, <2>2, CswTaken, CswKept, Zenon
<1>2. CASE reportStrangeInput
  <2>1. /\ mailbox # << >> /\ phase \in {"initialization", "asked", "answered"} /\ phase' = phase
        /\ mailbox' = Tail(mailbox) /\ UNCHANGED <<inProcess, generated, threads>>
    BY <1>2, Zenon DEF reportStrangeInput, proofVars
  <2>2. inProcess = NoProof
    BY <2>1, Zenon DEF CswInv
  <2>3. ~IsResult(Head(mailbox))
    <3>1. ~IsProof(inProcess)
      BY <2>2, ProofIsNotNone, Zenon
    <3> QED
      BY <3>1, <2>1, CswResult, Zenon
  <2> QED
    BY <2>1, <2>3, CswTaken, CswKept, Zenon
<1>3. CASE onChangedState
  <2>1. /\ Receives("ChangedState") /\ mailbox' = Tail(mailbox) /\ threads' = threads /\ phase' = phase
        /\ \/ UNCHANGED <<generated, inProcess>>
           \/ /\ generated' = [b \in Box |-> NoProof]
              /\ inProcess' = IF inProcess = NoProof THEN NoProof
                              ELSE [inProcess EXCEPT !.isCancelled = TRUE]
    BY <1>3, Zenon DEF onChangedState
  <2>2. /\ IsSeq(Tail(mailbox)) /\ AtWork(Tail(mailbox), threads, inProcess)
        /\ phase = "workingCycle"
    <3>1. ~("ChangedState" \in {"CswProofSuccessfullyGenerated", "CswProofFailed"})
      OBVIOUS
    <3> QED
      BY <3>1, <2>1, CswHandled, Zenon
  <2>3. CASE UNCHANGED <<generated, inProcess>>
    BY <2>1, <2>2, <2>3, CswKept, Zenon
  <2>4. CASE /\ generated' = [b \in Box |-> NoProof]
             /\ inProcess' = IF inProcess = NoProof THEN NoProof
                             ELSE [inProcess EXCEPT !.isCancelled = TRUE]
    <3> DEFINE x == inProcess'
    <3>1. x = inProcess \/ (inProcess # NoProof /\ x = [inProcess EXCEPT !.isCancelled = TRUE])
      BY <2>4
    <3> HIDE DEF x
    <3>2. AtWork(Tail(mailbox), threads, x)
      BY <3>1, <2>2, WorkCancelled, Zenon
    <3>3. AtWork(mailbox', threads', inProcess') /\ IsSeq(mailbox') /\ IsSeq(threads')
      BY <3>2, <2>1, <2>2, <1>0, Zenon DEF x
    <3>4. generated' = [b \in Box |-> generated'[b]] /\ GeneratedProofsMatch'
      BY <2>4 DEF GeneratedProofsMatch
    <3>5. phase' \notin {"initialization", "asked", "answered"}
      BY <2>1, <2>2
    <3> QED
      BY <3>3, <3>4, <3>5, Zenon DEF CswInv
  <2> QED
    BY <2>1, <2>3, <2>4, Zenon
<1>4. CASE onGenerateCswProof
  BY <1>4, CswAsked, Zenon
<1>5. CASE tryScheduleProofGeneration
  <2>0. Receives("TryToScheduleProofGeneration")
    BY <1>5, Zenon DEF tryScheduleProofGeneration
  <2>1. \/ /\ mailbox' = Tail(mailbox) \/ mailbox' = Append(Tail(mailbox), Plain("TryToScheduleProofGeneration"))
           /\ phase' = phase /\ UNCHANGED <<inProcess, generated, threads>>
        \/ /\ inProcess = NoProof /\ mailbox' = Tail(mailbox) /\ Restart
        \/ /\ inProcess = NoProof /\ mailbox' = Tail(mailbox) /\ phase' = phase /\ generated' = generated
           /\ StartProof(Head(queue))
    BY <1>5, Zenon DEF tryScheduleProofGeneration, ScheduleNext
  <2>2. /\ IsSeq(Tail(mailbox)) /\ AtWork(Tail(mailbox), threads, inProcess)
        /\ LET q == Append(Tail(mailbox), Plain("TryToScheduleProofGeneration"))
           IN  IsSeq(q) /\ AtWork(q, threads, inProcess)
        /\ phase = "workingCycle"
    <3>1. ~("TryToScheduleProofGeneration" \in {"CswProofSuccessfullyGenerated", "CswProofFailed"})
      OBVIOUS
    <3> QED
      BY <3>1, <2>0, CswHandled, Zenon
  <2>3. CASE /\ mailbox' = Tail(mailbox) \/ mailbox' = Append(Tail(mailbox), Plain("TryToScheduleProofGeneration"))
             /\ phase' = phase /\ UNCHANGED <<inProcess, generated, threads>>
    BY <2>2, <2>3, CswKept, Zenon
  <2>4. CASE inProcess = NoProof /\ mailbox' = Tail(mailbox) /\ Restart
    <3>1. inProcess' = NoProof /\ generated' = [b \in Box |-> NoProof] /\ threads' = threads
      BY <2>4, Zenon DEF Restart
    <3>2. AtWork(mailbox', threads', inProcess') /\ IsSeq(mailbox') /\ IsSeq(threads')
      BY <3>1, <2>2, <2>4, <1>0, Zenon
    <3>3. generated' = [b \in Box |-> generated'[b]] /\ GeneratedProofsMatch'
      BY <3>1 DEF GeneratedProofsMatch
    <3> QED
      BY <3>1, <3>2, <3>3, Zenon DEF CswInv
  <2>5. ASSUME NEW b, NEW r, inProcess = NoProof, mailbox' = Tail(mailbox),
               phase' = phase, generated' = generated,
               inProcess' = [box |-> b, receiver |-> r, isCancelled |-> FALSE],
               threads' = Append(threads, [box |-> b, receiver |-> r, witness |-> witness])
        PROVE  CswInv'
    <3>1. ~IsProof(inProcess)
      BY <2>5, ProofIsNotNone, Zenon
    <3>2. threads = << >> /\ NoResult(Tail(mailbox))
      BY <3>1, <2>2, Zenon DEF AtWork
    <3> DEFINE t == [box |-> b, receiver |-> r, witness |-> witness]
    <3> DEFINE ts == threads'
    <3> DEFINE x == inProcess'
    <3>3. ts = Append(<< >>, t) /\ x = [box |-> b, receiver |-> r, isCancelled |-> FALSE]
      BY <3>2, <2>5
    <3>4. t.box = b /\ t.receiver = r
      OBVIOUS
    <3> HIDE DEF t, ts, x
    <3>5. IsSeq(ts) /\ Len(ts) = 1 /\ ts[1] = t
      <4>1. << >> \in Seq({}) /\ Len(<< >>) = 0
        OBVIOUS
      <4>2. IsSeq(<< >>)
        BY <4>1, Zenon DEF IsSeq
      <4>3. IsSeq(Append(<< >>, t)) /\ Len(Append(<< >>, t)) = 0 + 1 /\ Append(<< >>, t)[0 + 1] = t
        BY <4>1, <4>2, Added, ZenonT(30)
      <4> QED
        BY <4>3, <3>3
    <3>6. x.box = b /\ x.receiver = r /\ x.isCancelled = FALSE
      BY <3>3
    <3>7. IsProof(x)
      BY <3>3, <3>6, Zenon DEF IsProof
    <3>8. ts[1].box = x.box /\ ts[1].receiver = x.receiver
      BY <3>4, <3>5, <3>6, Zenon
    <3>9. AtWork(Tail(mailbox), ts, x)
      BY <3>2, <3>5, <3>7, <3>8, Zenon DEF AtWork
    <3>10. AtWork(mailbox', threads', inProcess') /\ IsSeq(mailbox') /\ IsSeq(threads')
      BY <3>5, <3>9, <2>2, <2>5, Zenon DEF ts, x
    <3>11. phase' \notin {"initialization", "asked", "answered"}
      BY <2>2, <2>5
    <3>12. generated' = [a \in Box |-> generated'[a]] /\ GeneratedProofsMatch'
      BY <2>5, Zenon DEF CswInv, GeneratedProofsMatch
    <3> QED
      BY <3>10, <3>11, <3>12, Zenon DEF CswInv
  <2> QED
    BY <2>1, <2>3, <2>4, <2>5, Zenon DEF StartProof
<1>6. CASE proofGenerated \/ proofFailed
  <2>1. /\ mailbox # << >> /\ phase = "workingCycle" /\ phase' = phase
        /\ inProcess' = NoProof /\ threads' = threads
        /\ mailbox' = Append(Tail(mailbox), Plain("TryToScheduleProofGeneration"))
        /\ \/ /\ Head(mailbox).type = "CswProofSuccessfullyGenerated"
              /\ generated' = [generated EXCEPT ![inProcess.box] =
                                 [box |-> inProcess.box, receiver |-> inProcess.receiver,
                                  proof |-> Head(mailbox).proof]]
           \/ /\ Head(mailbox).type = "CswProofSuccessfullyGenerated" \/ Head(mailbox).type = "CswProofFailed"
              /\ generated' = generated
    BY <1>6, Zenon DEF proofGenerated, proofFailed, Receives
  <2>2. IsResult(Head(mailbox))
    BY <2>1, Zenon DEF IsResult
  <2>3. /\ LET q == Append(Tail(mailbox), Plain("TryToScheduleProofGeneration"))
           IN  IsSeq(q) /\ AtWork(q, threads, NoProof)
        /\ Head(mailbox).type = "CswProofSuccessfullyGenerated" =>
              /\ Head(mailbox).proof.box = inProcess.box
              /\ Head(mailbox).proof.receiver = inProcess.receiver
    BY <2>1, <2>2, CswResult, Zenon
  <2>4. IsSeq(mailbox') /\ IsSeq(threads') /\ AtWork(mailbox', threads', inProcess')
    BY <2>1, <2>3, <1>0, Zenon
  <2>5. phase' \notin {"initialization", "asked", "answered"}
    BY <2>1
  <2>6. CASE generated' = generated
    BY <2>4, <2>5, <2>6, Zenon DEF CswInv, GeneratedProofsMatch
  <2>7. CASE /\ Head(mailbox).type = "CswProofSuccessfullyGenerated"
             /\ generated' = [generated EXCEPT ![inProcess.box] =
                                [box |-> inProcess.box, receiver |-> inProcess.receiver,
                                 proof |-> Head(mailbox).proof]]
    <3> DEFINE b == inProcess.box
    <3> DEFINE p == Head(mailbox).proof
    <3> DEFINE r == inProcess.receiver
    <3> DEFINE g == generated
    <3> DEFINE h == generated'
    <3> DEFINE y == [box |-> b, receiver |-> r, proof |-> p]
    <3>1. p.box = b /\ p.receiver = r
      BY <2>3, <2>7, Zenon
    <3>2. g = [a \in Box |-> g[a]] /\ h = [g EXCEPT ![b] = y]
      BY <2>7, Zenon DEF CswInv
    <3>3. y.proof = p /\ y.receiver = r
      OBVIOUS
    <3> HIDE DEF b, p, r, g, h, y
    <3>4. DOMAIN g = Box
      BY <3>2, Zenon
    <3>5. h = [a \in Box |-> h[a]] /\ \A a \in Box : h[a] = g[a] \/ (a = b /\ h[a] = y)
      BY <3>2, <3>4
    <3>6. \A a \in Box : h[a] # NoProof => h[a].proof.box = a /\ h[a].proof.receiver = h[a].receiver
      BY <3>1, <3>3, <3>5, Zenon DEF CswInv, GeneratedProofsMatch, g
    <3>7. GeneratedProofsMatch' /\ generated' = [a \in Box |-> generated'[a]]
      BY <3>5, <3>6, Zenon DEF GeneratedProofsMatch, h
    <3> QED
      BY <3>7, <2>4, <2>5, Zenon DEF CswInv
  <2> QED
    BY <2>1, <2>6, <2>7, Zenon
<1>7. CASE StatusAnswered \/ StatusFails \/ WorkBegins
  <2>1. /\ phase \in {"initialization", "asked", "answered"} /\ mailbox' = mailbox
        /\ UNCHANGED <<inProcess, generated, threads>>
    BY <1>7, Zenon DEF StatusAnswered, StatusFails, WorkBegins, proofVars
  <2> QED
    BY <2>1, <1>0, CswKept, Zenon
<1>8. CASE LoadAnswered \/ LoadCompletes
  <2>1. /\ mailbox' = mailbox /\ UNCHANGED <<inProcess, generated, threads>>
        /\ phase' = phase \/ phase' = "stopped"
    BY <1>8, Zenon DEF LoadAnswered, LoadCompletes, proofVars
  <2>2. "stopped" \notin {"initialization", "asked", "answered"}
    OBVIOUS
  <2> QED
    BY <2>1, <2>2, <1>0, CswKept, Zenon
<1>9. CASE ThreadEnds
  <2>1. PICK n \in DOMAIN threads :
          /\ threads' = SubSeq(threads, 1, n - 1) \o SubSeq(threads, n + 1, Len(threads))
          /\ \E m \in {Result(threads[n]), Plain("CswProofFailed")} : mailbox' = Append(mailbox, m)
    BY <1>9, Zenon DEF ThreadEnds
  <2>2. UNCHANGED <<phase, inProcess, generated>>
    BY <1>9, Zenon DEF ThreadEnds
  <2>3. threads # << >>
    BY <2>1
  <2>4. Len(threads) = 1
    BY <2>3, <1>0, Zenon DEF AtWork
  <2>5. PICK S : threads \in Seq(S)
    BY <1>0, Zenon DEF IsSeq
  <2>6. n = 1
    BY <2>1, <2>4, <2>5
  <2>7. threads' = << >>
    <3>1. threads' = SubSeq(threads, 1, 0) \o SubSeq(threads, 2, 1)
      BY <2>1, <2>4, <2>6
    <3>2. SubSeq(threads, 1, 0) = << >> /\ SubSeq(threads, 2, 1) = << >>
      BY <2>5
    <3> QED
      BY <3>1, <3>2
  <2>8. PICK m \in {Result(threads[1]), Plain("CswProofFailed")} : mailbox' = Append(mailbox, m)
    BY <2>1, <2>6
  <2>9. IsResult(m) /\ (m.type = "CswProofSuccessfullyGenerated" => m.proof = threads[1])
    BY <2>8 DEF IsResult, Result, Plain
  <2>10. IsSeq(Append(mailbox, m)) /\ AtWork(Append(mailbox, m), << >>, inProcess)
    BY <2>3, <2>9, <1>0, Added, ResultAdded, Zenon
  <2>11. IsSeq(<< >>)
    <3>1. << >> \in Seq({})
      OBVIOUS
    <3> QED
      BY <3>1, Zenon DEF IsSeq
  <2>12. IsSeq(mailbox') /\ IsSeq(threads') /\ AtWork(mailbox', threads', inProcess')
    BY <2>2, <2>7, <2>8, <2>10, <2>11, Zenon
  <2> QED
    BY <2>2, <2>12, Zenon DEF CswInv, GeneratedProofsMatch
<1>10. CASE StateChanges
  <2>1. mailbox' = Append(mailbox, Plain("ChangedState")) /\ UNCHANGED <<phase, inProcess, generated, threads>>
    BY <1>10, Zenon DEF StateChanges, Send, proofVars
  <2>2. ~IsResult(Plain("ChangedState"))
    BY DEF IsResult, Plain
  <2> QED
    BY <2>1, <2>2, <1>a, CswKept, Zenon
<1>11. CASE UserAsks
  <2>1. /\ \E b, r : mailbox' = Append(mailbox, Request(b, r))
        /\ UNCHANGED <<phase, inProcess, generated, threads>>
    BY <1>11, Zenon DEF UserAsks, Send, proofVars
  <2>2. \A b, r : ~IsResult(Request(b, r))
    BY DEF IsResult, Request
  <2> QED
    BY <2>1, <2>2, <1>a, CswKept, Zenon
<1>12. CASE UNCHANGED vars
  <2>1. mailbox' = mailbox /\ UNCHANGED <<phase, inProcess, generated, threads>>
    BY <1>12, Zenon DEF vars
  <2> QED
    BY <2>1, <1>0, CswKept, Zenon
<1> QED
  BY <1>1, <1>2, <1>3, <1>4, <1>5, <1>6, <1>7, <1>8, <1>9, <1>10, <1>11, <1>12, Zenon
     DEF Next, Handle, Background

\* A proof is shown for the box and the receiver that it was made for: the result
\* names neither, and processProofGenerationResults takes it for the proof in
\* process, which stays there, cancelled or not, until the result has come.
THEOREM ProofsMatchRequests == Spec => []GeneratedProofsMatch
<1>1. Init => CswInv
  <2> SUFFICES ASSUME Init PROVE CswInv
    OBVIOUS
  <2>1. /\ mailbox = <<Plain("SidechainApplicationStart")>> /\ threads = << >>
        /\ inProcess = NoProof /\ generated = [b \in Box |-> NoProof]
    BY Zenon DEF Init
  <2> DEFINE m == Plain("SidechainApplicationStart")
  <2>2. ~IsResult(m)
    BY DEF IsResult, Plain
  <2> HIDE DEF m
  <2>3. <<m>> \in Seq({m}) /\ Len(<<m>>) = 1 /\ <<m>>[1] = m /\ << >> \in Seq({})
    OBVIOUS
  <2>4. IsSeq(<<m>>) /\ IsSeq(<< >>)
    BY <2>3, Zenon DEF IsSeq
  <2>5. NoResult(<<m>>)
    BY <2>2, <2>3 DEF NoResult
  <2>6. AtWork(<<m>>, << >>, NoProof)
    BY <2>5, Zenon DEF AtWork
  <2>7. mailbox = <<m>>
    BY <2>1 DEF m
  <2>8. generated = [b \in Box |-> generated[b]] /\ GeneratedProofsMatch
    BY <2>1 DEF GeneratedProofsMatch
  <2> QED
    BY <2>1, <2>4, <2>6, <2>7, <2>8, Zenon DEF CswInv
<1>2. CswInv /\ [Next]_vars => CswInv'
  BY CswStep
<1>3. CswInv => GeneratedProofsMatch
  BY DEF CswInv
<1> QED
  BY <1>1, <1>2, <1>3, PTL DEF Spec

=============================================================================
