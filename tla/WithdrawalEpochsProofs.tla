------------------------ MODULE WithdrawalEpochsProofs ------------------------
(***************************************************************************)
(* What a block's position in its withdrawal epoch, the number of          *)
(* withdrawal requests and the ceasing of the sidechain are, for every     *)
(* epoch length, limit and grouping of references into blocks.             *)
(***************************************************************************)
EXTENDS WithdrawalEpochs, TLAPS

\* References one after the other, counted from the start of an epoch: what
\* getWithdrawalEpochInfo computes with a remainder is the number of the block's
\* own references.
LEMMA RemainderOfWholeEpoch ==
    ASSUME NEW l \in Nat, l > 0, NEW n \in 0 .. l - 1
    PROVE  (l + n) % l = n
<1>1. n % l = n
  BY SMT
<1>2. (l + n) % l = n % l
  BY SMT
<1> QED
  BY <1>1, <1>2

\* A submission window lies inside of an epoch.
LEMMA WindowInsideEpoch ==
    certificateSubmissionWindowLength \in 2 .. L
BY EpochAssumption, SMT DEF certificateSubmissionWindowLength

\* A block goes on in its epoch, or its parent ends one and all of its references
\* are of the next.
LEMMA EpochStep ==
    ASSUME epoch \in Nat, index \in 0 .. L, NEW n \in 0 .. MaxRefs, NEW hasTx,
           ReferencesAllowed(n, hasTx)
    PROVE  /\ IndexAfter(n) \in 0 .. L
           /\ \/ EpochAfter(n) = epoch /\ index < L /\ IndexAfter(n) = index + n
              \/ EpochAfter(n) = epoch + 1 /\ index = L /\ IndexAfter(n) = n
<1> USE EpochAssumption
<1>1. n \in Nat /\ n <= L
  BY SMT
<1>2. CASE index = L
  <2>1. EpochAfter(n) = epoch + 1 /\ EpochAfter(n) > epoch
    BY <1>2, SMT DEF EpochAfter
  <2>2. CASE n = L
    BY <1>1, <1>2, <2>1, <2>2, SMT DEF IndexAfter
  <2>3. CASE n # L
    <3>1. n \in 0 .. L - 1
      BY <1>1, <2>3, SMT
    <3>2. (L + n) % L = n
      BY <3>1, RemainderOfWholeEpoch, SMT
    <3>3. IndexAfter(n) = (index + n) % L
      BY <2>1, <2>3, SMT DEF IndexAfter
    <3> QED
      BY <1>1, <1>2, <2>1, <3>2, <3>3, SMT
  <2> QED
    BY <2>2, <2>3
<1>3. CASE index # L
  <2>1. EpochAfter(n) = epoch /\ index + n <= L
    BY <1>1, <1>3, SMT DEF EpochAfter, ReferencesAllowed
  <2>2. IndexAfter(n) = index + n
    BY <2>1, SMT DEF IndexAfter
  <2> QED
    BY <1>1, <1>3, <2>1, <2>2, SMT
<1> QED
  BY <1>2, <1>3

----------------------------------------------------------------------------
(* The position of a block *)

Position == epoch \in Nat /\ index \in 0 .. L /\ refs \in Int /\ EpochCountsReferences

\* The epoch and the index of every block (getWithdrawalEpochInfo) are those of
\* its last mainchain reference.
THEOREM BlocksAreInTheirEpoch == Spec => []EpochCountsReferences
<1>1. Init => Position
  BY EpochAssumption, SMT DEF Init, Position, EpochCountsReferences
<1>2. Position /\ [Next]_vars => Position'
  <2>1. ASSUME Position, Next PROVE Position'
    <3>0. PICK n \in 0 .. MaxRefs, forward, plain \in BOOLEAN, w \in 0 .. MaxWBs, k \in Key \cup {None} :
              \E c, transfers : applyModifier(n, forward, w, plain, k, c, transfers)
      BY <2>1, Zenon DEF Next
    <3>1. PICK c, transfers : applyModifier(n, forward, w, plain, k, c, transfers)
      BY <3>0, Zenon
    <3>2. PICK hasTx \in BOOLEAN : ReferencesAllowed(n, hasTx)
      <4>1. ReferencesAllowed(n, w > 0 \/ plain \/ k # None)
        BY <3>1, Zenon DEF applyModifier
      <4> QED
        BY <4>1, Zenon
    <3>3. epoch' = EpochAfter(n) /\ index' = IndexAfter(n) /\ refs' = refs + n
      BY <3>1, Zenon DEF applyModifier
    <3>4. /\ IndexAfter(n) \in 0 .. L
          /\ \/ EpochAfter(n) = epoch /\ index < L /\ IndexAfter(n) = index + n
             \/ EpochAfter(n) = epoch + 1 /\ index = L /\ IndexAfter(n) = n
      BY <2>1, <3>2, EpochStep, Zenon DEF Position
    <3> QED
      BY <2>1, <3>3, <3>4, EpochAssumption, SMT DEF Position, EpochCountsReferences
  <2>2. ASSUME Position, UNCHANGED vars PROVE Position'
    BY <2>2, SMT DEF Position, EpochCountsReferences, vars, history
  <2> QED
    BY <2>1, <2>2
<1>3. Position => EpochCountsReferences
  BY DEF Position
<1> QED
  BY <1>1, <1>2, <1>3, PTL DEF Spec

----------------------------------------------------------------------------
(* The number of withdrawal requests *)

\* The requests that are stored for the current epoch are all of its requests,
\* and there are none for later ones.
Limited ==
    /\ epoch \in Epoch /\ index \in 0 .. L
    /\ requests \in [Epoch -> Nat] /\ mined \in [Epoch -> Nat]
    /\ \A e \in Epoch : mined[e] <= MaxWBs /\ (e > epoch => mined[e] = 0 /\ requests[e] = 0)
    /\ requests[epoch] = mined[epoch]

\* No epoch has more withdrawal requests than params.maxWBsAllowed
\* (checkWithdrawalBoxesAllowed).
THEOREM EpochsStayWithinLimit == Spec => []EpochWithinLimit
<1> USE EpochAssumption
<1>1. Init => Limited
  BY SMT DEF Init, Limited, Epoch
<1>2. Limited /\ [Next]_vars => Limited'
  <2>1. ASSUME Limited, Next PROVE Limited'
    <3>0. PICK n \in 0 .. MaxRefs, forward, plain \in BOOLEAN, w \in 0 .. MaxWBs, k \in Key \cup {None} :
              \E c, transfers : applyModifier(n, forward, w, plain, k, c, transfers)
      BY <2>1, Zenon DEF Next
    <3>1. PICK c, transfers : applyModifier(n, forward, w, plain, k, c, transfers)
      BY <3>0, Zenon
    <3> DEFINE e == EpochAfter(n)
               hasTx == w > 0 \/ plain \/ k # None
    <3>2. /\ e <= MaxEpoch /\ ReferencesAllowed(n, hasTx) /\ (hasTx \/ forward => WithinLimit(n, w))
          /\ epoch' = e /\ index' = IndexAfter(n)
          /\ requests' = [f \in Epoch |-> IF f = e THEN requests[f] + w
                                          ELSE IF f \in RequestsRemoved(n, c) THEN 0 ELSE requests[f]]
          /\ mined' = [mined EXCEPT ![e] = @ + w]
      BY <3>1, Zenon DEF applyModifier
    <3>3. epoch \in Nat /\ index \in 0 .. L /\ w \in Nat
      BY <2>1, SMT DEF Limited, Epoch
    <3>4. /\ IndexAfter(n) \in 0 .. L
          /\ \/ e = epoch /\ index < L /\ IndexAfter(n) = index + n
             \/ e = epoch + 1 /\ index = L /\ IndexAfter(n) = n
      BY <3>2, <3>3, EpochStep, Zenon
    <3>5. w = 0 \/ mined[epoch] + w <= MaxWBs
      <4>1. CASE w = 0
        BY <4>1
      <4>2. CASE w # 0
        <5>1. requests[epoch] + w <= Allowed(n)
          BY <3>2, <3>3, <4>2, SMT DEF WithinLimit
        <5>2. Allowed(n) \in Int /\ Allowed(n) <= MaxWBs
          BY <3>3, SMT DEF Allowed
        <5> QED
          BY <2>1, <3>3, <5>1, <5>2, SMT DEF Limited
      <4> QED
        BY <4>1, <4>2
    <3> HIDE DEF e, hasTx
    <3>6. e \in Epoch /\ epoch \in Epoch
      <4>1. e \in Nat /\ e <= MaxEpoch
        BY <3>2, <3>3, <3>4
      <4> QED
        BY <2>1, <4>1 DEF Limited, Epoch
    <3>7. requests' \in [Epoch -> Nat] /\ mined' \in [Epoch -> Nat]
      BY <2>1, <3>2, <3>3, <3>6, SMT DEF Limited
    <3>8. requests'[e] = requests[e] + w /\ mined'[e] = mined[e] + w
      BY <2>1, <3>2, <3>6, SMT DEF Limited
    <3>9. \A f \in Epoch : f # e => mined'[f] = mined[f] /\ requests'[f] \in {0, requests[f]}
      BY <2>1, <3>2, <3>6, SMT DEF Limited
    <3>10. mined[e] + w <= MaxWBs /\ requests[e] = mined[e]
      <4>1. /\ requests[epoch] = mined[epoch] /\ mined[epoch] \in Nat /\ mined[epoch] <= MaxWBs
            /\ (e > epoch => mined[e] = 0 /\ requests[e] = 0)
        BY <2>1, <3>6 DEF Limited
      <4>2. CASE e = epoch
        BY <3>3, <3>5, <4>1, <4>2, SMT
      <4>3. CASE e = epoch + 1
        <5>1. mined[e] = 0 /\ requests[e] = 0
          BY <3>3, <4>1, <4>3, SMT
        <5> QED
          BY <3>3, <5>1, SMT
      <4> QED
        BY <3>4, <4>2, <4>3
    <3>11. \A f \in Epoch : mined'[f] <= MaxWBs /\ (f > e => mined'[f] = 0 /\ requests'[f] = 0)
      <4> TAKE f \in Epoch
      <4>1. CASE f = e
        BY <2>1, <3>3, <3>6, <3>8, <3>10, <4>1, SMT DEF Limited, Epoch
      <4>2. CASE f # e
        <5>1. mined[f] <= MaxWBs /\ (f > epoch => mined[f] = 0 /\ requests[f] = 0)
          BY <2>1 DEF Limited
        <5>2. mined'[f] = mined[f] /\ requests'[f] \in {0, requests[f]}
          BY <3>9, <4>2
        <5>3. f > e => f > epoch
          BY <3>3, <3>4, SMT DEF Epoch
        <5> QED
          BY <5>1, <5>2, <5>3
      <4> QED
        BY <4>1, <4>2
    <3> QED
      BY <3>2, <3>4, <3>6, <3>7, <3>8, <3>10, <3>11, SMT DEF Limited
  <2>2. ASSUME Limited, UNCHANGED vars PROVE Limited'
    BY <2>2, Zenon DEF Limited, vars, storage, history
  <2> QED
    BY <2>1, <2>2
<1>3. Limited => EpochWithinLimit
  BY DEF Limited, EpochWithinLimit
<1> QED
  BY <1>1, <1>2, <1>3, PTL DEF Spec

----------------------------------------------------------------------------
(* When the sidechain has ceased *)

\* In a ceasing sidechain the certificates of the epochs that matter are stored,
\* and every earlier epoch has one.
CeasingInv ==
    /\ epoch \in Epoch /\ index \in 0 .. L /\ hasCeased \in BOOLEAN
    /\ requests \in [Epoch -> Nat] /\ certificate \in [Epoch -> Int]
    /\ certified \subseteq 0 .. epoch - 1
    /\ \A e \in Epoch : e >= epoch - 1 => (certificate[e] # None <=> e \in certified)
    /\ 0 .. epoch - 2 \subseteq certified
    /\ hasCeased <=> /\ epoch > 0 /\ index >= certificateSubmissionWindowLength
                     /\ epoch - 1 \notin certified

\* A ceasing sidechain has ceased exactly when a submission window has ended
\* without a certificate (hasReachedCertificateSubmissionWindowEnd, scHasCeased),
\* however the mainchain references are spread over blocks.
THEOREM CeasesWithoutCertificate == Spec => []CeasedIffUncertified
<1> USE EpochAssumption
<1>1. ASSUME Init PROVE CeasingInv
  <2>1. /\ epoch = 0 /\ index = 1 /\ hasCeased = FALSE /\ certified = {}
        /\ requests = [e \in Epoch |-> 0] /\ certificate = [e \in Epoch |-> None]
    BY <1>1, Zenon DEF Init
  <2>2. epoch \in Epoch /\ index \in 0 .. L /\ ~(epoch > 0) /\ 0 .. epoch - 2 = {}
    BY <2>1, SMT DEF Epoch
  <2>3. requests \in [Epoch -> Nat] /\ certificate \in [Epoch -> Int]
    BY <2>1, SMT DEF None
  <2>4. \A e \in Epoch : certificate[e] = None
    BY <2>1, Zenon
  <2> QED
    BY <2>1, <2>2, <2>3, <2>4, Zenon DEF CeasingInv
<1>2. ASSUME ~nonCeasing, CeasingInv, Next PROVE CeasingInv'
  <2>1. PICK n \in 0 .. MaxRefs, forward, plain \in BOOLEAN, w \in 0 .. MaxWBs, k \in Key \cup {None} :
            \E c \in Certifiable(n) \cup {None} :
            \E transfers \in Transfers(c) :
                applyModifier(n, forward, w, plain, k, c, transfers)
    BY <1>2, Zenon DEF Next
  <2>2. PICK c \in Certifiable(n) \cup {None} :
            \E transfers \in Transfers(c) :
                applyModifier(n, forward, w, plain, k, c, transfers)
    BY <2>1, Zenon
  <2>3. PICK transfers \in Transfers(c) :
                applyModifier(n, forward, w, plain, k, c, transfers)
    BY <2>2, Zenon
  <2> DEFINE e == EpochAfter(n)
             hasTx == w > 0 \/ plain \/ k # None
             window == certificateSubmissionWindowLength
  <2>4. /\ ~hasCeased /\ e <= MaxEpoch /\ ReferencesAllowed(n, hasTx)
        /\ epoch' = e /\ index' = IndexAfter(n)
        /\ certificate' = [f \in Epoch |-> IF f = c THEN transfers[c]
                                           ELSE IF f \in CertificatesRemoved(n, c) THEN None
                                           ELSE certificate[f]]
        /\ requests' = [f \in Epoch |-> IF f = e THEN requests[f] + w
                                        ELSE IF f \in RequestsRemoved(n, c) THEN 0 ELSE requests[f]]
        /\ hasCeased' = scHasCeased(n, c)
        /\ certified' = certified \cup Certificates(c)
    BY <2>3, Zenon DEF applyModifier
  <2>5. epoch \in Nat /\ index \in 0 .. L /\ w \in Nat
    BY <1>2, SMT DEF CeasingInv, Epoch
  <2>6. /\ IndexAfter(n) \in 0 .. L
        /\ \/ e = epoch /\ index < L /\ IndexAfter(n) = index + n
           \/ e = epoch + 1 /\ index = L /\ IndexAfter(n) = n
    BY <2>4, <2>5, EpochStep, Zenon
  <2>7. window \in 2 .. L
    BY WindowInsideEpoch
  <2>8. c = None \/ (c \in Epoch /\ c = e - 1 /\ transfers[c] \in Nat)
    <3>1. CASE c = None
      BY <3>1
    <3>2. CASE c # None
      <4>1. c \in Certifiable(n)
        BY <3>2
      <4>2. c \in Epoch /\ c = e - 1
        BY <1>2, <4>1 DEF Certifiable, Previous
      <4>3. transfers[c] \in {requests[c], requests[c] + 1}
        BY <1>2, <2>3, <3>2, Zenon DEF Transfers, Certificates
      <4> QED
        BY <1>2, <4>2, <4>3, SMT DEF CeasingInv
    <3> QED
      BY <3>1, <3>2
  <2>9. scHasCeased(n, c) <=> /\ e > 0 /\ (index < window \/ index = L)
                              /\ IndexAfter(n) >= window
                              /\ c = None /\ certificate[e - 1] = None
    BY <1>2, Zenon DEF scHasCeased, hasReachedCertificateSubmissionWindowEnd, Previous
  <2>10. Certificates(c) = IF c = None THEN {} ELSE {c}
    BY <1>2, Zenon DEF Certificates
  <2>11. CertificatesRemoved(n, c) = IF e # epoch THEN {e - 4} ELSE {}
    BY <1>2, Zenon DEF CertificatesRemoved, OutdatedCertificates
  <2>12. e \in Epoch /\ epoch \in Epoch /\ e \in Nat
    <3>1. e \in Nat /\ e <= MaxEpoch
      BY <2>4, <2>5, <2>6
    <3> QED
      BY <1>2, <3>1 DEF CeasingInv, Epoch
  <2> HIDE DEF e, hasTx, window
  <2>13. epoch > 0 /\ index >= window => epoch - 1 \in certified
    BY <1>2, <2>4, Zenon DEF CeasingInv, window
  <2>14. certified' \subseteq 0 .. e - 1
    <3>1. SUFFICES ASSUME NEW f \in certified' PROVE f \in 0 .. e - 1
      OBVIOUS
    <3>2. f \in certified \/ (c # None /\ f = c)
      BY <2>4, <2>10
    <3>3. CASE f \in certified
      <4>1. f \in 0 .. epoch - 1
        BY <1>2, <3>3 DEF CeasingInv
      <4> QED
        BY <2>5, <2>6, <2>12, <4>1
    <3>4. CASE c # None /\ f = c
      <4>1. c \in Epoch /\ c = e - 1
        BY <2>8, <3>4
      <4> QED
        BY <2>12, <3>4, <4>1 DEF Epoch
    <3> QED
      BY <3>2, <3>3, <3>4
  <2>15. 0 .. e - 2 \subseteq certified'
    <3>1. CASE e = epoch
      BY <1>2, <2>4, <3>1, SMT DEF CeasingInv
    <3>2. CASE e = epoch + 1 /\ index = L
      BY <1>2, <2>4, <2>5, <2>7, <2>13, <3>2, SMT DEF CeasingInv
    <3> QED
      BY <2>6, <3>1, <3>2
  <2>16. requests' \in [Epoch -> Nat]
    BY <1>2, <2>4, <2>5, <2>12, SMT DEF CeasingInv
  <2>17. certificate' \in [Epoch -> Int]
    BY <1>2, <2>4, <2>8, SMT DEF CeasingInv, Epoch, None
  <2>18. ASSUME NEW f \in Epoch, f >= e - 1 PROVE certificate'[f] # None <=> f \in certified'
    <3>1. f \notin CertificatesRemoved(n, c) /\ f # None /\ f >= epoch - 1
      BY <2>5, <2>6, <2>11, <2>12, <2>18, SMT DEF Epoch, None
    <3>2. certificate'[f] = IF f = c THEN transfers[c] ELSE certificate[f]
      BY <2>4, <3>1, Zenon
    <3>3. certificate[f] # None <=> f \in certified
      BY <1>2, <3>1 DEF CeasingInv
    <3> QED
      BY <2>4, <2>8, <2>10, <3>1, <3>2, <3>3, SMT DEF None
  <2>19. hasCeased' <=> e > 0 /\ IndexAfter(n) >= window /\ e - 1 \notin certified'
    <3>1. CASE e = 0
      BY <2>4, <2>9, <3>1, SMT
    <3>2. CASE e > 0
      <4>1. e - 1 \in Epoch
        BY <2>12, <3>2, SMT DEF Epoch
      <4>2. certificate[e - 1] # None <=> e - 1 \in certified
        BY <1>2, <2>5, <2>6, <2>12, <4>1, SMT DEF CeasingInv
      <4>3. e - 1 \notin certified' <=> c = None /\ certificate[e - 1] = None
        BY <2>4, <2>8, <2>10, <4>1, <4>2, SMT DEF None
      <4>4. e = epoch /\ index >= window => e - 1 \in certified
        BY <2>13, <3>2
      <4> QED
        BY <2>4, <2>5, <2>6, <2>7, <2>9, <2>12, <3>2, <4>2, <4>3, <4>4, SMT
    <3> QED
      BY <2>12, <3>1, <3>2, SMT
  <2>20. hasCeased' \in BOOLEAN
    BY <2>4, Zenon DEF scHasCeased
  <2> QED
    BY <2>4, <2>6, <2>12, <2>14, <2>15, <2>16, <2>17, <2>18, <2>19, <2>20, Zenon DEF CeasingInv, window
<1>3. ASSUME CeasingInv, UNCHANGED vars PROVE CeasingInv'
  BY <1>3, Zenon DEF CeasingInv, vars, storage, history
<1>4. Next => UNCHANGED nonCeasing
  <2>1. ASSUME NEW n, NEW forward, NEW w, NEW plain, NEW k, NEW c, NEW transfers,
               applyModifier(n, forward, w, plain, k, c, transfers)
        PROVE  UNCHANGED nonCeasing
    BY <2>1, Zenon DEF applyModifier
  <2> QED
    BY <2>1, Zenon DEF Next
<1>5. UNCHANGED vars => UNCHANGED nonCeasing
  BY Zenon DEF vars
<1> DEFINE Inv == ~nonCeasing => CeasingInv
<1>6. Init => Inv
  BY <1>1
<1>7. Inv /\ [Next]_vars => Inv'
  BY <1>2, <1>3, <1>4, <1>5, Zenon
<1>8. Inv => CeasedIffUncertified
  BY Zenon DEF CeasingInv, CeasedIffUncertified
<1> HIDE DEF Inv
<1> QED
  BY <1>6, <1>7, <1>8, PTL DEF Spec

----------------------------------------------------------------------------
(* The fees of an epoch *)

\* The fee records of the current epoch are one for each of its blocks, later
\* epochs have neither records nor blocks, and an epoch was paid when it ended.
FeesInv ==
    /\ epoch \in Epoch /\ index \in 0 .. L
    /\ blockFees \in [Epoch -> Nat] /\ feeBlocks \in [Epoch -> Nat] /\ paid \in [Epoch -> Nat]
    /\ blockFees[epoch] = feeBlocks[epoch]
    /\ \A e \in Epoch : e > epoch => blockFees[e] = 0 /\ feeBlocks[e] = 0
    /\ FeesArePaidOnce

\* A block adds its own fee record; the block that ends an epoch pays the records
\* of the epoch and its own.
LEMMA FeesStep ==
    ASSUME FeesInv, Next
    PROVE  FeesInv'
<1> USE EpochAssumption
<1>1. PICK n \in 0 .. MaxRefs, forward, plain \in BOOLEAN, w \in 0 .. MaxWBs, k \in Key \cup {None} :
          \E c, transfers : applyModifier(n, forward, w, plain, k, c, transfers)
  BY Zenon DEF Next
<1>2. PICK c, transfers : applyModifier(n, forward, w, plain, k, c, transfers)
  BY <1>1, Zenon
<1> DEFINE e == EpochAfter(n)
           i == IndexAfter(n)
           hasTx == w > 0 \/ plain \/ k # None
<1>3. /\ e <= MaxEpoch /\ ReferencesAllowed(n, hasTx)
      /\ epoch' = e /\ index' = i
      /\ blockFees' = [f \in Epoch |-> IF f = e THEN blockFees[f] + 1
                                       ELSE IF e # epoch /\ f = e - 1 THEN 0 ELSE blockFees[f]]
      /\ feeBlocks' = [feeBlocks EXCEPT ![e] = @ + 1]
      /\ paid' = IF i = L THEN [paid EXCEPT ![e] = @ + FeesAtEnd(e)] ELSE paid
  BY <1>2, Zenon DEF applyModifier
<1>4. epoch \in Nat /\ index \in 0 .. L
  BY SMT DEF FeesInv, Epoch
<1>5. /\ i \in 0 .. L
      /\ \/ e = epoch /\ index < L /\ i = index + n
         \/ e = epoch + 1 /\ index = L /\ i = n
  BY <1>3, <1>4, EpochStep, Zenon
<1> HIDE DEF e, i, hasTx
<1>6. e \in Epoch /\ e \in Nat /\ epoch \in Epoch
  BY <1>3, <1>4, <1>5, SMTT(30) DEF Epoch, FeesInv
<1>7. /\ blockFees' \in [Epoch -> Nat] /\ feeBlocks' \in [Epoch -> Nat]
      /\ blockFees'[e] = blockFees[e] + 1 /\ feeBlocks'[e] = feeBlocks[e] + 1
      /\ \A f \in Epoch : f # e => feeBlocks'[f] = feeBlocks[f] /\ blockFees'[f] \in {0, blockFees[f]}
  BY <1>3, <1>6, SMT DEF FeesInv
<1>8. /\ blockFees[e] = feeBlocks[e] /\ blockFees[e] \in Nat /\ paid[e] = 0
      /\ \A f \in Epoch : f > e => blockFees[f] = 0 /\ feeBlocks[f] = 0
      /\ \A f \in Epoch : f < e => paid[f] = feeBlocks[f]
      /\ \A f \in Epoch : f > e => paid[f] = 0
  BY <1>4, <1>5, <1>6, SMT DEF FeesInv, FeesArePaidOnce, Epoch
<1>9. /\ paid' \in [Epoch -> Nat]
      /\ \A f \in Epoch : f # e => paid'[f] = paid[f]
      /\ paid'[e] = IF i = L THEN feeBlocks'[e] ELSE 0
  BY <1>3, <1>6, <1>7, <1>8, SMT DEF FeesInv, FeesAtEnd
<1>10. FeesArePaidOnce'
  BY <1>3, <1>6, <1>7, <1>8, <1>9, SMTT(30) DEF FeesArePaidOnce, Epoch
<1>11. ASSUME NEW f \in Epoch, f > e PROVE blockFees'[f] = 0 /\ feeBlocks'[f] = 0
  <2>1. f # e
    BY <1>6, <1>11, SMT DEF Epoch
  <2> QED
    BY <1>7, <1>8, <1>11, <2>1, Zenon
<1>12. blockFees'[e] = feeBlocks'[e]
  BY <1>7, <1>8
<1> QED
  BY <1>3, <1>5, <1>6, <1>7, <1>9, <1>10, <1>11, <1>12, Zenon DEF FeesInv

\* When an epoch ends the fee of each of its blocks has been paid once, that of
\* the block that ends it included (getFeePayments, updateBlockFees), however few
\* blocks the epoch has.
THEOREM FeesPaidOnce == Spec => []FeesArePaidOnce
<1>1. ASSUME Init PROVE FeesInv
  BY <1>1, EpochAssumption, SMT DEF Init, FeesInv, FeesArePaidOnce, Epoch
<1>2. ASSUME FeesInv, UNCHANGED vars PROVE FeesInv'
  BY <1>2, Zenon DEF FeesInv, FeesArePaidOnce, vars, storage, history
<1>3. FeesInv => FeesArePaidOnce
  BY DEF FeesInv
<1> QED
  BY <1>1, <1>2, <1>3, FeesStep, PTL DEF Spec

----------------------------------------------------------------------------
(* The records a certificate needs *)

\* The records of the epochs that wait for a certificate are complete, and there
\* are none of later epochs.
RecordsInv ==
    /\ epoch \in Epoch /\ index \in 0 .. L
    /\ lastCertEpoch \in None .. epoch - 1
    /\ requests \in [Epoch -> Nat] /\ mined \in [Epoch -> Nat]
    /\ DOMAIN certifiersKeys = Epoch \cup {None}
    /\ \A e \in Epoch : e > epoch => requests[e] = 0 /\ mined[e] = 0
    /\ RecordsForCertificates

\* What a block removes is not of an epoch that waits for its certificate after
\* the block.
LEMMA RemovedRecordsAreOld ==
    ASSUME RecordsInv, NEW n \in 0 .. MaxRefs, NEW hasTx, ReferencesAllowed(n, hasTx),
           EpochAfter(n) \in Epoch, NEW c \in Certifiable(n) \cup {None},
           NEW e \in Epoch, e <= EpochAfter(n),
           IF nonCeasing THEN e > (IF c # None THEN c ELSE lastCertEpoch) ELSE e >= EpochAfter(n) - 1
    PROVE  /\ e \notin RequestsRemoved(n, c) /\ e \notin CertificatesRemoved(n, c)
           /\ e - 1 \notin CertificatesRemoved(n, c) \ {None}
<1> USE EpochAssumption
<1>1. epoch \in Nat /\ index \in 0 .. L /\ lastCertEpoch \in Int /\ e \in Nat
  BY SMT DEF RecordsInv, Epoch, None
<1>2. EpochAfter(n) \in Nat
  BY SMT DEF Epoch
<1>3. CASE nonCeasing
  <2>1. Superseded(c) = {} \/ (c \in Int /\ Superseded(c) = lastCertEpoch + 1 .. c - 1 /\ c < e)
    BY <1>1, <1>3, SMT DEF Superseded, Certifiable, Epoch, None
  <2>2. RequestsRemoved(n, c) = Superseded(c) /\ CertificatesRemoved(n, c) = Superseded(c)
    BY <1>3, Zenon DEF RequestsRemoved, CertificatesRemoved
  <2> QED
    BY <1>1, <2>1, <2>2, SMT
<1>4. CASE ~nonCeasing
  <2>1. RequestsRemoved(n, c) = Outdated(n) /\ CertificatesRemoved(n, c) = OutdatedCertificates(n)
    BY <1>4, Zenon DEF RequestsRemoved, CertificatesRemoved
  <2>2. Outdated(n) \subseteq {EpochAfter(n) - 2} /\ OutdatedCertificates(n) \subseteq {EpochAfter(n) - 4}
    BY Zenon DEF Outdated, OutdatedCertificates
  <2> QED
    BY <1>1, <1>2, <1>4, <2>1, <2>2, SMT
<1> QED
  BY <1>3, <1>4

\* A block keeps the records complete.
LEMMA RecordsStep ==
    ASSUME RecordsInv, Next
    PROVE  RecordsInv'
<1> USE EpochAssumption
<1>1. PICK n \in 0 .. MaxRefs, forward, plain \in BOOLEAN, w \in 0 .. MaxWBs, k \in Key \cup {None} :
          \E c \in Certifiable(n) \cup {None} : \E transfers :
              applyModifier(n, forward, w, plain, k, c, transfers)
  BY Zenon DEF Next
<1>2. PICK c \in Certifiable(n) \cup {None} : \E transfers :
          applyModifier(n, forward, w, plain, k, c, transfers)
  BY <1>1, Zenon
<1>3. PICK transfers : applyModifier(n, forward, w, plain, k, c, transfers)
  BY <1>2, Zenon
<1> DEFINE e == EpochAfter(n)
           i == IndexAfter(n)
           hasTx == w > 0 \/ plain \/ k # None
<1>4. /\ e <= MaxEpoch /\ ReferencesAllowed(n, hasTx)
      /\ i = L => certifiersKeys[e - 1] # None
      /\ epoch' = e /\ index' = i /\ nonCeasing' = nonCeasing
      /\ lastCertEpoch' = IF c # None THEN c ELSE lastCertEpoch
      /\ requests' = [f \in Epoch |-> IF f = e THEN requests[f] + w
                                      ELSE IF f \in RequestsRemoved(n, c) THEN 0 ELSE requests[f]]
      /\ mined' = [mined EXCEPT ![e] = @ + w]
      /\ certifiersKeys' = [f \in Epoch \cup {None} |->
                              IF f = e /\ i = L THEN KeysAtEnd(e)
                              ELSE IF f \in CertificatesRemoved(n, c) \ {None} THEN None
                              ELSE certifiersKeys[f]]
  BY <1>3, Zenon DEF applyModifier
<1>5. epoch \in Nat /\ index \in 0 .. L /\ w \in Nat /\ lastCertEpoch \in Int
  BY SMT DEF RecordsInv, Epoch, None
<1>6. /\ i \in 0 .. L
      /\ \/ e = epoch /\ index < L /\ i = index + n
         \/ e = epoch + 1 /\ index = L /\ i = n
  BY <1>4, <1>5, EpochStep, Zenon
<1>7. ASSUME NEW f \in Epoch, f <= e,
             IF nonCeasing THEN f > (IF c # None THEN c ELSE lastCertEpoch) ELSE f >= e - 1,
             e \in Epoch
      PROVE  /\ f \notin RequestsRemoved(n, c) /\ f \notin CertificatesRemoved(n, c)
             /\ f - 1 \notin CertificatesRemoved(n, c) \ {None}
  BY <1>4, <1>7, RemovedRecordsAreOld, Zenon
<1>8. c # None => c \in Epoch /\ c <= e - 1 /\ (nonCeasing => c > lastCertEpoch)
  BY SMT DEF Certifiable, Previous, Epoch
<1>9. KeysAtEnd(e) = IF rotationProof[e] # None THEN rotationProof[e] ELSE certifiersKeys[e - 1]
  BY DEF KeysAtEnd
<1> HIDE DEF e, i, hasTx
<1>10. e \in Epoch /\ e \in Nat /\ epoch \in Epoch
  BY <1>4, <1>5, <1>6, SMT DEF Epoch, RecordsInv
<1>11. /\ requests' \in [Epoch -> Nat] /\ mined' \in [Epoch -> Nat]
       /\ DOMAIN certifiersKeys' = Epoch \cup {None}
  BY <1>4, <1>5, <1>10, SMT DEF RecordsInv
<1>12. lastCertEpoch' \in None .. e - 1
  <2>1. lastCertEpoch \in None .. epoch - 1
    BY DEF RecordsInv
  <2>2. CASE c = None
    BY <1>4, <1>5, <1>6, <1>10, <2>1, <2>2, SMT DEF None
  <2>3. CASE c # None
    BY <1>4, <1>8, <1>10, <2>3, SMT DEF Epoch, None
  <2> QED
    BY <2>2, <2>3
<1>13. ASSUME NEW f \in Epoch, f > e PROVE requests'[f] = 0 /\ mined'[f] = 0
  <2>1. f # e /\ f > epoch
    BY <1>5, <1>6, <1>13, SMT DEF Epoch
  <2>2. mined'[f] = mined[f] /\ requests'[f] \in {0, requests[f]}
    BY <1>4, <1>10, <2>1, SMT DEF RecordsInv
  <2> QED
    BY <2>1, <2>2, SMT DEF RecordsInv
<1>14. ASSUME NEW f \in AwaitingCertificate'
       PROVE  /\ requests'[f] = mined'[f]
              /\ certifiersKeys'[f - 1] # None
              /\ f < e \/ i = L => certifiersKeys'[f] # None
  <2>1. /\ f \in Epoch /\ f <= e
        /\ IF nonCeasing THEN f > (IF c # None THEN c ELSE lastCertEpoch) ELSE f >= e - 1
    BY <1>4, Zenon DEF AwaitingCertificate
  <2>2. /\ f \notin RequestsRemoved(n, c) /\ f \notin CertificatesRemoved(n, c)
        /\ f - 1 \notin CertificatesRemoved(n, c) \ {None}
    BY <1>7, <1>10, <2>1, Zenon
  <2>3. f \in Nat /\ f - 1 \in Epoch \cup {None} /\ f - 1 # e
    BY <1>10, <2>1, SMT DEF Epoch, None
  <2>4. certifiersKeys'[f - 1] = certifiersKeys[f - 1]
    BY <1>4, <2>2, <2>3, Zenon
  <2>5. certifiersKeys'[f] = IF f = e /\ i = L THEN KeysAtEnd(e) ELSE certifiersKeys[f]
    BY <1>4, <2>1, <2>2, Zenon
  <2>6. requests'[f] = IF f = e THEN requests[f] + w ELSE requests[f]
    BY <1>4, <2>1, <2>2, Zenon
  <2>7. mined'[f] = IF f = e THEN mined[f] + w ELSE mined[f]
    BY <1>4, <2>1, SMT DEF RecordsInv
  <2>8. CASE f <= epoch
    <3>1. f \in AwaitingCertificate
      <4>1. nonCeasing => f > lastCertEpoch
        <5>1. CASE c = None
          BY <2>1, <5>1
        <5>2. CASE c # None
          <6>1. c \in Int /\ (nonCeasing => c > lastCertEpoch /\ f > c)
            BY <1>8, <2>1, <5>2, SMT DEF Epoch
          <6> QED
            BY <1>5, <2>3, <6>1, SMT
        <5> QED
          BY <5>1, <5>2
      <4>2. ~nonCeasing => f >= epoch - 1
        BY <1>5, <1>6, <2>1, <2>3, SMT
      <4> QED
        BY <2>1, <2>8, <4>1, <4>2, Zenon DEF AwaitingCertificate
    <3>2. /\ requests[f] = mined[f] /\ certifiersKeys[f - 1] # None
          /\ f < epoch \/ index = L => certifiersKeys[f] # None
      BY <3>1, Zenon DEF RecordsInv, RecordsForCertificates
    <3>3. f < e => f < epoch \/ index = L
      BY <1>5, <1>6, <2>3, <2>8, SMT
    <3>4. i = L /\ f # e => f < e
      BY <1>10, <2>1, <2>3, SMT
    <3>5. i = L => KeysAtEnd(e) # None
      BY <1>4, <1>9, Zenon
    <3>6. f < e => f # e
      BY <1>10, <2>3, SMT
    <3> QED
      BY <2>4, <2>5, <2>6, <2>7, <3>2, <3>3, <3>4, <3>5, <3>6, Zenon
  <2>9. CASE f > epoch
    <3>1. f = e /\ f - 1 = epoch /\ index = L
      BY <1>5, <1>6, <2>1, <2>3, <2>9, SMT
    <3>2. requests[f] = 0 /\ mined[f] = 0
      BY <2>1, <2>9, Zenon DEF RecordsInv
    <3>3. epoch \in AwaitingCertificate
      BY <1>5, <1>10, SMT DEF AwaitingCertificate, RecordsInv, None
    <3>4. certifiersKeys[epoch] # None
      BY <3>1, <3>3, Zenon DEF RecordsInv, RecordsForCertificates
    <3>5. i = L => KeysAtEnd(e) # None
      BY <1>4, <1>9, Zenon
    <3>6. ~(f < e)
      BY <1>10, <3>1, SMT
    <3> QED
      BY <2>4, <2>5, <2>6, <2>7, <3>1, <3>2, <3>4, <3>5, <3>6, Zenon
  <2> QED
    BY <1>5, <2>3, <2>8, <2>9, SMT
<1>15. RecordsForCertificates'
  BY <1>4, <1>14, Zenon DEF RecordsForCertificates
<1> QED
  BY <1>4, <1>6, <1>10, <1>11, <1>12, <1>13, <1>15, Zenon DEF RecordsInv

\* What a certificate is made of and compared with stays in the storage until the
\* certificate has come (SidechainStateStorage.update): the requests, and the keys
\* at the end of the epoch and of the one before.
THEOREM RecordsAreKept == Spec => []RecordsForCertificates
<1>1. ASSUME Init PROVE RecordsInv
  <2>1. /\ epoch = 0 /\ index = 1 /\ lastCertEpoch = None
        /\ requests = [e \in Epoch |-> 0] /\ mined = [e \in Epoch |-> 0]
        /\ certifiersKeys = [e \in Epoch \cup {None} |-> IF e = None THEN GenesisKey ELSE None]
    BY <1>1, Zenon DEF Init
  <2>2. epoch \in Epoch /\ index \in 0 .. L /\ lastCertEpoch \in None .. epoch - 1
    BY <2>1, EpochAssumption, SMT DEF Epoch, None
  <2>3. /\ requests \in [Epoch -> Nat] /\ mined \in [Epoch -> Nat]
        /\ \A e \in Epoch : requests[e] = 0 /\ mined[e] = 0
        /\ DOMAIN certifiersKeys = Epoch \cup {None}
    BY <2>1, SMT
  <2>4. \A e \in AwaitingCertificate : e = 0 /\ e \in Epoch
    BY <2>1, SMT DEF AwaitingCertificate, Epoch
  <2>5. index # L /\ ~(0 < epoch) /\ 0 - 1 = None
    BY <2>1, EpochAssumption, SMT DEF None
  <2>6. certifiersKeys[None] # None
    BY <2>1, EpochAssumption, Zenon
  <2>7. RecordsForCertificates
    BY <2>3, <2>4, <2>5, <2>6, Zenon DEF RecordsForCertificates
  <2> QED
    BY <2>2, <2>3, <2>7, Zenon DEF RecordsInv
<1>2. ASSUME RecordsInv, UNCHANGED vars PROVE RecordsInv'
  BY <1>2, Zenon DEF RecordsInv, RecordsForCertificates, AwaitingCertificate, vars, storage, history
<1>3. RecordsInv => RecordsForCertificates
  BY DEF RecordsInv
<1> QED
  BY <1>1, <1>2, <1>3, RecordsStep, PTL DEF Spec

----------------------------------------------------------------------------
(* The keys of the certifiers *)

\* The proof stored for the current epoch is its last rotation; an epoch that is
\* not over has no keys yet, and later ones have neither blocks nor rotations.
RotationInv ==
    /\ epoch \in Epoch /\ index \in 0 .. L
    /\ feeBlocks \in [Epoch -> Nat]
    /\ DOMAIN certifiersKeys = Epoch \cup {None} /\ DOMAIN rotationProof = Epoch /\ DOMAIN rotated = Epoch
    /\ rotationProof[epoch] = rotated[epoch]
    /\ \A e \in Epoch : e > epoch => feeBlocks[e] = 0 /\ rotationProof[e] = None /\ rotated[e] = None
    /\ \A e \in Epoch : e > epoch \/ (e = epoch /\ index < L) => certifiersKeys[e] = None
    /\ RotationsTakeEffect

\* The records of the epoch of a block are not among those the block removes.
LEMMA OwnRecordsStay ==
    ASSUME NEW n, epoch \in Nat, EpochAfter(n) \in Nat, NEW c \in Certifiable(n) \cup {None}
    PROVE  EpochAfter(n) \notin CertificatesRemoved(n, c)
<1>1. CASE nonCeasing
  <2>1. c # None => c \in Int /\ c <= EpochAfter(n) - 1
    BY <1>1, SMT DEF Certifiable, Previous, Epoch
  <2>2. EpochAfter(n) \notin Superseded(c)
    <3>1. CASE c = None
      BY <3>1, Zenon DEF Superseded
    <3>2. CASE c # None
      BY <2>1, <3>2, SMT DEF Superseded
    <3> QED
      BY <3>1, <3>2
  <2> QED
    BY <1>1, <2>2, Zenon DEF CertificatesRemoved
<1>2. CASE ~nonCeasing
  <2>1. CertificatesRemoved(n, c) \subseteq {EpochAfter(n) - 4}
    BY <1>2, Zenon DEF CertificatesRemoved, OutdatedCertificates
  <2> QED
    BY <2>1, SMT
<1> QED
  BY <1>1, <1>2

\* A block that ends an epoch of several blocks has no rotation of its own and
\* takes the last one of the epoch.
LEMMA RotationStep ==
    ASSUME RotationInv, Next
    PROVE  RotationInv'
<1> USE EpochAssumption
<1>1. PICK n \in 0 .. MaxRefs, forward, plain \in BOOLEAN, w \in 0 .. MaxWBs, k \in Key \cup {None} :
          \E c \in Certifiable(n) \cup {None} : \E transfers :
              applyModifier(n, forward, w, plain, k, c, transfers)
  BY Zenon DEF Next
<1>2. PICK c \in Certifiable(n) \cup {None} : \E transfers :
          applyModifier(n, forward, w, plain, k, c, transfers)
  BY <1>1, Zenon
<1>3. PICK transfers : applyModifier(n, forward, w, plain, k, c, transfers)
  BY <1>2, Zenon
<1> DEFINE e == EpochAfter(n)
           i == IndexAfter(n)
           hasTx == w > 0 \/ plain \/ k # None
           gone == CertificatesRemoved(n, c)
<1>4. /\ e <= MaxEpoch /\ ReferencesAllowed(n, hasTx)
      /\ epoch' = e /\ index' = i
      /\ feeBlocks' = [feeBlocks EXCEPT ![e] = @ + 1]
      /\ certifiersKeys' = [f \in Epoch \cup {None} |->
                              IF f = e /\ i = L THEN KeysAtEnd(e)
                              ELSE IF f \in gone \ {None} THEN None
                              ELSE certifiersKeys[f]]
      /\ rotationProof' = [f \in Epoch |-> IF f = e /\ k # None THEN k
                                           ELSE IF f \in gone THEN None
                                           ELSE rotationProof[f]]
      /\ rotated' = IF k # None THEN [rotated EXCEPT ![e] = k] ELSE rotated
  BY <1>3, Zenon DEF applyModifier
<1>5. epoch \in Nat /\ index \in 0 .. L
  BY SMT DEF RotationInv, Epoch
<1>6. /\ i \in 0 .. L
      /\ \/ e = epoch /\ index < L /\ i = index + n
         \/ e = epoch + 1 /\ index = L /\ i = n
  BY <1>4, <1>5, EpochStep, Zenon
<1>7. e = epoch /\ i = L => k = None
  BY <1>4, Zenon DEF ReferencesAllowed
<1>8. e \in Nat /\ e \in Epoch /\ epoch \in Epoch
  <2>1. e \in Nat /\ e <= MaxEpoch
    BY <1>4, <1>5, <1>6
  <2> QED
    BY <2>1 DEF RotationInv, Epoch
<1>9. e \notin gone
  BY <1>5, <1>8, OwnRecordsStay, Zenon
<1>10. KeysAtEnd(e) = IF rotationProof[e] # None THEN rotationProof[e] ELSE certifiersKeys[e - 1]
  BY DEF KeysAtEnd
<1> HIDE DEF e, i, hasTx, gone
<1>11. rotationProof[e] = rotated[e] /\ (e > epoch => feeBlocks[e] = 0 /\ rotated[e] = None)
  BY <1>5, <1>6, <1>8, SMT DEF RotationInv
<1>12. /\ feeBlocks' \in [Epoch -> Nat] /\ feeBlocks'[e] = feeBlocks[e] + 1
       /\ DOMAIN certifiersKeys' = Epoch \cup {None}
       /\ DOMAIN rotationProof' = Epoch /\ DOMAIN rotated' = Epoch
  BY <1>4, <1>8, SMT DEF RotationInv
<1>13. ASSUME NEW f \in Epoch, f # e
       PROVE  /\ feeBlocks'[f] = feeBlocks[f] /\ rotated'[f] = rotated[f]
              /\ rotationProof'[f] \in {None, rotationProof[f]}
              /\ certifiersKeys'[f] \in {None, certifiersKeys[f]}
  BY <1>4, <1>8, <1>13, SMT DEF RotationInv
<1>14. certifiersKeys'[None] = certifiersKeys[None]
  <2>1. None # e
    BY <1>8, SMT DEF None
  <2> QED
    BY <1>4, <2>1, Zenon
<1>15. /\ rotationProof'[e] = IF k # None THEN k ELSE rotationProof[e]
       /\ rotated'[e] = IF k # None THEN k ELSE rotated[e]
       /\ certifiersKeys'[e] = IF i = L THEN KeysAtEnd(e) ELSE certifiersKeys[e]
  BY <1>4, <1>8, <1>9, SMT DEF RotationInv
<1>16. ASSUME NEW f \in Epoch, f > e
       PROVE  feeBlocks'[f] = 0 /\ rotationProof'[f] = None /\ rotated'[f] = None
  <2>1. f # e /\ f > epoch
    BY <1>5, <1>6, <1>8, <1>16, SMT DEF Epoch
  <2> QED
    BY <1>13, <2>1, SMT DEF RotationInv
<1>17. certifiersKeys[e] = None
  <2>1. e > epoch \/ (e = epoch /\ index < L)
    BY <1>5, <1>6, SMT
  <2> QED
    BY <1>8, <2>1, Zenon DEF RotationInv
<1>18. ASSUME NEW f \in Epoch, f > e \/ (f = e /\ i < L) PROVE certifiersKeys'[f] = None
  <2>1. CASE f = e
    <3>1. i # L
      BY <1>6, <1>8, <1>18, <2>1, SMT
    <3> QED
      BY <1>15, <1>17, <2>1, <3>1
  <2>2. CASE f # e
    <3>1. f > epoch
      BY <1>5, <1>6, <1>18, <2>2, SMT DEF Epoch
    <3> QED
      BY <1>13, <2>2, <3>1, SMT DEF RotationInv
  <2> QED
    BY <2>1, <2>2
<1>19. \A f \in Epoch : f - 1 \in Epoch \cup {None}
  BY SMT DEF Epoch, None
<1>20. ASSUME NEW f \in Epoch PROVE f - 1 # e => certifiersKeys'[f - 1] \in {None, certifiersKeys[f - 1]}
  BY <1>13, <1>14, <1>19, Zenon
<1>21. ASSUME NEW f \in Epoch, feeBlocks'[f] > 1 PROVE KeysFollowRotations(f)'
  <2>1. CASE f = e
    <3>1. f - 1 # e
      BY <1>8, <2>1, SMT
    <3>2. ASSUME i = L PROVE k = None
      <4>1. CASE e = epoch
        BY <1>7, <3>2, <4>1
      <4>2. CASE e # epoch
        BY <1>5, <1>6, <1>11, <1>12, <1>21, <2>1, <4>2, SMT
      <4> QED
        BY <4>1, <4>2
    <3>3. CASE i # L
      BY <1>15, <1>17, <2>1, <3>3, Zenon DEF KeysFollowRotations
    <3>4. CASE i = L
      BY <1>10, <1>11, <1>15, <1>20, <2>1, <3>1, <3>2, <3>4, Zenon DEF KeysFollowRotations
    <3> QED
      BY <3>3, <3>4
  <2>2. CASE f # e
    <3>1. CASE f - 1 = e
      <4>1. f > e
        BY <1>8, <3>1, SMT DEF Epoch
      <4> QED
        BY <1>18, <4>1, Zenon DEF KeysFollowRotations
    <3>2. CASE f - 1 # e
      <4>1. KeysFollowRotations(f)
        BY <1>13, <1>21, <2>2, Zenon DEF RotationInv, RotationsTakeEffect
      <4> QED
        BY <1>13, <1>20, <2>2, <3>2, <4>1, Zenon DEF KeysFollowRotations
    <3> QED
      BY <3>1, <3>2
  <2> QED
    BY <2>1, <2>2
<1>22. RotationsTakeEffect'
  BY <1>21, Zenon DEF RotationsTakeEffect
<1>23. rotationProof'[e] = rotated'[e]
  BY <1>11, <1>15, SMT
<1> QED
  BY <1>4, <1>6, <1>8, <1>12, <1>16, <1>18, <1>22, <1>23, Zenon DEF RotationInv

\* The rotations of every epoch with two blocks or more are in the keys that are
\* stored at its end (applyChanges), although the proofs are read before the
\* block's own are written.
THEOREM RotationsAreApplied == Spec => []RotationsTakeEffect
<1>1. ASSUME Init PROVE RotationInv
  <2>1. /\ epoch = 0 /\ index = 1 /\ feeBlocks = [e \in Epoch |-> IF e = 0 THEN 1 ELSE 0]
        /\ certifiersKeys = [e \in Epoch \cup {None} |-> IF e = None THEN GenesisKey ELSE None]
        /\ rotationProof = [e \in Epoch |-> None] /\ rotated = [e \in Epoch |-> None]
    BY <1>1, Zenon DEF Init
  <2>2. epoch \in Epoch /\ index \in 0 .. L
    BY <2>1, EpochAssumption, SMT DEF Epoch
  <2>3. feeBlocks \in [Epoch -> Nat] /\ \A e \in Epoch : e > epoch => feeBlocks[e] = 0
    BY <2>1, SMT DEF Epoch
  <2>4. \A e \in Epoch : e # None /\ ~(feeBlocks[e] > 1)
    BY <2>1, SMT DEF Epoch, None
  <2>5. /\ DOMAIN certifiersKeys = Epoch \cup {None} /\ DOMAIN rotationProof = Epoch /\ DOMAIN rotated = Epoch
        /\ \A e \in Epoch : rotationProof[e] = None /\ rotated[e] = None /\ certifiersKeys[e] = None
    BY <2>1, <2>4, Zenon
  <2> QED
    BY <2>2, <2>3, <2>4, <2>5, Zenon DEF RotationInv, RotationsTakeEffect
<1>2. ASSUME RotationInv, UNCHANGED vars PROVE RotationInv'
  BY <1>2, Zenon DEF RotationInv, RotationsTakeEffect, KeysFollowRotations, vars, storage, history
<1>3. RotationInv => RotationsTakeEffect
  BY DEF RotationInv
<1> QED
  BY <1>1, <1>2, <1>3, RotationStep, PTL DEF Spec

=============================================================================
