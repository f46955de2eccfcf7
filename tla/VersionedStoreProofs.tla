----------------------- MODULE VersionedStoreProofs -----------------------
(***************************************************************************)
(* For every set of keys, values and versions and every keepVersions: the  *)
(* versions a storage lists can be rolled back to, and the change sets     *)
(* implement a stack of snapshots.                                         *)
(***************************************************************************)
EXTENDS VersionedStore, SequenceTheorems, WellFoundedInduction, TLAPS

\* The version list after an update: the new version, then the old list, cut
\* to keepVersions entries.
LEMMA KeptVersionsProperties ==
    ASSUME versions \in Seq(Version), NEW v \in Version
    PROVE  /\ KeptVersions(v) \in Seq(Version)
           /\ Len(KeptVersions(v)) =
                IF Len(versions) + 1 < Keep THEN Len(versions) + 1 ELSE Keep
           /\ \A i \in 1 .. Len(KeptVersions(v)) :
                 KeptVersions(v)[i] = IF i = 1 THEN v ELSE versions[i - 1]
<1> DEFINE all == <<v>> \o versions
           n == IF Len(all) < Keep THEN Len(all) ELSE Keep
<1>1. /\ all \in Seq(Version)
      /\ Len(all) = Len(versions) + 1
      /\ \A i \in 1 .. Len(all) : all[i] = IF i = 1 THEN v ELSE versions[i - 1]
  OBVIOUS
<1>2. /\ n \in Nat
      /\ n <= Len(all)
      /\ n = IF Len(versions) + 1 < Keep THEN Len(versions) + 1 ELSE Keep
  BY <1>1, KeepAssumption
<1>3. KeptVersions(v) = SubSeq(all, 1, n)
  BY DEF KeptVersions, Kept
<1> HIDE DEF all, n
<1>4. /\ SubSeq(all, 1, n) \in Seq(Version)
      /\ Len(SubSeq(all, 1, n)) = n
      /\ \A i \in 1 .. n : SubSeq(all, 1, n)[i] = all[i]
  <2>1. \A i \in 1 .. n : all[i] \in Version
    BY <1>1, <1>2
  <2>2. /\ SubSeq(all, 1, n) \in Seq(Version)
        /\ Len(SubSeq(all, 1, n)) = IF 1 <= n THEN n - 1 + 1 ELSE 0
        /\ \A i \in 1 .. n - 1 + 1 : SubSeq(all, 1, n)[i] = all[1 + i - 1]
    BY <1>2, <2>1, SubSeqProperties
  <2> QED
    BY <1>1, <1>2, <2>2
<1>5. Len(KeptVersions(v)) = n /\ KeptVersions(v) \in Seq(Version)
  BY <1>3, <1>4
<1>6. \A i \in 1 .. n : KeptVersions(v)[i] = IF i = 1 THEN v ELSE versions[i - 1]
  <2> TAKE i \in 1 .. n
  <2>1. i \in 1 .. Len(all)
    BY <1>1, <1>2
  <2> QED
    BY <1>1, <1>3, <1>4, <2>1
<1> QED
  BY <1>2, <1>5, <1>6

\* The version list after a rollback: the versions from the target on.
LEMMA RolledBackProperties ==
    ASSUME versions \in Seq(Version), NEW i \in 1 .. Len(versions)
    PROVE  LET older == SubSeq(versions, i, Len(versions))
           IN  /\ older \in Seq(Version)
               /\ Len(older) = Len(versions) - i + 1
               /\ \A j \in 1 .. Len(older) : older[j] = versions[i + j - 1]
<1>1. /\ SubSeq(versions, i, Len(versions)) \in Seq(Version)
      /\ Len(SubSeq(versions, i, Len(versions))) =
            IF i <= Len(versions) THEN Len(versions) - i + 1 ELSE 0
      /\ \A j \in 1 .. Len(versions) - i + 1 :
            SubSeq(versions, i, Len(versions))[j] = versions[i + j - 1]
  <2>1. /\ i \in Int
        /\ Len(versions) \in Int
        /\ \A j \in i .. Len(versions) : versions[j] \in Version
    OBVIOUS
  <2> QED
    BY <2>1, SubSeqProperties
<1> QED
  BY <1>1

\* The two facts above, for the steps that take them.
LEMMA VersionsAfterUpdate ==
    ASSUME TypeOK, NEW version \in Version, NEW toInsert, NEW toRemove,
           update(version, toInsert, toRemove)
    PROVE  /\ Len(versions) \in Nat
           /\ versions' \in Seq(Version)
           /\ Len(versions') =
                IF Len(versions) + 1 < Keep THEN Len(versions) + 1 ELSE Keep
           /\ \A i \in 1 .. Len(versions') :
                 versions'[i] = IF i = 1 THEN version ELSE versions[i - 1]
<1>1. versions' = KeptVersions(version)
  BY DEF update
<1>2. versions \in Seq(Version)
  BY DEF TypeOK
<1> QED
  BY <1>1, <1>2, KeptVersionsProperties

\* The same for a rollback.
LEMMA VersionsAfterRollback ==
    ASSUME TypeOK, NEW i \in 1 .. Len(versions), rollbackTo(i)
    PROVE  /\ Len(versions) \in Nat
           /\ versions' \in Seq(Version)
           /\ Len(versions') = Len(versions) - i + 1
           /\ \A j \in 1 .. Len(versions') : versions'[j] = versions[i + j - 1]
<1>1. versions' = SubSeq(versions, i, Len(versions))
  BY DEF rollbackTo
<1>2. versions \in Seq(Version)
  BY DEF TypeOK
<1> QED
  BY <1>1, <1>2, RolledBackProperties

\* The change set of an update records old values of data keys only.
LEMMA ChangeSetOfType ==
    ASSUME TypeOK, NEW toInsert \in Pairs, NEW toRemove \in SUBSET Key
    PROVE  ChangeSetOf(toInsert, toRemove) \in ChangeSet
<1>1. DOMAIN toInsert \in SUBSET Key
  BY DEF Pairs
<1>2. \A S \in SUBSET Key : [k \in Present(S) |-> store[k]] \in Pairs
  <2> TAKE S \in SUBSET Key
  <2>1. Present(S) \in SUBSET Key
    BY DEF Present
  <2>2. [k \in Present(S) |-> store[k]] \in [Present(S) -> Value]
    BY DEF Present, TypeOK
  <2> QED
    BY <2>1, <2>2 DEF Pairs
<1> QED
  BY <1>1, <1>2 DEF ChangeSetOf, ChangeSet

\* Undoing a change set yields a value or nothing.
LEMMA OldValueType ==
    ASSUME NEW c \in ChangeSet, NEW k \in Key
    PROVE  OldValue(c, k) \in Value \cup {Null}
<1>1. c.altered \in Pairs /\ c.removed \in Pairs
  BY DEF ChangeSet
<1>2. \A p \in Pairs : k \in DOMAIN p => p[k] \in Value
  BY DEF Pairs
<1> QED
  BY <1>1, <1>2 DEF OldValue

\* A non-empty set of positions has a last one.
LEMMA LastOfSet ==
    ASSUME NEW n \in Nat, NEW S \in SUBSET (1 .. n), S # {}
    PROVE  LastOf(S) \in S /\ \A l \in S : l <= LastOf(S)
<1> DEFINE T == {n - j : j \in S}
<1>0. \A j \in S : j \in Nat /\ j <= n /\ n - j \in Nat
  OBVIOUS
<1>1. T \subseteq Nat /\ T # {}
  BY <1>0, ZenonT(30)
<1>2. PICK x \in T : \A y \in T : ~ (<<y, x>> \in OpToRel(<, Nat))
  BY <1>1, NatLessThanWellFounded, WFMin, ZenonT(30)
<1>3. \A y \in T : x <= y
  <2> TAKE y \in T
  <2>1. x \in Nat /\ y \in Nat
    BY <1>1
  <2>2. ~ (y < x)
    BY <1>2, <2>1, ZenonT(30) DEF OpToRel
  <2> QED
    BY <2>1, <2>2
<1>4. PICK j \in S : x = n - j
  OBVIOUS
<1>5. \A l \in S : l <= j
  <2> TAKE l \in S
  <2>1. n - l \in T
    OBVIOUS
  <2>2. n - j <= n - l
    BY <1>3, <1>4, <2>1, ZenonT(30)
  <2> HIDE DEF T
  <2> QED
    BY <1>0, <2>2
<1> QED
  BY <1>5 DEF LastOf

-----------------------------------------------------------------------------

Inv == TypeOK /\ VersionsAreRevertible

\* The contents a rollback restores are contents of the storage.
LEMMA ContentsAtType ==
    ASSUME Inv, NEW i \in 1 .. Len(versions)
    PROVE  ContentsAt(i) \in [Key -> Value \cup {Null}]
<1> SUFFICES ASSUME NEW k \in Key, Writers(i, k) # {}
             PROVE  OldValue(changeSets[versions[LastOf(Writers(i, k))]], k)
                       \in Value \cup {Null}
  BY DEF ContentsAt, Inv, TypeOK
<1>1. LastOf(Writers(i, k)) \in Writers(i, k)
  <2>1. i - 1 \in Nat /\ Writers(i, k) \in SUBSET (1 .. (i - 1))
    BY DEF Writers, Inv, TypeOK
  <2> QED
    BY <2>1, LastOfSet, ZenonT(30)
<1>2. LastOf(Writers(i, k)) \in 1 .. Len(versions)
  BY <1>1 DEF Writers, Inv, TypeOK
<1>3. versions[LastOf(Writers(i, k))] \in DOMAIN changeSets
  BY <1>2 DEF Inv, VersionsAreRevertible, Listed
<1> QED
  BY <1>3, OldValueType DEF Inv, TypeOK

\* An empty database has no versions and no change sets.
LEMMA InitInv == Init => Inv
<1> SUFFICES ASSUME Init PROVE Inv
  OBVIOUS
<1>1. TypeOK
  BY DEF Init, TypeOK
<1>2. VersionsAreRevertible
  BY KeepAssumption DEF Init, VersionsAreRevertible, Listed
<1> QED
  BY <1>1, <1>2 DEF Inv

\* An update lists its version, stores its change set and drops the change
\* sets of the versions it no longer lists.
LEMMA UpdateInv ==
    ASSUME Inv, NEW version \in Version, NEW toInsert \in Pairs,
           NEW toRemove \in SUBSET Key, update(version, toInsert, toRemove)
    PROVE  Inv'
<1> USE DEF Inv
<1>1. /\ versions' \in Seq(Version)
      /\ Len(versions') = IF Len(versions) + 1 < Keep THEN Len(versions) + 1 ELSE Keep
      /\ \A i \in 1 .. Len(versions') :
            versions'[i] = IF i = 1 THEN version ELSE versions[i - 1]
  BY VersionsAfterUpdate
<1>2. TypeOK'
  <2>1. store' \in [Key -> Value \cup {Null}]
    BY DEF update, Written, TypeOK, Pairs
  <2>2. \A v \in DOMAIN changeSets' : v \in Version /\ changeSets'[v] \in ChangeSet
    BY ChangeSetOfType DEF update, TypeOK
  <2> QED
    BY <1>1, <2>1, <2>2 DEF TypeOK
<1>3. DOMAIN changeSets' = Listed'
  <2>1. DOMAIN changeSets' =
          (Listed \cup {version}) \ {versions[i] : i \in Keep .. Len(versions)}
    BY DEF update, VersionsAreRevertible
  <2>2. ASSUME NEW v \in DOMAIN changeSets' PROVE v \in Listed'
    <3>1. CASE v = version
      BY <1>1, <3>1, KeepAssumption DEF Listed, TypeOK
    <3>2. CASE v # version
      <4>1. PICK i \in 1 .. Len(versions) : v = versions[i]
        BY <2>1, <2>2, <3>2 DEF Listed
      <4>2. i < Keep
        BY <2>1, <2>2, <4>1, KeepAssumption DEF TypeOK
      <4>3. i + 1 \in 1 .. Len(versions') /\ versions'[i + 1] = v
        BY <1>1, <4>1, <4>2, KeepAssumption DEF TypeOK
      <4> QED
        BY <4>3 DEF Listed
    <3> QED
      BY <3>1, <3>2
  <2>3. ASSUME NEW i \in 1 .. Len(versions') PROVE versions'[i] \in DOMAIN changeSets'
    <3>1. CASE i = 1
      <4>1. versions'[i] = version
        BY <1>1, <2>3, <3>1
      <4>2. version \notin {versions[j] : j \in Keep .. Len(versions)}
        BY KeepAssumption DEF update, Listed, TypeOK
      <4> QED
        BY <2>1, <4>1, <4>2
    <3>2. CASE i # 1
      <4>1. /\ i - 1 \in 1 .. Len(versions)
            /\ versions'[i] = versions[i - 1]
            /\ i - 1 < Keep
        BY <1>1, <2>3, <3>2, KeepAssumption DEF TypeOK
      <4>2. \A j \in Keep .. Len(versions) : versions[j] # versions[i - 1]
        BY <4>1, KeepAssumption DEF VersionsAreRevertible, TypeOK
      <4> QED
        BY <2>1, <4>1, <4>2 DEF Listed
    <3> QED
      BY <3>1, <3>2
  <2> QED
    BY <2>2, <2>3, ZenonT(30) DEF Listed
<1>4. \A i, j \in 1 .. Len(versions') : versions'[i] = versions'[j] => i = j
  <2>1. \A i \in 1 .. Len(versions') :
           i # 1 => i - 1 \in 1 .. Len(versions) /\ versions'[i] \in Listed
    BY <1>1, KeepAssumption DEF TypeOK, Listed
  <2>2. version \notin Listed
    BY DEF update
  <2>3. SUFFICES ASSUME NEW i \in 1 .. Len(versions'), NEW j \in 1 .. Len(versions'),
                        versions'[i] = versions'[j]
                 PROVE  i = j
    OBVIOUS
  <2>4. CASE i = 1 \/ j = 1
    BY <1>1, <2>1, <2>2, <2>3, <2>4
  <2>5. CASE i # 1 /\ j # 1
    <3>1. versions[i - 1] = versions[j - 1]
      BY <1>1, <2>3, <2>5
    <3>2. i - 1 = j - 1
      BY <2>1, <2>5, <3>1 DEF VersionsAreRevertible
    <3> QED
      BY <1>1, <3>2
  <2> QED
    BY <2>4, <2>5
<1> QED
  BY <1>1, <1>2, <1>3, <1>4, KeepAssumption DEF VersionsAreRevertible, TypeOK

\* A rollback drops the versions above its target with their change sets.
LEMMA RollbackInv ==
    ASSUME Inv, NEW i \in 1 .. Len(versions), rollbackTo(i)
    PROVE  Inv'
<1> USE DEF Inv
<1>1. /\ versions' \in Seq(Version)
      /\ Len(versions') = Len(versions) - i + 1
      /\ \A j \in 1 .. Len(versions') : versions'[j] = versions[i + j - 1]
  BY VersionsAfterRollback, ZenonT(30)
<1>2. TypeOK'
  <2>1. store' \in [Key -> Value \cup {Null}]
    BY ContentsAtType DEF rollbackTo
  <2>2. \A v \in DOMAIN changeSets' : v \in Version /\ changeSets'[v] \in ChangeSet
    BY DEF rollbackTo, TypeOK
  <2> QED
    BY <1>1, <2>1, <2>2 DEF TypeOK
<1>3. DOMAIN changeSets' = Listed'
  <2>1. DOMAIN changeSets' = Listed \ {versions[j] : j \in 1 .. (i - 1)}
    BY DEF rollbackTo, VersionsAreRevertible
  <2>2. ASSUME NEW v \in DOMAIN changeSets' PROVE v \in Listed'
    <3>1. PICK j \in 1 .. Len(versions) : v = versions[j]
      BY <2>1, <2>2 DEF Listed
    <3>2. j >= i
      BY <2>1, <2>2, <3>1 DEF TypeOK
    <3>3. j - i + 1 \in 1 .. Len(versions') /\ versions'[j - i + 1] = v
      BY <1>1, <3>1, <3>2 DEF TypeOK
    <3> QED
      BY <3>3 DEF Listed
  <2>3. ASSUME NEW j \in 1 .. Len(versions') PROVE versions'[j] \in DOMAIN changeSets'
    <3>1. /\ i + j - 1 \in 1 .. Len(versions)
          /\ versions'[j] = versions[i + j - 1]
      BY <1>1, <2>3 DEF TypeOK
    <3>2. \A l \in 1 .. (i - 1) : versions[l] # versions[i + j - 1]
      <4> TAKE l \in 1 .. (i - 1)
      <4>1. l \in 1 .. Len(versions) /\ l # i + j - 1
        BY <3>1 DEF TypeOK
      <4>2. versions[l] = versions[i + j - 1] => l = i + j - 1
        BY <3>1, <4>1 DEF VersionsAreRevertible
      <4> QED
        BY <4>1, <4>2
    <3> QED
      BY <2>1, <3>1, <3>2 DEF Listed
  <2> QED
    BY <2>2, <2>3, ZenonT(30) DEF Listed
<1>4. \A j, l \in 1 .. Len(versions') : versions'[j] = versions'[l] => j = l
  <2> TAKE j, l \in 1 .. Len(versions')
  <2>1. /\ i + j - 1 \in 1 .. Len(versions)
        /\ i + l - 1 \in 1 .. Len(versions)
    BY <1>1 DEF TypeOK
  <2>2. versions[i + j - 1] = versions[i + l - 1] => i + j - 1 = i + l - 1
    BY <2>1, SMTT(30) DEF VersionsAreRevertible
  <2>3. versions'[j] = versions[i + j - 1] /\ versions'[l] = versions[i + l - 1]
    BY <1>1
  <2>4. i + j - 1 = i + l - 1 => j = l
    BY <1>1
  <2> QED
    BY <2>2, <2>3, <2>4
<1> QED
  BY <1>1, <1>2, <1>3, <1>4, KeepAssumption DEF VersionsAreRevertible, TypeOK

\* Every operation of the storage keeps the invariant.
LEMMA NextInv == Inv /\ [Next]_vars => Inv'
<1> SUFFICES ASSUME Inv, [Next]_vars PROVE Inv'
  OBVIOUS
<1>1. CASE \E version \in Version, toInsert \in Pairs, toRemove \in SUBSET Key :
              update(version, toInsert, toRemove)
  BY <1>1, UpdateInv
<1>2. CASE \E i \in 1 .. Len(versions) : rollbackTo(i)
  BY <1>2, RollbackInv
<1>3. CASE UNCHANGED vars
  BY <1>3 DEF vars, Inv, TypeOK, VersionsAreRevertible, Listed
<1> QED
  BY <1>1, <1>2, <1>3 DEF Next

\* update and rollbackTo keep the database well formed: old and restored
\* values are values, and only version ids carry a change set.
THEOREM TypeCorrect == Spec => []TypeOK
<1>1. Inv => TypeOK
  BY DEF Inv
<1> QED
  BY <1>1, InitInv, NextInv, PTL DEF Spec

\* After any sequence of updates and rollbacks, the listed versions are the
\* ones with a change set, each listed once and at most keepVersions of them:
\* rollbackTo never meets "Inconsistent versioned storage state" and update
\* never meets a leftover of a version that is no longer listed.
THEOREM Revertible == Spec => []VersionsAreRevertible
<1>1. Inv => VersionsAreRevertible
  BY DEF Inv
<1> QED
  BY <1>1, InitInv, NextInv, PTL DEF Spec

-----------------------------------------------------------------------------

\* LastOf is the only element with no larger one.
LEMMA LastOfIs ==
    ASSUME NEW n \in Nat, NEW S \in SUBSET (1 .. n), NEW m \in S,
           \A l \in S : l <= m
    PROVE  LastOf(S) = m
<1>1. LastOf(S) \in S /\ \A l \in S : l <= LastOf(S)
  BY LastOfSet
<1>2. LastOf(S) <= m /\ m <= LastOf(S)
  BY <1>1, ZenonT(30)
<1>3. \A x \in S : x \in Int
  OBVIOUS
<1>4. LastOf(S) \in Int /\ m \in Int
  BY <1>1, <1>3, ZenonT(30)
<1> QED
  BY <1>2, <1>4

\* What an update overwrites can be read back from its change set, and a key
\* outside its change set keeps its value.
LEMMA ChangeSetReverts ==
    ASSUME TypeOK, NEW toInsert \in Pairs, NEW toRemove \in SUBSET Key, NEW k \in Key
    PROVE  LET c == ChangeSetOf(toInsert, toRemove)
           IN  IF k \in Touched(c) THEN OldValue(c, k) = store[k]
               ELSE Written(toInsert, toRemove)[k] = store[k]
  BY DEF ChangeSetOf, Touched, OldValue, Written, Present, TypeOK

\* An update leaves the contents of every version it keeps as they were, one
\* position further down the list.
LEMMA UpdateKeepsContents ==
    ASSUME Inv, NEW version \in Version, NEW toInsert \in Pairs,
           NEW toRemove \in SUBSET Key, update(version, toInsert, toRemove),
           NEW i \in 1 .. Len(versions), i + 1 \in 1 .. Len(versions')
    PROVE  ContentsAt(i + 1)' = ContentsAt(i)
<1> DEFINE c == ChangeSetOf(toInsert, toRemove)
<1>1. /\ versions' \in Seq(Version)
      /\ Len(versions') = IF Len(versions) + 1 < Keep THEN Len(versions) + 1 ELSE Keep
      /\ \A j \in 1 .. Len(versions') :
            versions'[j] = IF j = 1 THEN version ELSE versions[j - 1]
  BY VersionsAfterUpdate DEF Inv
<1>2. Inv'
  BY UpdateInv
<1>3. changeSets'[versions'[1]] = c
  <2>1. version = versions'[1] /\ version \in DOMAIN changeSets'
    BY <1>1, <1>2 DEF Inv, VersionsAreRevertible, Listed, TypeOK
  <2> QED
    BY <2>1 DEF update
<1>4. \A j \in 1 .. i : changeSets'[versions'[j + 1]] = changeSets[versions[j]]
  <2> TAKE j \in 1 .. i
  <2>1. /\ j + 1 \in 1 .. Len(versions')
        /\ versions'[j + 1] = versions[j]
        /\ versions[j] \in Listed
    BY <1>1 DEF Listed, Inv, TypeOK
  <2>2. versions[j] \in DOMAIN changeSets' /\ versions[j] # version
    BY <1>2, <2>1, ZenonT(30) DEF Inv, VersionsAreRevertible, Listed, update
  <2> QED
    BY <2>1, <2>2 DEF update
<1> SUFFICES ASSUME NEW k \in Key
             PROVE  ContentsAt(i + 1)'[k] = ContentsAt(i)[k]
  BY DEF ContentsAt
<1> DEFINE new == Writers(i + 1, k)'
           old == Writers(i, k)
<1>5. /\ new \in SUBSET (1 .. i)
      /\ old \in SUBSET (1 .. (i - 1))
      /\ \A j \in 1 .. (i - 1) : j + 1 \in new <=> j \in old
      /\ 1 \in new <=> k \in Touched(c)
  <2>1. new = {j \in 1 .. i : k \in Touched(changeSets'[versions'[j]])}
    BY DEF Writers, Touched
  <2> QED
    BY <1>3, <1>4, <2>1 DEF Writers
<1>6. /\ ContentsAt(i + 1)'[k] = IF new = {} THEN store'[k]
                                  ELSE OldValue(changeSets'[versions'[LastOf(new)]], k)
      /\ ContentsAt(i)[k] = IF old = {} THEN store[k]
                            ELSE OldValue(changeSets[versions[LastOf(old)]], k)
  BY DEF ContentsAt, OldValue, LastOf
<1>7. CASE old # {}
  <2>1. LastOf(old) \in old /\ \A l \in old : l <= LastOf(old)
    BY <1>5, <1>7, LastOfSet, i - 1 \in Nat, ZenonT(30)
  <2>2. /\ LastOf(old) + 1 \in new
        /\ \A l \in new : l <= LastOf(old) + 1
    <3> HIDE DEF new, old
    <3>0. LastOf(old) \in Nat
      <4>1. \A x \in old : x \in Nat
        BY <1>5
      <4> QED
        BY <2>1, <4>1
    <3>1. LastOf(old) + 1 \in new
      BY <1>5, <2>1, ZenonT(30)
    <3>2. ASSUME NEW l \in new, l # 1 PROVE l <= LastOf(old) + 1
      <4>1. l - 1 \in 1 .. (i - 1) /\ (l - 1) + 1 = l
        BY <1>5, <3>2
      <4>2. l - 1 <= LastOf(old)
        BY <1>5, <2>1, <4>1
      <4> QED
        BY <3>0, <4>1, <4>2
    <3>3. 1 <= LastOf(old) + 1
      BY <3>0
    <3> QED
      BY <3>1, <3>2, <3>3
  <2>3. LastOf(new) = LastOf(old) + 1
    BY <1>5, <2>2, LastOfIs, i \in Nat, ZenonT(30)
  <2>4. changeSets'[versions'[LastOf(new)]] = changeSets[versions[LastOf(old)]]
    <3>1. LastOf(old) \in 1 .. i
      BY <1>5, <2>1
    <3> HIDE DEF new, old
    <3> QED
      BY <1>4, <2>3, <3>1
  <2>5. new # {}
    BY <2>2
  <2> HIDE DEF new, old
  <2> QED
    BY <1>6, <1>7, <2>4, <2>5
<1>8. CASE old = {} /\ k \in Touched(c)
  <2>1. new = {1}
    BY <1>5, <1>8
  <2>2. LastOf(new) = 1
    <3>1. 1 \in new /\ \A l \in new : l <= 1
      BY <2>1
    <3> HIDE DEF new
    <3> QED
      BY <1>5, <3>1, LastOfIs, i \in Nat, ZenonT(30)
  <2>3. OldValue(c, k) = store[k]
    BY <1>8, ChangeSetReverts DEF Inv
  <2>4. new # {}
    BY <2>1
  <2> HIDE DEF new, old, c
  <2> QED
    BY <1>3, <1>6, <1>8, <2>2, <2>3, <2>4
<1>9. CASE old = {} /\ k \notin Touched(c)
  <2>1. new = {}
    <3> HIDE DEF new, old, c
    <3> SUFFICES ASSUME NEW l \in new PROVE FALSE
      OBVIOUS
    <3>1. l \in 1 .. i /\ l # 1
      BY <1>5, <1>9
    <3>2. l - 1 \in 1 .. (i - 1) /\ (l - 1) + 1 = l
      BY <3>1
    <3> QED
      BY <1>5, <1>9, <3>2
  <2>2. store'[k] = store[k]
    BY <1>9, ChangeSetReverts DEF Inv, update
  <2> QED
    BY <1>6, <1>9, <2>1, <2>2
<1> QED
  BY <1>7, <1>8, <1>9

\* After a rollback to position i, the contents of a version further down are
\* what they were before it.
LEMMA RollbackKeepsContents ==
    ASSUME Inv, NEW i \in 1 .. Len(versions), rollbackTo(i),
           NEW j \in 1 .. Len(versions')
    PROVE  ContentsAt(j)' = ContentsAt(i + j - 1)
<1>1. /\ versions' \in Seq(Version)
      /\ Len(versions') = Len(versions) - i + 1
      /\ \A l \in 1 .. Len(versions') : versions'[l] = versions[i + l - 1]
  BY VersionsAfterRollback DEF Inv
<1>2. Inv'
  BY RollbackInv
<1>3. \A l \in 1 .. j : changeSets'[versions'[l]] = changeSets[versions[i + l - 1]]
  <2> SUFFICES ASSUME NEW l \in 1 .. j
               PROVE  changeSets'[versions'[l]] = changeSets[versions[i + l - 1]]
    BY Zenon
  <2>1. l \in 1 .. Len(versions') /\ versions'[l] = versions[i + l - 1]
    BY <1>1, SMTT(30) DEF Inv, TypeOK
  <2>2. versions'[l] \in DOMAIN changeSets'
    BY <1>2, <2>1 DEF Inv, VersionsAreRevertible, Listed
  <2> QED
    BY <2>1, <2>2 DEF rollbackTo
<1> SUFFICES ASSUME NEW k \in Key
             PROVE  ContentsAt(j)'[k] = ContentsAt(i + j - 1)[k]
  BY DEF ContentsAt
<1> DEFINE new == Writers(j, k)'
           old == Writers(i + j - 1, k)
           newer == Writers(i, k)
<1>4. i \in Nat /\ i >= 1 /\ j \in Nat /\ j >= 1 /\ i - 1 \in Nat /\ j - 1 \in Nat
  BY <1>1 DEF Inv, TypeOK
<1>5. /\ new \in SUBSET (1 .. (j - 1))
      /\ old \in SUBSET (1 .. (i + j - 2))
      /\ newer \in SUBSET (1 .. (i - 1))
      /\ \A l \in 1 .. (j - 1) : l \in new <=> i + l - 1 \in old
      /\ \A l \in 1 .. (i - 1) : l \in newer <=> l \in old
  <2>1. new = {l \in 1 .. (j - 1) : k \in Touched(changeSets'[versions'[l]])}
    BY DEF Writers, Touched
  <2>2. new = {l \in 1 .. (j - 1) : k \in Touched(changeSets[versions[i + l - 1]])}
    <3>1. \A l \in 1 .. (j - 1) : l \in 1 .. j
      BY <1>4
    <3> QED
      BY <1>3, <2>1, <3>1, Zenon
  <2>3. old = {l \in 1 .. (i + j - 2) : k \in Touched(changeSets[versions[l]])}
    <3>1. (i + j - 1) - 1 = i + j - 2
      BY <1>4
    <3> QED
      BY <3>1 DEF Writers
  <2>4. newer = {l \in 1 .. (i - 1) : k \in Touched(changeSets[versions[l]])}
    BY DEF Writers
  <2> HIDE DEF new, old, newer
  <2> QED
    BY <1>4, <2>2, <2>3, <2>4
<1>6. CASE new # {}
  <2> HIDE DEF new, old, newer
  <2>1. LastOf(new) \in new /\ \A l \in new : l <= LastOf(new)
    BY <1>4, <1>5, <1>6, LastOfSet, ZenonT(30)
  <2>2. LastOf(new) \in 1 .. (j - 1)
    <3>1. \A x \in new : x \in 1 .. (j - 1)
      BY <1>5
    <3> QED
      BY <2>1, <3>1
  <2>3. i + LastOf(new) - 1 \in old
    BY <1>5, <2>1, <2>2
  <2>4. \A l \in old : l <= i + LastOf(new) - 1
    <3> TAKE l \in old
    <3>1. l \in 1 .. (i + j - 2)
      BY <1>5
    <3>2. CASE l < i
      BY <1>4, <2>2, <3>1, <3>2
    <3>3. CASE l >= i
      <4>1. l - i + 1 \in 1 .. (j - 1) /\ i + (l - i + 1) - 1 = l
        BY <1>4, <3>1, <3>3
      <4>2. l - i + 1 \in new
        BY <1>5, <4>1
      <4>3. l - i + 1 <= LastOf(new)
        BY <2>1, <4>2
      <4> QED
        BY <1>4, <2>2, <3>1, <4>3
    <3> QED
      BY <1>4, <3>1, <3>2, <3>3
  <2>5. LastOf(old) = i + LastOf(new) - 1
    BY <1>4, <1>5, <2>3, <2>4, LastOfIs, i + j - 2 \in Nat, ZenonT(30)
  <2>6. changeSets'[versions'[LastOf(new)]] = changeSets[versions[LastOf(old)]]
    <3>1. LastOf(new) \in 1 .. j
      BY <1>4, <2>2
    <3> QED
      BY <1>3, <2>5, <3>1
  <2>7. /\ ContentsAt(j)'[k] = IF new = {} THEN store'[k]
                              ELSE OldValue(changeSets'[versions'[LastOf(new)]], k)
        /\ ContentsAt(i + j - 1)[k] = IF old = {} THEN store[k]
                                     ELSE OldValue(changeSets[versions[LastOf(old)]], k)
    BY DEF ContentsAt, OldValue, LastOf, new, old
  <2> QED
    BY <1>6, <2>3, <2>6, <2>7
<1>7. CASE new = {}
  <2>1. old = newer
    <3> HIDE DEF new, old, newer
    <3>1. ASSUME NEW l \in old PROVE l \in newer
      <4>1. l \in 1 .. (i + j - 2)
        BY <1>5
      <4>2. l < i
        <5> SUFFICES ASSUME l >= i PROVE FALSE
          BY <1>4, <4>1
        <5>1. l - i + 1 \in 1 .. (j - 1) /\ i + (l - i + 1) - 1 = l
          BY <1>4, <4>1
        <5> QED
          BY <1>5, <1>7, <5>1, ZenonT(30)
      <4> QED
        BY <1>4, <1>5, <4>1, <4>2
    <3>2. ASSUME NEW l \in newer PROVE l \in old
      <4>1. l \in 1 .. (i - 1)
        BY <1>5
      <4> QED
        BY <1>5, <4>1
    <3> QED
      BY <3>1, <3>2, ZenonT(30)
  <2>2. ContentsAt(i + j - 1)[k] = ContentsAt(i)[k]
    BY <2>1 DEF ContentsAt
  <2>3. ContentsAt(j)'[k] = store'[k]
    BY <1>7 DEF ContentsAt
  <2> QED
    BY <2>2, <2>3 DEF rollbackTo
<1> QED
  BY <1>6, <1>7

-----------------------------------------------------------------------------

Snapshot == [version : Version, contents : Abstract!Contents]

SnapshotsMatch ==
    /\ Snapshots \in Seq(Snapshot)
    /\ Len(Snapshots) = Len(versions)
    /\ \A i \in 1 .. Len(versions) :
          Snapshots[i] = [version |-> versions[i], contents |-> ContentsAt(i)]

\* The change sets stand for a sequence of snapshots, one for each version.
LEMMA SnapshotsProperties == Inv => SnapshotsMatch
<1> SUFFICES ASSUME Inv PROVE SnapshotsMatch
  OBVIOUS
<1>1. Len(versions) \in Nat
  BY DEF Inv, TypeOK
<1>2. \A i \in 1 .. Len(versions) :
         [version |-> versions[i], contents |-> ContentsAt(i)] \in Snapshot
  <2> TAKE i \in 1 .. Len(versions)
  <2>1. versions[i] \in Version
    BY DEF Inv, TypeOK
  <2>2. ContentsAt(i) \in Abstract!Contents
    BY ContentsAtType DEF Abstract!Contents
  <2> QED
    BY <2>1, <2>2 DEF Snapshot
<1>3. Snapshots \in [1 .. Len(versions) -> Snapshot]
  BY <1>2 DEF Snapshots
<1> HIDE DEF Snapshot
<1>4. Snapshots \in Seq(Snapshot) /\ Len(Snapshots) = Len(versions)
  BY <1>1, <1>3
<1> QED
  BY <1>4 DEF Snapshots, SnapshotsMatch

\* An update pushes a snapshot of the new contents and drops the oldest.
LEMMA UpdatePushes ==
    ASSUME Inv, NEW version \in Version, NEW toInsert \in Pairs,
           NEW toRemove \in SUBSET Key, update(version, toInsert, toRemove)
    PROVE  Abstract!Update(version, Written(toInsert, toRemove))
<1> DEFINE s == [version |-> version, contents |-> Written(toInsert, toRemove)]
           all == <<s>> \o Snapshots
           n == IF Len(all) < Keep THEN Len(all) ELSE Keep
<1>1. Inv'
  BY UpdateInv
<1>2. /\ Len(versions) \in Nat
      /\ Len(versions') = IF Len(versions) + 1 < Keep THEN Len(versions) + 1 ELSE Keep
      /\ \A j \in 1 .. Len(versions') :
            versions'[j] = IF j = 1 THEN version ELSE versions[j - 1]
  BY VersionsAfterUpdate DEF Inv
<1>3. s \in Snapshot
  BY <1>1 DEF Snapshot, update, Inv, TypeOK, Abstract!Contents
<1>4. /\ Snapshots \in Seq(Snapshot)
      /\ Len(Snapshots) = Len(versions)
      /\ \A i \in 1 .. Len(versions) :
            Snapshots[i] = [version |-> versions[i], contents |-> ContentsAt(i)]
  BY SnapshotsProperties, SMTT(30) DEF SnapshotsMatch
<1>5. /\ Snapshots' \in Seq(Snapshot)
      /\ Len(Snapshots') = Len(versions')
      /\ \A i \in 1 .. Len(versions') :
            Snapshots'[i] = [version |-> versions'[i], contents |-> ContentsAt(i)']
  <2>1. SnapshotsMatch'
    BY <1>1, SnapshotsProperties, PTL
  <2> QED
    BY <2>1 DEF SnapshotsMatch, Snapshot, Abstract!Contents
<1>6. ~Abstract!HasVersion(version)
  <2>1. \A i \in 1 .. Len(Snapshots) : Snapshots[i].version \in Listed
    <3> TAKE i \in 1 .. Len(Snapshots)
    <3>1. i \in 1 .. Len(versions)
      BY <1>4
    <3>2. Snapshots[i] = [version |-> versions[i], contents |-> ContentsAt(i)]
      BY <1>4, <3>1
    <3>3. Snapshots[i].version = versions[i]
      BY <3>2
    <3> QED
      BY <3>1, <3>3 DEF Listed
  <2>2. version \notin Listed
    BY DEF update
  <2> QED
    BY <2>1, <2>2 DEF Abstract!HasVersion
<1>7. Snapshots' = Abstract!Kept(all)
  <2>1. /\ all \in Seq(Snapshot)
        /\ Len(all) = Len(versions) + 1
        /\ \A i \in 1 .. Len(all) : all[i] = IF i = 1 THEN s ELSE Snapshots[i - 1]
    <3> HIDE DEF s, Snapshot
    <3> QED
      BY <1>3, <1>4
  <2>2. n \in Nat /\ n = Len(versions') /\ n <= Len(all)
    BY <1>2, <2>1, KeepAssumption
  <2>3. Abstract!Kept(all) = SubSeq(all, 1, n)
    BY DEF Abstract!Kept
  <2> HIDE DEF all, n
  <2>4. /\ SubSeq(all, 1, n) \in Seq(Snapshot)
        /\ Len(SubSeq(all, 1, n)) = n
        /\ \A i \in 1 .. n : SubSeq(all, 1, n)[i] = all[i]
    <3> HIDE DEF Snapshot, s
    <3>1. \A i \in 1 .. n : all[i] \in Snapshot
      BY <2>1, <2>2
    <3>2. /\ SubSeq(all, 1, n) \in Seq(Snapshot)
          /\ Len(SubSeq(all, 1, n)) = IF 1 <= n THEN n - 1 + 1 ELSE 0
          /\ \A i \in 1 .. n - 1 + 1 : SubSeq(all, 1, n)[i] = all[1 + i - 1]
      BY <2>2, <3>1, SubSeqProperties
    <3> QED
      BY <2>1, <2>2, <3>2
  <2>5. \A i \in 1 .. n : Snapshots'[i] = all[i]
    <3> TAKE i \in 1 .. n
    <3>1. CASE i = 1
      <4>1. ContentsAt(1)' = store'
        BY <1>1 DEF ContentsAt, Writers, Inv, TypeOK
      <4> QED
        BY <1>2, <1>5, <2>1, <2>2, <3>1, <4>1, SMTT(30) DEF update
    <3>2. CASE i # 1
      <4>1. /\ i - 1 \in 1 .. Len(versions)
            /\ (i - 1) + 1 = i
            /\ (i - 1) + 1 \in 1 .. Len(versions')
        BY <1>2, <2>1, <2>2, <3>2
      <4>2. ContentsAt((i - 1) + 1)' = ContentsAt(i - 1)
        BY <4>1, UpdateKeepsContents
      <4>3. ContentsAt(i)' = ContentsAt(i - 1)
        BY <4>1, <4>2
      <4>4. versions'[i] = versions[i - 1] /\ all[i] = Snapshots[i - 1]
        BY <1>2, <2>1, <2>2, <3>2
      <4> QED
        BY <1>4, <1>5, <2>2, <4>1, <4>3, <4>4, ZenonT(30)
    <3> QED
      BY <3>1, <3>2
  <2> HIDE DEF Snapshot
  <2> QED
    BY <1>5, <2>2, <2>3, <2>4, <2>5, SeqEqual
<1> QED
  BY <1>6, <1>7 DEF Abstract!Update, update

\* A rollback pops the snapshots above its target.
LEMMA RollbackPops ==
    ASSUME Inv, NEW i \in 1 .. Len(versions), rollbackTo(i)
    PROVE  Abstract!Rollback(i)
<1> DEFINE older == SubSeq(Snapshots, i, Len(Snapshots))
<1>1. Inv'
  BY RollbackInv
<1>2. /\ Len(versions) \in Nat
      /\ Len(versions') = Len(versions) - i + 1
      /\ \A j \in 1 .. Len(versions') : versions'[j] = versions[i + j - 1]
  BY VersionsAfterRollback DEF Inv
<1>3. /\ Snapshots \in Seq(Snapshot)
      /\ Len(Snapshots) = Len(versions)
      /\ \A j \in 1 .. Len(versions) :
            Snapshots[j] = [version |-> versions[j], contents |-> ContentsAt(j)]
  BY SnapshotsProperties DEF SnapshotsMatch
<1>4. /\ Snapshots' \in Seq(Snapshot)
      /\ Len(Snapshots') = Len(versions')
      /\ \A j \in 1 .. Len(versions') :
            Snapshots'[j] = [version |-> versions'[j], contents |-> ContentsAt(j)']
  <2>1. SnapshotsMatch'
    BY <1>1, SnapshotsProperties, PTL
  <2> QED
    BY <2>1 DEF SnapshotsMatch, Snapshot, Abstract!Contents
<1>5. store' = Snapshots[i].contents
  <2>1. Snapshots[i] = [version |-> versions[i], contents |-> ContentsAt(i)]
    BY <1>3
  <2>2. Snapshots[i].contents = ContentsAt(i)
    BY <2>1
  <2> QED
    BY <2>2 DEF rollbackTo
<1>6. Snapshots' = older
  <2>1. /\ older \in Seq(Snapshot)
        /\ Len(older) = Len(versions')
        /\ \A j \in 1 .. Len(versions') : older[j] = Snapshots[i + j - 1]
    <3> HIDE DEF Snapshot
    <3>1. \A j \in i .. Len(Snapshots) : Snapshots[j] \in Snapshot
      BY <1>2, <1>3
    <3>2. /\ older \in Seq(Snapshot)
          /\ Len(older) = IF i <= Len(Snapshots) THEN Len(Snapshots) - i + 1 ELSE 0
          /\ \A j \in 1 .. Len(Snapshots) - i + 1 : older[j] = Snapshots[i + j - 1]
      BY <1>2, <1>3, <3>1, SubSeqProperties, i \in Int, Len(Snapshots) \in Int
    <3> HIDE DEF older
    <3> QED
      BY <1>2, <1>3, <3>2
  <2> HIDE DEF older
  <2>2. \A j \in 1 .. Len(versions') : Snapshots'[j] = older[j]
    <3> TAKE j \in 1 .. Len(versions')
    <3>1. ContentsAt(j)' = ContentsAt(i + j - 1)
      BY RollbackKeepsContents
    <3>2. i + j - 1 \in 1 .. Len(versions)
      BY <1>2
    <3> QED
      BY <1>2, <1>3, <1>4, <2>1, <3>1, <3>2, ZenonT(30)
  <2> HIDE DEF Snapshot
  <2> QED
    BY <1>4, <2>1, <2>2, SeqEqual
<1> QED
  BY <1>5, <1>6 DEF Abstract!Rollback

\* The LevelDB wrapper implements the stack of snapshots: every update pushes
\* the contents it wrote and every rollback restores, key by key, the contents
\* of the version it names.
THEOREM Refinement == Spec => ImplementsSnapshots
<1>1. Init => Abstract!Init
  <2> SUFFICES ASSUME Init PROVE Abstract!Init
    OBVIOUS
  <2>1. Snapshots = << >>
    <3>1. Inv
      BY InitInv
    <3>2. Snapshots \in Seq(Snapshot) /\ Len(Snapshots) = 0
      BY <3>1, SnapshotsProperties DEF SnapshotsMatch, Init
    <3> HIDE DEF Snapshot
    <3> QED
      BY <3>2, EmptySeq
  <2> QED
    BY <2>1 DEF Init, Abstract!Init
<1>2. Inv /\ [Next]_vars => [Abstract!Next]_(Abstract!vars)
  <2> SUFFICES ASSUME Inv, [Next]_vars PROVE [Abstract!Next]_(Abstract!vars)
    OBVIOUS
  <2>1. CASE \E version \in Version, toInsert \in Pairs, toRemove \in SUBSET Key :
                update(version, toInsert, toRemove)
    <3>1. PICK version \in Version, toInsert \in Pairs, toRemove \in SUBSET Key :
                update(version, toInsert, toRemove)
      BY <2>1
    <3>2. Abstract!Update(version, Written(toInsert, toRemove))
      BY <3>1, UpdatePushes
    <3>3. Written(toInsert, toRemove) \in Abstract!Contents
      BY <3>1 DEF Written, Inv, TypeOK, Pairs, Abstract!Contents
    <3> QED
      BY <3>2, <3>3 DEF Abstract!Next
  <2>2. CASE \E i \in 1 .. Len(versions) : rollbackTo(i)
    <3>1. PICK i \in 1 .. Len(versions) : rollbackTo(i)
      BY <2>2
    <3>2. Abstract!Rollback(i)
      BY <3>1, RollbackPops
    <3>3. i \in 1 .. Len(Snapshots)
      BY SnapshotsProperties DEF SnapshotsMatch
    <3> QED
      BY <3>2, <3>3 DEF Abstract!Next
  <2>3. CASE UNCHANGED vars
    BY <2>3 DEF vars, Abstract!vars, Snapshots, ContentsAt, Writers, LastOf, OldValue, Touched
  <2> QED
    BY <2>1, <2>2, <2>3 DEF Next
<1> QED
  BY <1>1, <1>2, InitInv, NextInv, PTL DEF Spec, ImplementsSnapshots, Abstract!Spec
=============================================================================
