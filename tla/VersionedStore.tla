-------------------------- MODULE VersionedStore --------------------------
(***************************************************************************)
(* VersionedLDBKVStore behind VersionedLevelDbStorageAdapter, the storage  *)
(* under every state, wallet and history store of the node.  The data and  *)
(* the version list live in one LevelDB key space; each version keeps a     *)
(* change set with what it overwrote, and a rollback reverts the change     *)
(* sets of the newer versions in one write batch.  Every operation ends in *)
(* a single db.write(batch), so it is one step.                            *)
(***************************************************************************)
EXTENDS Naturals, Sequences

CONSTANTS
    Key,        \* data keys
    Value,      \* data values
    Null,       \* what db.get returns for an absent key
    Version,    \* version ids, apart from the data keys (hashes of block ids)
    Keep        \* keepVersions

ASSUME KeepAssumption == Keep \in Nat \ {0}
ASSUME NullAssumption == Null \notin Value

VARIABLES
    store,      \* the data keys of the database
    versions,   \* the list under VersionsKey, newest first
    changeSets  \* version id -> the change set stored under it

vars == <<store, versions, changeSets>>

Listed == {versions[i] : i \in 1 .. Len(versions)}

\* Partial maps: the key-value pairs of one update, with no duplicate key.
Pairs == UNION {[S -> Value] : S \in SUBSET Key}

ChangeSet == [insertedKeys : SUBSET Key, removed : Pairs, altered : Pairs]

Present(keys) == {k \in keys : store[k] # Null}

\* Mutant of ChangeSetOf: the removed pairs are not remembered.
ChangeSetWithoutRemoved(toInsert, toRemove) ==
    [insertedKeys |-> DOMAIN toInsert \ Present(DOMAIN toInsert),
     removed      |-> << >>,
     altered      |-> [k \in Present(DOMAIN toInsert) |-> store[k]]]

\* The old value of every key an update touches, read before the batch.
ChangeSetOf(toInsert, toRemove) ==
    [insertedKeys |-> DOMAIN toInsert \ Present(DOMAIN toInsert),
     removed      |-> [k \in Present(toRemove) |-> store[k]],
     altered      |-> [k \in Present(DOMAIN toInsert) |-> store[k]]]

Touched(c) == c.insertedKeys \cup DOMAIN c.removed \cup DOMAIN c.altered

\* Reverting a change set deletes what was inserted, then puts the removed
\* and the altered pairs back: the last write to a key in the batch wins.
OldValue(c, k) ==
    IF k \in DOMAIN c.altered THEN c.altered[k]
    ELSE IF k \in DOMAIN c.removed THEN c.removed[k]
    ELSE Null

\* The positions before i whose change set writes k, newest version first.
Writers(i, k) == {j \in 1 .. (i - 1) : k \in Touched(changeSets[versions[j]])}

LastOf(S) == CHOOSE j \in S : \A l \in S : l <= j

\* The contents once the change sets of positions 1 .. i-1 are reverted in
\* that order within one batch.
ContentsAt(i) ==
    [k \in Key |-> IF Writers(i, k) = {} THEN store[k]
                   ELSE OldValue(changeSets[versions[LastOf(Writers(i, k))]], k)]

Init ==
    /\ store = [k \in Key |-> Null]
    /\ versions = << >>
    /\ changeSets = << >>

Kept(s) == SubSeq(s, 1, IF Len(s) < Keep THEN Len(s) ELSE Keep)

\* Mutant of KeptVersions: the oldest version stays listed, one too many.
KeptVersionsOffByOne(version) ==
    LET all == <<version>> \o versions
    IN SubSeq(all, 1, IF Len(all) < Keep + 1 THEN Len(all) ELSE Keep + 1)

KeptVersions(version) == Kept(<<version>> \o versions)

\* toRemove is deleted after toInsert is put, so it wins on a common key.
Written(toInsert, toRemove) ==
    [k \in Key |-> IF k \in toRemove THEN Null
                   ELSE IF k \in DOMAIN toInsert THEN toInsert[k]
                   ELSE store[k]]

update(version, toInsert, toRemove) ==
    /\ version \notin Listed
    /\ version \notin DOMAIN changeSets
    /\ store' = Written(toInsert, toRemove)
    /\ versions' = KeptVersions(version)
    /\ changeSets' =
         [v \in (DOMAIN changeSets \cup {version})
                  \ {versions[i] : i \in Keep .. Len(versions)} |->
            IF v = version THEN ChangeSetOf(toInsert, toRemove) ELSE changeSets[v]]

\* Roll back to the version at position i; a version not listed throws.
rollbackTo(i) ==
    /\ \A j \in 1 .. (i - 1) : versions[j] \in DOMAIN changeSets
    /\ store' = ContentsAt(i)
    /\ versions' = SubSeq(versions, i, Len(versions))
    /\ changeSets' =
         [v \in DOMAIN changeSets \ {versions[j] : j \in 1 .. (i - 1)} |-> changeSets[v]]

Next ==
    \/ \E version \in Version, toInsert \in Pairs, toRemove \in SUBSET Key :
          update(version, toInsert, toRemove)
    \/ \E i \in 1 .. Len(versions) : rollbackTo(i)

Spec == Init /\ [][Next]_vars

-----------------------------------------------------------------------------

\* The database holds a value or nothing under each data key, a list of
\* version ids, and a change set under the version ids it knows.
TypeOK ==
    /\ store \in [Key -> Value \cup {Null}]
    /\ versions \in Seq(Version)
    /\ DOMAIN changeSets \subseteq Version
    /\ \A v \in DOMAIN changeSets : changeSets[v] \in ChangeSet

\* Every version still listed can be rolled back to: it is listed once, its
\* change set is there, at most keepVersions are listed, and no change set
\* outlives its version (a leftover one would make the version id unusable
\* for the next update, "Version id is already used").
VersionsAreRevertible ==
    /\ DOMAIN changeSets = Listed
    /\ \A i, j \in 1 .. Len(versions) : versions[i] = versions[j] => i = j
    /\ Len(versions) <= Keep

\* The stack of snapshots the change sets stand for.
Snapshots ==
    [i \in 1 .. Len(versions) |->
        [version |-> versions[i], contents |-> ContentsAt(i)]]

Abstract == INSTANCE SnapshotStore WITH current <- store, snapshots <- Snapshots

\* update and rollbackTo do to the data what pushing and popping whole
\* snapshots would do: rolling back to a version restores exactly the
\* contents there were when it was written, whatever was inserted, altered
\* or removed since, and whichever older versions were dropped.
ImplementsSnapshots == Abstract!Spec
=============================================================================
