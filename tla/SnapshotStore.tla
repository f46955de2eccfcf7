--------------------------- MODULE SnapshotStore ---------------------------
(***************************************************************************)
(* What a versioned storage promises to the node: a stack of snapshots,   *)
(* newest first.  An update pushes the new contents under its version and  *)
(* forgets what is older than the Keep newest versions; a rollback pops    *)
(* down to the version asked for and makes its contents current again.     *)
(* This is the contract of io.horizen.storage.Storage that the state, the  *)
(* wallet and the history rely on; VersionedStore shows how the LevelDB    *)
(* wrapper keeps it with one key space and per-version change sets.        *)
(***************************************************************************)
EXTENDS Naturals, Sequences

CONSTANTS
    Key,        \* the keys of the storage
    Value,      \* the values it may hold
    Null,       \* "no value under this key"
    Version,    \* version ids
    Keep        \* how many versions stay available for a rollback

VARIABLES
    current,    \* [Key -> Value \cup {Null}], what a read returns
    snapshots   \* Seq([version, contents]), newest first

vars == <<current, snapshots>>

Contents == [Key -> Value \cup {Null}]

Init ==
    /\ current = [k \in Key |-> Null]
    /\ snapshots = << >>

HasVersion(v) == \E i \in 1 .. Len(snapshots) : snapshots[i].version = v

\* What survives of a list of versions once it is cut to the Keep newest.
Kept(s) == SubSeq(s, 1, IF Len(s) < Keep THEN Len(s) ELSE Keep)

Update(v, contents) ==
    /\ ~HasVersion(v)
    /\ current' = contents
    /\ snapshots' = Kept(<<[version |-> v, contents |-> contents]>> \o snapshots)

Rollback(i) ==
    /\ current' = snapshots[i].contents
    /\ snapshots' = SubSeq(snapshots, i, Len(snapshots))

Next ==
    \/ \E v \in Version, contents \in Contents : Update(v, contents)
    \/ \E i \in 1 .. Len(snapshots) : Rollback(i)

Spec == Init /\ [][Next]_vars
=============================================================================
