\* One version id more than the storage keeps, so that versions are dropped and
\* their ids used again, and deep enough that a rollback reverts several change
\* sets of the same key.  Keys do not interact: one key with two values is enough.
CONSTANTS
    Key = {k1}
    Value = {a, b}
    Null = null
    Version = {v1, v2, v3, v4}
    Keep = 3
SPECIFICATION Spec
INVARIANTS
    VersionsAreRevertible
PROPERTIES
    ImplementsSnapshots
