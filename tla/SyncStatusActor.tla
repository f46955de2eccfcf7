--------------------------- MODULE SyncStatusActor ---------------------------
(***************************************************************************)
(* The actor that tells clients whether the node is catching up            *)
(* (SyncStatusActor).  It sees the blocks the node view holder has applied *)
(* and a timer, keeps the height of the chain by itself, and takes a node  *)
(* for syncing that applies many blocks between two ticks of the timer.    *)
(***************************************************************************)
EXTENDS BlockTree, FiniteSets

CONSTANTS
    StandardRate,       \* getStandardBlockRate
    Timeouts,           \* whether the height may not be answered in time
    MaxSwitches,        \* bound: blocks that do not extend the last one
    MaxEvents           \* bound: blocks

ASSUME SyncAssumption ==
    /\ StandardRate \in Nat /\ Timeouts \in BOOLEAN
    /\ MaxSwitches \in Nat /\ MaxEvents \in Nat

VARIABLES
    tip,            \* the last block applied by the node view holder
    isSyncing,
    isSyncStartEventSent,
    startingBlock,
    appliedBlocksNumber,
    prevAppliedBlocksNumber,
    currentBlock,
    lastAppliedBlockIds,    \* newest first
    events,         \* blocks so far
    switches,       \* those that did not extend the last one
    base            \* history: height the blocks are counted from

counters == <<appliedBlocksNumber, prevAppliedBlocksNumber>>
vars == <<tip, isSyncing, isSyncStartEventSent, startingBlock, counters, currentBlock,
          lastAppliedBlockIds, events, switches, base>>

Init ==
    /\ tip = Genesis
    /\ isSyncing = FALSE /\ isSyncStartEventSent = FALSE /\ startingBlock = 0
    /\ appliedBlocksNumber = 0 /\ prevAppliedBlocksNumber = 0
    /\ currentBlock = -1 /\ lastAppliedBlockIds = << >>
    /\ events = 0 /\ switches = 0 /\ base = Height[Genesis]

\* What is gone at a restart of the actor; no NotifySyncStop is published.
Restart(b) ==
    /\ isSyncing' = FALSE /\ isSyncStartEventSent' = FALSE /\ startingBlock' = 0
    /\ appliedBlocksNumber' = 0 /\ prevAppliedBlocksNumber' = 0
    /\ currentBlock' = -1 /\ lastAppliedBlockIds' = << >>
    /\ base' = Height[b]

\* indexOf(parentId): how many of the listed blocks are newer than the parent
Reverted(b) ==
    LET at == {i \in DOMAIN lastAppliedBlockIds : lastAppliedBlockIds[i] = Parent[b]}
    IN  IF at = {} THEN -1 ELSE (CHOOSE i \in at : \A j \in at : i <= j) - 1

\* The height asked for with the first block, unless the answer is late
AskedHeight(b, answered) ==
    IF currentBlock = -1 /\ answered THEN Height[b] ELSE currentBlock

AppliedAfter(b) ==
    IF lastAppliedBlockIds = << >> THEN appliedBlocksNumber + 1
    ELSE appliedBlocksNumber - Reverted(b) + 1

\* Mutant: a switch adds a block like any other.
HeightAlwaysUp(b, answered) ==
    AskedHeight(b, answered) + IF lastAppliedBlockIds = << >> THEN 0 ELSE 1

HeightAfter(b, answered) ==
    IF lastAppliedBlockIds = << >> THEN AskedHeight(b, answered)
    ELSE AskedHeight(b, answered) - Reverted(b) + 1

\* drop and dropRight return new lists that nobody looks at: nothing leaves the
\* list.
IdsAfter(b) == <<b>> \o lastAppliedBlockIds

stopSyncing(b) ==
    /\ isSyncing' = FALSE /\ isSyncStartEventSent' = FALSE /\ startingBlock' = 0
    /\ appliedBlocksNumber' = 0 /\ prevAppliedBlocksNumber' = 0
    /\ base' = Height[b]

\* processNewBlockApplied: a block on the active chain or on a branch of it,
\* close to the current time or not.  While syncing the forger is asked now and
\* then for what the highest block is estimated with; its answer may be late, which
\* takes the actor down as a block with an unknown parent does.
processNewBlockApplied(b, answered, close, forgerAnswers) ==
    LET since == AppliedAfter(b) - prevAppliedBlocksNumber
        syncing == isSyncing \/ since > StandardRate
    IN  /\ b # Genesis /\ Parent[b] \in Anc[tip] /\ b \notin Anc[tip]
        /\ answered \/ Timeouts
        /\ events < MaxEvents /\ events' = events + 1
        /\ switches' = switches + (IF Parent[b] = tip THEN 0 ELSE 1)
        /\ switches' <= MaxSwitches
        /\ tip' = b
        /\ IF \/ lastAppliedBlockIds # << >> /\ Reverted(b) = -1
              \/ syncing /\ ~close /\ ~forgerAnswers
           THEN Restart(b)
           ELSE /\ currentBlock' = HeightAfter(b, answered)
                /\ lastAppliedBlockIds' = IdsAfter(b)
                /\ IF syncing /\ close THEN stopSyncing(b)
                   ELSE /\ isSyncing' = syncing
                        /\ isSyncStartEventSent' = syncing
                        /\ startingBlock' = IF syncing /\ ~isSyncStartEventSent
                                            THEN HeightAfter(b, answered) - since + 1
                                            ELSE startingBlock
                        /\ appliedBlocksNumber' = AppliedAfter(b)
                        /\ base' = IF lastAppliedBlockIds = << >> THEN Height[Parent[b]] ELSE base
                        /\ UNCHANGED prevAppliedBlocksNumber

\* Mutant: the count of the last tick is kept.
CheckBlocksDensityOnce ==
    /\ IF appliedBlocksNumber - prevAppliedBlocksNumber <= StandardRate /\ isSyncing
       THEN stopSyncing(tip)
       ELSE UNCHANGED <<isSyncing, isSyncStartEventSent, startingBlock, counters, base>>
    /\ UNCHANGED <<tip, currentBlock, lastAppliedBlockIds, events, switches>>

\* The timer
CheckBlocksDensity ==
    /\ IF appliedBlocksNumber - prevAppliedBlocksNumber <= StandardRate /\ isSyncing
       THEN stopSyncing(tip)
       ELSE /\ prevAppliedBlocksNumber' = appliedBlocksNumber
            /\ base' = Height[tip]
            /\ UNCHANGED <<isSyncing, isSyncStartEventSent, startingBlock, appliedBlocksNumber>>
    /\ UNCHANGED <<tip, currentBlock, lastAppliedBlockIds, events, switches>>

Next ==
    \/ \E b \in Block, answered, close, forgerAnswers \in BOOLEAN :
           processNewBlockApplied(b, answered, close, forgerAnswers)
    \/ CheckBlocksDensity

\* The scheduler of the actor system fires at a fixed rate.
Spec == Init /\ [][Next]_vars /\ WF_vars(CheckBlocksDensity)

----------------------------------------------------------------------------
(* Properties *)

TypeOK ==
    /\ tip \in Block /\ isSyncing \in BOOLEAN
    /\ isSyncStartEventSent = isSyncing
    /\ startingBlock \in Int /\ appliedBlocksNumber \in Int /\ prevAppliedBlocksNumber \in Int
    /\ currentBlock \in Int /\ lastAppliedBlockIds \in Seq(Block)

\* The height the actor keeps is that of the last block it was told of
\* ("Update current height and last applied block ids").
HeightIsRight == currentBlock # -1 => currentBlock = Height[tip]

\* The height is right up to the second switch of the chain, if the height of the
\* first block was answered in time. Later it is not: the blocks a switch takes off
\* stay in the list (processNewBlockApplied, drop and dropRight).
CurrentHeightIsRight == ~Timeouts /\ switches <= 1 => HeightIsRight

\* A node is taken for syncing only when its chain has grown by more blocks than
\* arrive in one interval of the timer ("We must not consider fork blocks of the
\* same height as syncing").
SyncingMeansGrowth ==
    [][~isSyncing /\ isSyncing' => Height[tip'] - base > StandardRate]_vars

\* A node to which no more blocks come is not syncing for ever
\* (CheckBlocksDensity).
SyncingEnds == isSyncing ~> ~isSyncing
=============================================================================
