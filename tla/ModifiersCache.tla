--------------------------- MODULE ModifiersCache ---------------------------
(***************************************************************************)
(* How blocks from peers wait for their parents: processRemoteModifiers    *)
(* puts a message of blocks into the ParentIdModifiersCache and starts,    *)
(* unless it is under way, the chain of ApplyModifier messages the node    *)
(* view holder sends to itself, one block each.  Further blocks arrive in  *)
(* between.  Module NodeViewHolder has what applying a block does; here it *)
(* only enters the history and may become the best.                        *)
(***************************************************************************)
EXTENDS BlockTree, FiniteSets

CONSTANTS
    None,           \* no block
    FarAhead,       \* block -> the best blocks it is more than 24 hours ahead of
    Unappendable,   \* blocks that history.append may refuse
    MaxSize,        \* network.maxModifiersCacheSize
    MaxApplied,     \* 100 in the code
    MaxMessages     \* bound: messages of blocks from peers

ASSUME CacheAssumption ==
    /\ None \notin Block
    /\ FarAhead \in [Block -> SUBSET Block] /\ Unappendable \subseteq Block \ {Genesis}
    /\ MaxSize \in Nat \ {0} /\ MaxApplied \in Nat \ {0} /\ MaxMessages \in Nat

VARIABLES
    known,          \* blocks in the history
    best,           \* history.bestBlockId
    cache,          \* DefaultModifiersCache.cache
    parentIdCache,  \* parent -> the cached block last put with it, or None
    applyingBlock,
    mailbox,        \* the ApplyModifier messages on their way: their applied blocks
    delivered,      \* history: blocks received from peers and not reported yet
    messages        \* messages of blocks so far

vars == <<known, best, cache, parentIdCache, applyingBlock, mailbox, delivered, messages>>

Init ==
    /\ known = {Genesis} /\ best = Genesis
    /\ cache = {} /\ parentIdCache = [p \in Block |-> None]
    /\ applyingBlock = FALSE /\ mailbox = << >> /\ delivered = {} /\ messages = 0

\* put, for the blocks of one message: the last child of a parent is in the index.
Put(mods, index) ==
    LET new(p) == {i \in DOMAIN mods : mods[i] \notin cache /\ Parent[mods[i]] = p}
    IN  [p \in Block |-> IF new(p) = {} THEN index[p]
                         ELSE mods[CHOOSE i \in new(p) : \A j \in new(p) : j <= i]]

\* The index after remove: it forgets the parent, whichever child it has.
IndexWithout(blocks) ==
    [p \in Block |-> IF \E b \in blocks : Parent[b] = p THEN None ELSE parentIdCache[p]]

\* Blocks popCandidate may give: the child of the best block the index has, or
\* any block whose parent is in the history (findCandidateKey of the history).
Candidates ==
    IF parentIdCache[best] # None THEN {parentIdCache[best]}
    ELSE {b \in cache : Parent[b] \in known}

\* external: sparkz cleanOverfull takes blocks out until maxSize are left.
CleanOverfull(c) ==
    {out \in SUBSET c : Cardinality(c \ out) = IF Cardinality(c) > MaxSize THEN MaxSize
                                               ELSE Cardinality(c)}

\* ModifiersFromRemote.  Blocks too far ahead are reported as cleared at once.
processRemoteModifiers(mods) ==
    LET crowded == 2 * (Cardinality(cache) + Len(mods)) > MaxSize
        taken == SelectSeq(mods, LAMBDA b : ~(crowded /\ best \in FarAhead[b]))
    IN  /\ messages < MaxMessages /\ messages' = messages + 1
        /\ cache' = cache \cup {taken[i] : i \in DOMAIN taken}
        /\ parentIdCache' = Put(taken, parentIdCache)
        /\ delivered' = delivered \cup {taken[i] : i \in DOMAIN taken}
        /\ applyingBlock' = TRUE
        /\ mailbox' = IF applyingBlock THEN mailbox ELSE Append(mailbox, {})
        /\ UNCHANGED <<known, best>>

\* pmodModify: a block that is appended stays in the history; it is the best when
\* it wins and the state takes it.
pmodModify(b) ==
    \/ /\ b \in known \cup Unappendable
       /\ UNCHANGED <<known, best>>
    \/ /\ b \notin known
       /\ known' = known \cup {b}
       /\ \/ /\ Score[b] > Score[best] \/ (Score[b] = Score[best] /\ Height[b] > Height[best])
             /\ best' = b
          \/ UNCHANGED best

\* Mutant: no next message is sent after the blocks that are reported together.
applyCandidateOnce(b) ==
    LET applied == Head(mailbox) \cup {b}
    IN  /\ mailbox # << >> /\ b \in Candidates
        /\ pmodModify(b)
        /\ cache' = cache \ {b}
        /\ parentIdCache' = IndexWithout({b})
        /\ IF Cardinality(applied) >= MaxApplied
           THEN mailbox' = Tail(mailbox) /\ delivered' = delivered \ applied
           ELSE mailbox' = Append(Tail(mailbox), applied) /\ UNCHANGED delivered
        /\ UNCHANGED <<applyingBlock, messages>>

\* ApplyModifier with a candidate: the block is applied, and the next message sent.
\* 100 blocks are reported together with what the full cache loses.
applyCandidate(b) ==
    LET applied == Head(mailbox) \cup {b}
    IN  /\ mailbox # << >> /\ b \in Candidates
        /\ pmodModify(b)
        /\ IF Cardinality(applied) >= MaxApplied
           THEN \E out \in CleanOverfull(cache \ {b}) :
                    /\ cache' = (cache \ {b}) \ out
                    /\ parentIdCache' = IndexWithout({b} \cup out)
                    /\ delivered' = delivered \ (applied \cup out)
                    /\ mailbox' = Append(Tail(mailbox), {})
           ELSE /\ cache' = cache \ {b}
                /\ parentIdCache' = IndexWithout({b})
                /\ mailbox' = Append(Tail(mailbox), applied)
                /\ UNCHANGED delivered
        /\ UNCHANGED <<applyingBlock, messages>>

\* Mutant: the blocks the full cache loses are not reported.
applyNoneSilently ==
    /\ mailbox # << >> /\ Candidates = {}
    /\ \E out \in CleanOverfull(cache) :
          /\ cache' = cache \ out
          /\ parentIdCache' = IndexWithout(out)
          /\ delivered' = delivered \ Head(mailbox)
    /\ mailbox' = Tail(mailbox)
    /\ applyingBlock' = FALSE
    /\ UNCHANGED <<known, best, messages>>

\* ApplyModifier without one: all is reported and the chain of messages ends.
applyNone ==
    /\ mailbox # << >> /\ Candidates = {}
    /\ \E out \in CleanOverfull(cache) :
          /\ cache' = cache \ out
          /\ parentIdCache' = IndexWithout(out)
          /\ delivered' = delivered \ (Head(mailbox) \cup out)
    /\ mailbox' = Tail(mailbox)
    /\ applyingBlock' = FALSE
    /\ UNCHANGED <<known, best, messages>>

\* Messages of one block or of two different ones
Deliveries == {<<b>> : b \in Block \ {Genesis}} \cup
              {<<b, c>> : b, c \in Block \ {Genesis}}

Next ==
    \/ \E mods \in Deliveries : processRemoteModifiers(mods)
    \/ \E b \in Block : applyCandidate(b)
    \/ applyNone

\* The actor takes the messages it has sent to itself.
Spec == Init /\ [][Next]_vars /\ WF_vars(applyNone \/ \E b \in Block : applyCandidate(b))

----------------------------------------------------------------------------
(* Properties *)

TypeOK ==
    /\ known \subseteq Block /\ best \in known /\ cache \subseteq Block
    /\ parentIdCache \in [Block -> Block \cup {None}]
    /\ applyingBlock \in BOOLEAN /\ delivered \subseteq Block
    /\ \A i \in DOMAIN mailbox : mailbox[i] \subseteq Block

\* One chain of ApplyModifier messages is under way exactly while applyingBlock
\* says so, however many messages of blocks come in between: a second one would
\* double the work, none would leave the cache unattended.
OneChainOfMessages == Len(mailbox) = IF applyingBlock THEN 1 ELSE 0

\* The index leads to cached blocks only (the remove of a block that is not
\* cached would give popCandidate nothing although the best block has a child).
IndexIsCached ==
    \A p \in Block : parentIdCache[p] # None => /\ parentIdCache[p] \in cache
                                                /\ Parent[parentIdCache[p]] = p

\* At rest no block waits whose parent is in the history, also when the index has
\* lost it to a sibling (remove forgets the parent of either), and the cache is
\* within its limit.
NothingApplicableWaits ==
    ~applyingBlock => /\ \A b \in cache : Parent[b] \notin known
                      /\ Cardinality(cache) <= MaxSize

\* Every block taken from a peer is in the cache, in the message under way or
\* has been reported, as applied or as cleared ("Publish
\* ModifiersProcessingResult message with all just applied and removed from cache
\* modifiers"): the synchronizer would never ask for it again otherwise.
EveryBlockIsReported ==
    delivered \subseteq cache \cup UNION {mailbox[i] : i \in DOMAIN mailbox}

\* A cached block whose parent is in the history leaves the cache.
ApplicableBlocksLeave == \A b \in Block : (b \in cache /\ Parent[b] \in known) ~> b \notin cache
=============================================================================
