-------------------------- MODULE StakeCheckpoints --------------------------
(***************************************************************************)
(* The stake histories of StakeStorage: a history is an append-only array  *)
(* of checkpoints, each the stake from an epoch on.  Indexes of the code   *)
(* start at 0, those of the sequences at 1.                                *)
(***************************************************************************)
EXTENDS Integers, Sequences, FiniteSets

Checkpoint(epoch, amount) == [from |-> epoch, amount |-> amount]

LatestAmount(h) == IF h = <<>> THEN 0 ELSE h[Len(h)].amount

\* Mutant: a change within the epoch of the last checkpoint adds a checkpoint.
AlwaysAddCheckpoint(h, epoch, amount) == Append(h, Checkpoint(epoch, amount))

\* Mutants: the last checkpoint is rewritten whatever its epoch; within an epoch
\* it is dropped whatever the amount.
UpdateLastCheckpoint(h, epoch, amount) ==
    IF h = <<>> THEN <<Checkpoint(epoch, amount)>> ELSE [h EXCEPT ![Len(h)].amount = amount]

DropLastCheckpoint(h, epoch, amount) ==
    LET n == Len(h)
    IN  IF n > 1 /\ h[n].from = epoch THEN SubSeq(h, 1, n - 1)
        ELSE Append(h, Checkpoint(epoch, amount))

\* BaseStakeHistory.updateOrAddCheckpoint with the new amount already computed;
\* a checkpoint that repeats the amount of the one before it is dropped.
UpdateOrAddCheckpoint(h, epoch, amount) ==
    LET n == Len(h)
    IN  IF n > 0 /\ h[n].from = epoch
        THEN IF n > 1 /\ h[n - 1].amount = amount
             THEN SubSeq(h, 1, n - 1)
             ELSE [h EXCEPT ![n] = Checkpoint(epoch, amount)]
        ELSE Append(h, Checkpoint(epoch, amount))

\* What a history says: the amount of the last checkpoint that is not after e.
StakeAt(h, e) ==
    IF \E i \in DOMAIN h : h[i].from <= e
    THEN h[CHOOSE i \in DOMAIN h :
              h[i].from <= e /\ \A j \in DOMAIN h : h[j].from <= e => j <= i].amount
    ELSE 0

----------------------------------------------------------------------------
(* StakeStorage.getForgerStakesPerEpoch *)

RoundSqrt(n) == CHOOSE r \in 0 .. n : (2 * r - 1) * (2 * r - 1) <= 4 * n /\ 4 * n < (2 * r + 1) * (2 * r + 1)

\* The loop of checkpointBSearch between low and high (both as in the code).
SearchBetween(h, epoch, lo, hi) ==
    LET search[range \in (0 .. Len(h)) \X (0 .. Len(h))] ==
          LET low == range[1]
              high == range[2]
              mid == (high + low) \div 2
          IN  IF low >= high THEN IF high = 0 THEN 0 ELSE high - 1
              ELSE IF h[mid + 1].from = epoch THEN mid
              ELSE IF h[mid + 1].from > epoch THEN search[<<low, mid>>]
              ELSE search[<<mid + 1, high>>]
    IN  search[<<lo, hi>>]

\* checkpointBSearch: the most recent 2 * sqrt(n) checkpoints are tried first.
CheckpointBSearch(h, epoch) ==
    LET n == Len(h)
        mid == n - RoundSqrt(n)
    IN  IF n <= 5 THEN SearchBetween(h, epoch, 0, n)
        ELSE IF h[mid + 1].from = epoch THEN mid
        ELSE IF h[mid + 1].from > epoch THEN SearchBetween(h, epoch, 0, mid)
        ELSE SearchBetween(h, epoch, mid + 1, n)

\* The amounts of the epochs first to last, from the last epoch backwards; an
\* unused array reads as a checkpoint of zero at epoch zero.
StakesPerEpoch(h, first, last) ==
    LET At(i) == IF h = <<>> THEN Checkpoint(0, 0) ELSE h[i + 1]
        \* The index of the checkpoint in force once the epochs after e are done.
        index[e \in first .. last] ==
            IF e = last THEN CheckpointBSearch(h, last)
            ELSE LET i == index[e + 1]
                 IN  IF i >= 0 /\ At(i).from = e + 1 THEN i - 1 ELSE i
    IN  IF At(0).from > last THEN [e \in first .. last |-> 0]
        ELSE [e \in first .. last |-> IF index[e] < 0 THEN 0 ELSE At(index[e]).amount]

=============================================================================
