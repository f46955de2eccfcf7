-------------------------- MODULE MCAccountMempool --------------------------
(***************************************************************************)
(* Two senders: one with a run of nonces and a replacement that is larger  *)
(* and dearer, of more slots together than a sender may have; one whose    *)
(* second nonce is within the gap only after a block with the first.       *)
(***************************************************************************)
EXTENDS AccountMempool

CONSTANTS alice, bob

T(from, nonce, slots, fee, cost) ==
    [from |-> from, nonce |-> nonce, slots |-> slots, maxFee |-> fee, tip |-> fee, cost |-> cost]

MCTx == {T(alice, 0, 1, 1, 1), T(alice, 1, 1, 1, 1), T(alice, 1, 2, 2, 2), T(alice, 2, 1, 1, 1),
         T(bob, 0, 1, 1, 1), T(bob, 3, 2, 1, 1)}

Rich == [x \in Account |-> 2]
MCBalances == {Rich, [Rich EXCEPT ![alice] = 1]}

=============================================================================
