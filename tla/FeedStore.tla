----------------------------- MODULE FeedStore -----------------------------
(***************************************************************************)
(* What the publishing path promises to the readers of one network's       *)
(* contract, without ring buffers, nonces or retries: a batch of a block   *)
(* changes what the contract shows for the feeds of the batch, all of them *)
(* at once, and for no other feed, and blocks take effect in their order.  *)
(*                                                                         *)
(* Every update of a block is named by the height of the block.  A batch   *)
(* may also have no effect: the code gives transactions up.                *)
(***************************************************************************)
EXTENDS Naturals

CONSTANTS
  Feeds        \* the encoded feed ids

VARIABLES
  shown,       \* feed -> what a reader gets as its latest data, 0 if nothing
  last_block   \* the height of the last batch that took effect

vars == <<shown, last_block>>

Init ==
  /\ shown = [f \in Feeds |-> 0]
  /\ last_block = 0

(* The batch of a higher block takes effect, for the feeds in S.           *)
Publish(S) ==
  /\ S # {}
  /\ last_block' \in Nat /\ last_block' > last_block
  /\ shown' = [f \in Feeds |-> IF f \in S THEN last_block' ELSE shown[f]]

Next == \E S \in SUBSET Feeds : Publish(S)

Spec == Init /\ [][Next]_vars
=============================================================================
