---------------------------- MODULE BlockStream ----------------------------
(***************************************************************************)
(* What the sequencer's block creator promises to the code that publishes  *)
(* its batches, without saying how updates wait for a block: the feed      *)
(* processors vote updates, and batches are emitted at strictly increasing *)
(* block heights.  A batch holds at most one update of a feed and at most  *)
(* MaxUpdates of them, all of them voted, and a feed never goes back: an   *)
(* update emitted later carries a later end_slot_timestamp.                *)
(*                                                                         *)
(* It does not promise that every voted update is emitted: the code drops  *)
(* some (see BacklogNeverForgets in BlockCreator).                         *)
(***************************************************************************)
EXTENDS Integers, Sequences, FiniteSets

CONSTANTS
  Feeds,       \* the encoded feed ids
  MaxTs,       \* bound: how many updates a feed votes
  MaxUpdates   \* max_feed_updates_to_batch

VARIABLES
  voted,       \* feed -> end_slot_timestamp of the feed's last vote, 0 if none
  batches      \* the BatchedAggregatesToSend emitted so far, oldest first

Init ==
  /\ voted = [f \in Feeds |-> 0]
  /\ batches = <<>>

Vote(f) ==
  /\ voted[f] < MaxTs
  /\ voted' = [voted EXCEPT ![f] = @ + 1]
  /\ UNCHANGED batches

(* A batch b that may follow the batches emitted so far.                   *)
Admissible(b) ==
  /\ b.updates # {}
  /\ Cardinality(b.updates) <= MaxUpdates
  /\ \A u \in b.updates : u.feed \in Feeds /\ u.ts \in 1..voted[u.feed]
  /\ \A u, v \in b.updates : u.feed = v.feed => u = v
  /\ \A i \in DOMAIN batches :
       /\ batches[i].block_height < b.block_height
       /\ \A u \in batches[i].updates, v \in b.updates : u.feed = v.feed => u.ts < v.ts

Emit ==
  LET b == batches'[Len(batches')]
  IN  /\ batches' # batches
      /\ batches' = Append(batches, b)
      /\ Admissible(b)
      /\ UNCHANGED voted

Next == Emit \/ \E f \in Feeds : Vote(f)

vars == <<voted, batches>>
Spec == Init /\ [][Next]_vars
=============================================================================
