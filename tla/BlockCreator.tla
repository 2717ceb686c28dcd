---------------------------- MODULE BlockCreator ----------------------------
(***************************************************************************)
(* The sequencer's block creator (apps/sequencer/src/block_creator.rs): a  *)
(* single task that selects between the end of a block slot, a voted feed  *)
(* update and a feed management command, and turns what it has gathered    *)
(* into one block per slot.                                                *)
(*                                                                         *)
(* A block has two halves.  Its feed updates go to votes_result_sender as  *)
(* one batch, at most MaxUpdates of them; what does not fit waits in       *)
(* backlog_updates.  Its management commands go into the in-memory         *)
(* blockchain, to the feed slots manager and to the Kafka topic            *)
(* "blockchain".  While the Kafka send is awaited the task serves nothing. *)
(*                                                                         *)
(* Time is the number of the current block slot.  tokio::select! drops the *)
(* timer with every message it serves and arms it again for the slot that  *)
(* is current then, so a slot that ends meanwhile is not noticed.          *)
(***************************************************************************)
EXTENDS Integers, Sequences, FiniteSets

CONSTANTS
  Feeds,         \* the encoded feed ids
  MaxUpdates,    \* max_feed_updates_to_batch, after its reduction to the block's capacity
  MaxCmdsInBlock,\* MAX_NEW_FEEDS_IN_BLOCK and MAX_FEED_ID_TO_DELETE_IN_BLOCK
  MaxTs,         \* bound: how many updates a feed votes
  MaxInbox,      \* bound: how many votes wait in the channel
  MaxCmds,       \* bound: how many management commands the admin server accepts
  MaxIdleSlots,  \* bound: slots counted while the block creator has nothing to emit
  MaxLag         \* bound: how many slots the task may fall behind the clock

ASSUME BlockCreatorAssumption ==
  /\ MaxUpdates \in Nat
  /\ MaxCmdsInBlock \in Nat
  /\ MaxTs \in Nat /\ MaxInbox \in Nat /\ MaxCmds \in Nat
  /\ MaxIdleSlots \in Nat /\ MaxLag \in Nat

VARIABLES
  inbox,        \* aggregated_votes_to_block_creator_recv, oldest first
  cmd_inbox,    \* feed_management_cmds_recv, oldest first
  updates,      \* the BTreeSet of the next block's updates: one per feed
  backlog_updates,        \* the VecDeque of updates that overflowed the block
  new_feeds_to_register,  \* register commands of the next block
  feeds_ids_to_delete,    \* delete commands of the next block
  slot,         \* block_generation_time_tracker.get_last_slot()
  armed_slot,   \* the slot whose end the pending timer awaits
  blockchain_db,\* the blocks of InMemDb, oldest first
  sending,      \* the block whose Kafka send is awaited, <<>> if none
  kafka,        \* the blocks in the topic "blockchain"
  batches,      \* batched_votes_send: the batches emitted, oldest first
  manager_cmds, \* feeds_slots_manager_cmd_send: the commands forwarded, oldest first
  panicked,     \* the task died in generate_block
  voted,        \* environment: feed -> end_slot_timestamp of its last vote
  n_cmds        \* environment: commands accepted so far

update_vars == <<inbox, updates, backlog_updates, batches, voted>>
cmd_vars == <<cmd_inbox, new_feeds_to_register, feeds_ids_to_delete, n_cmds>>
block_vars == <<blockchain_db, sending, kafka, manager_cmds, panicked>>
time_vars == <<slot, armed_slot>>
vars == <<update_vars, cmd_vars, block_vars, time_vars>>

Update == [feed : Feeds, ts : Nat]
Cmd == [kind : {"register", "delete"}, feed : Feeds]
Block == [height : Nat, new_feeds : Seq(Cmd), feed_ids_to_rm : Seq(Cmd)]

LatestHeight == IF blockchain_db = <<>> THEN 0 ELSE blockchain_db[Len(blockchain_db)].height

Init ==
  /\ inbox = <<>> /\ updates = {} /\ backlog_updates = <<>> /\ batches = <<>>
  /\ voted = [f \in Feeds |-> 0]
  /\ cmd_inbox = <<>> /\ new_feeds_to_register = <<>> /\ feeds_ids_to_delete = <<>>
  /\ n_cmds = 0
  /\ blockchain_db = <<>> /\ sending = <<>> /\ kafka = <<>> /\ manager_cmds = <<>>
  /\ panicked = FALSE
  /\ slot = 0 /\ armed_slot = 0

-----------------------------------------------------------------------------
(* The environment: feed slots processors and the admin server.            *)

(* The processor of f posts the result of a later slot of the feed.        *)
Vote(f) ==
  /\ voted[f] < MaxTs
  /\ Len(inbox) < MaxInbox
  /\ voted' = [voted EXCEPT ![f] = @ + 1]
  /\ inbox' = Append(inbox, [feed |-> f, ts |-> voted[f] + 1])
  /\ UNCHANGED <<updates, backlog_updates, batches, cmd_vars, block_vars, time_vars>>

AdminCmd(c) ==
  /\ n_cmds < MaxCmds
  /\ n_cmds' = n_cmds + 1
  /\ cmd_inbox' = Append(cmd_inbox, c)
  /\ UNCHANGED <<new_feeds_to_register, feeds_ids_to_delete, update_vars, block_vars, time_vars>>

-----------------------------------------------------------------------------
(* The select loop.  (A Mut... operator is a defect of the operator after  *)
(* it that one of the properties below catches.)                           *)

Selecting == sending = <<>> /\ ~panicked

HasCmds == new_feeds_to_register # <<>> \/ feeds_ids_to_delete # <<>>
MutHasDataIgnoresUpdates == HasCmds
MutHasDataIgnoresCmds == updates # {}
HasData == updates # {} \/ HasCmds

(* Dropping the timer and arming it for the current slot.                  *)
MutRearmNextSlot == armed_slot' = slot + 1 /\ UNCHANGED slot
Rearm == armed_slot' = slot /\ UNCHANGED slot

(* BTreeSet::insert: updates are equal when their feeds are, and an equal  *)
(* element that is there already stays.                                    *)
Insert(s, u) == IF \E v \in s : v.feed = u.feed THEN s ELSE s \union {u}

(* recvd_feed_update_to_block for an update that encodes.                  *)
MutKeepUpdatePushesFront(u) ==
  IF Cardinality(updates) < MaxUpdates
  THEN updates' = Insert(updates, u) /\ UNCHANGED backlog_updates
  ELSE backlog_updates' = <<u>> \o backlog_updates /\ UNCHANGED updates

KeepUpdate(u) ==
  IF Cardinality(updates) < MaxUpdates
  THEN updates' = Insert(updates, u) /\ UNCHANGED backlog_updates
  ELSE backlog_updates' = Append(backlog_updates, u) /\ UNCHANGED updates

(* An update whose value does not encode for its feed is skipped.          *)
RecvFeedUpdate ==
  /\ Selecting
  /\ inbox # <<>>
  /\ inbox' = Tail(inbox)
  /\ \/ KeepUpdate(Head(inbox))
     \/ UNCHANGED <<updates, backlog_updates>>
  /\ Rearm
  /\ UNCHANGED <<batches, voted, cmd_vars, block_vars>>

(* recvd_feed_management_cmd_to_block: above the capacity of a block the   *)
(* command is dropped.                                                     *)
PushCmd(cmds, c) == IF Len(cmds) < MaxCmdsInBlock THEN Append(cmds, c) ELSE cmds

RecvFeedManagementCmd ==
  /\ Selecting
  /\ cmd_inbox # <<>>
  /\ cmd_inbox' = Tail(cmd_inbox)
  /\ LET c == Head(cmd_inbox)
     IN  IF c.kind = "register"
         THEN /\ new_feeds_to_register' = PushCmd(new_feeds_to_register, c)
              /\ UNCHANGED feeds_ids_to_delete
         ELSE /\ feeds_ids_to_delete' = PushCmd(feeds_ids_to_delete, c)
              /\ UNCHANGED new_feeds_to_register
  /\ Rearm
  /\ UNCHANGED <<n_cmds, update_vars, block_vars>>

-----------------------------------------------------------------------------
(* The end of a block slot.                                                *)

(* What inserting the first n updates of q leaves in an empty set.         *)
FirstPerFeed(q, n) ==
  {q[i] : i \in {j \in 1..n : \A k \in 1..(j - 1) : q[k].feed # q[j].feed}}

(* The refill loop pops from the front of q and inserts until the set      *)
(* holds MaxUpdates or q is empty: it stops after k insertions.            *)
MutStopsOneEarly(q, k) ==
  /\ \A n \in 0..(k - 1) : Cardinality(FirstPerFeed(q, n)) < MaxUpdates - 1
  /\ k = Len(q) \/ Cardinality(FirstPerFeed(q, k)) = MaxUpdates - 1

StopsAfter(q, k) ==
  /\ \A n \in 0..(k - 1) : Cardinality(FirstPerFeed(q, n)) < MaxUpdates
  /\ k = Len(q) \/ Cardinality(FirstPerFeed(q, k)) = MaxUpdates

(* Having found the set full, the loop has already popped one update more. *)
Popped(q, k) == IF k < Len(q) THEN k + 1 ELSE k

Refill(q) ==
  \E k \in 0..Len(q) :
    /\ StopsAfter(q, k)
    /\ updates' = FirstPerFeed(q, k)
    /\ backlog_updates' = SubSeq(q, Popped(q, k) + 1, Len(q))

(* The height of the block generated at the end of a slot.                 *)
MutHeightFromBlockchain == LatestHeight + 1
MutHeightOfArmedSlot == armed_slot
NewBlockHeight == slot + 1

(* A block with commands must be higher than the latest of the blockchain, *)
(* or add_next_block fails and the task panics.                            *)
BlockFits(b) == b.height > LatestHeight

(* generate_block up to the Kafka send, which only a block with commands   *)
(* reaches.                                                                *)
MutGenerateSendsEveryBlock(b) ==
  /\ batches' = IF updates = {} THEN batches
                ELSE Append(batches, [block_height |-> b.height, updates |-> updates])
  /\ manager_cmds' = manager_cmds \o b.new_feeds \o b.feed_ids_to_rm
  /\ blockchain_db' = IF HasCmds THEN Append(blockchain_db, b) ELSE blockchain_db
  /\ sending' = <<b>>

GenerateBlock(b) ==
  /\ batches' = IF updates = {} THEN batches
                ELSE Append(batches, [block_height |-> b.height, updates |-> updates])
  /\ manager_cmds' = manager_cmds \o b.new_feeds \o b.feed_ids_to_rm
  /\ IF HasCmds
     THEN blockchain_db' = Append(blockchain_db, b) /\ sending' = <<b>>
     ELSE UNCHANGED <<blockchain_db, sending>>

EndOfSlotEmpty ==
  /\ Selecting
  /\ slot > armed_slot
  /\ ~HasData
  /\ Rearm
  /\ UNCHANGED <<update_vars, cmd_vars, block_vars>>

EndOfSlot ==
  /\ Selecting
  /\ slot > armed_slot
  /\ HasData
  /\ LET b == [height |-> NewBlockHeight,
               new_feeds |-> new_feeds_to_register, feed_ids_to_rm |-> feeds_ids_to_delete]
     IN  IF HasCmds => BlockFits(b)
         THEN GenerateBlock(b) /\ Refill(backlog_updates) /\ UNCHANGED panicked
         ELSE /\ panicked' = TRUE
              /\ updates' = {}
              /\ UNCHANGED <<batches, manager_cmds, blockchain_db, sending, backlog_updates>>
  /\ new_feeds_to_register' = <<>>
  /\ feeds_ids_to_delete' = <<>>
  /\ Rearm
  /\ UNCHANGED <<inbox, voted, cmd_inbox, n_cmds, kafka>>

(* The Kafka send completes: the block is in the topic, or the error is    *)
(* logged and the block stays out of it.                                   *)
KafkaSendDone ==
  /\ sending # <<>>
  /\ \/ kafka' = kafka \o sending
     \/ UNCHANGED kafka
  /\ sending' = <<>>
  /\ Rearm
  /\ UNCHANGED <<blockchain_db, manager_cmds, panicked, update_vars, cmd_vars>>

(* A slot ends.  Beyond MaxIdleSlots a slot in which nothing waits to be   *)
(* emitted is not counted: heights would only grow by more.                *)
NextSlot ==
  /\ slot < armed_slot + MaxLag
  /\ slot' = IF HasData \/ sending # <<>> \/ slot < MaxIdleSlots THEN slot + 1 ELSE slot
  /\ UNCHANGED <<armed_slot, update_vars, cmd_vars, block_vars>>

-----------------------------------------------------------------------------
Next ==
  \/ \E f \in Feeds : Vote(f)
  \/ \E c \in Cmd : AdminCmd(c)
  \/ RecvFeedUpdate
  \/ RecvFeedManagementCmd
  \/ EndOfSlotEmpty
  \/ EndOfSlot
  \/ KafkaSendDone
  \/ NextSlot

Spec == Init /\ [][Next]_vars

(* The runtime polls the task, the clock goes on and the Kafka client      *)
(* reports every send's outcome; nobody has to vote or to send commands.   *)
Fairness ==
  /\ WF_vars(RecvFeedUpdate)
  /\ WF_vars(RecvFeedManagementCmd)
  /\ WF_vars(EndOfSlotEmpty)
  /\ WF_vars(EndOfSlot)
  /\ WF_vars(KafkaSendDone)
  /\ WF_vars(NextSlot)

FairSpec == Spec /\ Fairness

-----------------------------------------------------------------------------
(* Properties.                                                             *)

TypeOK ==
  /\ inbox \in Seq(Update)
  /\ updates \in SUBSET Update
  /\ backlog_updates \in Seq(Update)
  /\ voted \in [Feeds -> Nat]
  /\ batches \in Seq([block_height : Nat, updates : SUBSET Update])
  /\ cmd_inbox \in Seq(Cmd) /\ n_cmds \in Nat
  /\ new_feeds_to_register \in Seq(Cmd) /\ feeds_ids_to_delete \in Seq(Cmd)
  /\ manager_cmds \in Seq(Cmd)
  /\ blockchain_db \in Seq(Block) /\ kafka \in Seq(Block)
  /\ sending \in Seq(Block) /\ Len(sending) <= 1
  /\ panicked \in BOOLEAN
  /\ slot \in Nat /\ armed_slot \in Nat /\ armed_slot <= slot

(* Updates wait in the backlog only behind a full block: otherwise the     *)
(* next end of slot could find nothing to emit and never refill the block  *)
(* from the backlog.                                                       *)
BacklogOnlyWhenFull == backlog_updates # <<>> => Cardinality(updates) = MaxUpdates

(* Updates of one feed overtake each other nowhere on their way from the   *)
(* channel over the backlog and the next block to the batches sent, so a   *)
(* contract never sees a feed go back in time.                             *)
Earlier(S, T) == \A u \in S, v \in T : u.feed = v.feed => u.ts < v.ts
Elems(q) == {q[i] : i \in DOMAIN q}
Sent == UNION {batches[i].updates : i \in DOMAIN batches}
InOrder(q) == \A i, j \in DOMAIN q : i < j /\ q[i].feed = q[j].feed => q[i].ts < q[j].ts

FeedsNeverGoBack ==
  /\ \A i, j \in DOMAIN batches : i < j => Earlier(batches[i].updates, batches[j].updates)
  /\ Earlier(Sent, updates \union Elems(backlog_updates) \union Elems(inbox))
  /\ Earlier(updates, Elems(backlog_updates) \union Elems(inbox))
  /\ Earlier(Elems(backlog_updates), Elems(inbox))
  /\ InOrder(backlog_updates)
  /\ InOrder(inbox)

(* add_next_block accepts every block the block creator generates, so the  *)
(* task never panics with "Failed to generate block!".                     *)
NeverPanics == ~panicked

(* What restarts and peers replay from the topic "blockchain" is what the  *)
(* blockchain holds, in its order, less the blocks whose send failed.      *)
KafkaFollowsChain ==
  /\ \A i, j \in DOMAIN blockchain_db :
       i < j => blockchain_db[i].height < blockchain_db[j].height
  /\ \A i, j \in DOMAIN kafka : i < j => kafka[i].height < kafka[j].height
  /\ Elems(kafka) \union Elems(sending) \subseteq Elems(blockchain_db)

(* The batches sent are a behaviour of the abstract stream.                *)
Stream == INSTANCE BlockStream
RefinesBlockStream == Stream!Spec

(* An update in the next block is emitted, and when no more votes and      *)
(* commands come everything that waits is worked off: no slot boundary     *)
(* missed for a message blocks the block creator for good.                 *)
UpdatesAreEmitted ==
  \A f \in Feeds, t \in 1..MaxTs :
    [feed |-> f, ts |-> t] \in updates ~> [feed |-> f, ts |-> t] \in Sent

WorkedOff ==
  <>[](/\ inbox = <<>> /\ cmd_inbox = <<>> /\ sending = <<>>
       /\ updates = {} /\ backlog_updates = <<>> /\ ~HasCmds)

(* Contradicted by the code: an update that overflowed a block stays in    *)
(* the backlog until the refill has put it, or an older one of its feed,   *)
(* into the next block.                                                    *)
BacklogNeverForgets ==
  [][\A u \in Elems(backlog_updates) :
       u \in Elems(backlog_updates') \/ \E v \in updates' : v.feed = u.feed]_vars
=============================================================================
