--------------------------- MODULE FeedsRegistry ---------------------------
(***************************************************************************)
(* The registry of feeds of each sequencer.  The admin server accepts a    *)
(* command to register or delete a feed when its own registry allows it    *)
(* and hands it to the block creator; with the next block the command      *)
(* goes to the feeds slots manager, which changes the registry, and to the *)
(* Kafka topic "blockchain".  Every sequencer reads the topic from its     *)
(* beginning and hands the commands of its peers' blocks to its manager;   *)
(* of its own blocks only those that are higher than its in-memory         *)
(* blockchain, which is empty after a restart.                             *)
(*                                                                         *)
(* The manager's task panics when it is told to delete a feed that is not  *)
(* registered, and the block creator's when it cannot convert a feed's     *)
(* configuration.  Either way the sequencer goes on without the task.      *)
(***************************************************************************)
EXTENDS Integers, Sequences, FiniteSets

CONSTANTS
  Sequencers,     \* the sequencer_ids
  Feeds,          \* the encoded feed ids
  ConfigFeeds,    \* the feeds of the configuration file
  Convertible,    \* the feeds whose arguments fill whole chunks of a block
  MaxCmdsInBlock, \* MAX_NEW_FEEDS_IN_BLOCK and MAX_FEED_ID_TO_DELETE_IN_BLOCK
  Mishaps,        \* what may go wrong beyond restarts and full blocks
  MaxCmds,        \* bound: how many commands are accepted
  MaxRestarts     \* bound: how many restarts there are

(* "uncoordinated": admins may send a command while one for the same feed  *)
(* is under way somewhere, and to a sequencer that still replays the topic.*)
(* "kafka_fails": a block may fail to reach the topic.                     *)
AllMishaps == {"uncoordinated", "kafka_fails"}

ASSUME FeedsRegistryAssumption ==
  /\ IsFiniteSet(Sequencers) /\ IsFiniteSet(Feeds)
  /\ ConfigFeeds \subseteq Feeds /\ Convertible \subseteq Feeds
  /\ MaxCmdsInBlock \in Nat
  /\ Mishaps \subseteq AllMishaps
  /\ MaxCmds \in Nat /\ MaxRestarts \in Nat

VARIABLES
  registry,     \* sequencer -> the feeds in AllFeedsReports' registry
  cmds,         \* sequencer -> feed_management_cmds_recv of the block creator
  new_feeds_to_register,
  feeds_ids_to_delete,    \* sequencer -> the feeds of the next block's commands
  latest_block_height,    \* sequencer -> latest_block_height of its InMemDb
  sending,      \* sequencer -> the block whose Kafka send is awaited, <<>> if none
  manager_cmds, \* sequencer -> the channel of the feeds slots manager
  offset,       \* sequencer -> how many blocks of the topic it has read
  dead,         \* sequencer -> its tasks that panicked
  topic,        \* the topic "blockchain"
  n_blocks,     \* environment: how many blocks were generated
  n_cmds,
  n_restarts,
  wanted,       \* environment: the feeds there are if every accepted command takes effect
  lost,         \* environment: whether a block was full or a sequencer restarted
  replay_end    \* sequencer -> the length of the topic when it was started

pending_vars == <<new_feeds_to_register, feeds_ids_to_delete>>
env_vars == <<n_cmds, wanted>>
start_vars == <<n_restarts, replay_end>>
vars == <<registry, cmds, pending_vars, latest_block_height, sending, manager_cmds, offset, dead,
          topic, n_blocks, env_vars, start_vars, lost>>

Cmd == [kind : {"register", "delete"}, feed : Feeds]
Block == [issuer : Sequencers, height : Nat, new_feeds : Seq(Feeds), feed_ids_to_rm : Seq(Feeds)]

Elems(q) == {q[i] : i \in DOMAIN q}

Init ==
  /\ registry = [s \in Sequencers |-> ConfigFeeds]
  /\ cmds = [s \in Sequencers |-> <<>>]
  /\ new_feeds_to_register = [s \in Sequencers |-> <<>>]
  /\ feeds_ids_to_delete = [s \in Sequencers |-> <<>>]
  /\ latest_block_height = [s \in Sequencers |-> 0]
  /\ sending = [s \in Sequencers |-> <<>>]
  /\ manager_cmds = [s \in Sequencers |-> <<>>]
  /\ offset = [s \in Sequencers |-> 0]
  /\ dead = [s \in Sequencers |-> {}]
  /\ topic = <<>> /\ n_blocks = 0
  /\ n_cmds = 0 /\ wanted = ConfigFeeds /\ lost = FALSE
  /\ n_restarts = 0 /\ replay_end = [s \in Sequencers |-> 0]

-----------------------------------------------------------------------------
(* The admin server.  (A Mut... operator is a defect of the operator after *)
(* it that one of the properties below catches.)                           *)

UnderWay(f, s) ==
  \/ \E c \in Elems(cmds[s] \o manager_cmds[s]) : c.feed = f
  \/ f \in Elems(new_feeds_to_register[s] \o feeds_ids_to_delete[s])
  \/ \E b \in Elems(sending[s] \o SubSeq(topic, offset[s] + 1, Len(topic))) :
       f \in Elems(b.new_feeds \o b.feed_ids_to_rm)

Coordinated(s, f) ==
  \/ "uncoordinated" \in Mishaps
  \/ offset[s] >= replay_end[s] /\ \A t \in Sequencers : ~UnderWay(f, t)

Accept(s, f, kind) ==
  /\ n_cmds < MaxCmds /\ Coordinated(s, f)
  /\ n_cmds' = n_cmds + 1
  /\ cmds' = [cmds EXCEPT ![s] = Append(@, [kind |-> kind, feed |-> f])]
  /\ wanted' = IF kind = "register" THEN wanted \union {f} ELSE wanted \ {f}
  /\ UNCHANGED <<registry, pending_vars, latest_block_height, sending, manager_cmds, offset, dead,
                 topic, n_blocks, start_vars, lost>>

RegisterAssetFeed(s, f) == f \notin registry[s] /\ Accept(s, f, "register")

MutDeleteAssetFeed(s, f) == Accept(s, f, "delete")
DeleteAssetFeed(s, f) == f \in registry[s] /\ Accept(s, f, "delete")

-----------------------------------------------------------------------------
(* The block creator, as far as commands go (see module BlockCreator).     *)

Creating(s) == sending[s] = <<>> /\ "block_creator" \notin dead[s]

MutFull(pending) == Len(pending) > MaxCmdsInBlock
Full(pending) == Len(pending) >= MaxCmdsInBlock

RecvCmd(s) ==
  /\ Creating(s) /\ cmds[s] # <<>>
  /\ cmds' = [cmds EXCEPT ![s] = Tail(@)]
  /\ LET c == Head(cmds[s])
         pending == IF c.kind = "register" THEN new_feeds_to_register[s] ELSE feeds_ids_to_delete[s]
         pushed == IF Full(pending) THEN pending ELSE Append(pending, c.feed)
     IN  /\ lost' = (lost \/ Full(pending))
         /\ IF c.kind = "register"
            THEN /\ new_feeds_to_register' = [new_feeds_to_register EXCEPT ![s] = pushed]
                 /\ UNCHANGED feeds_ids_to_delete
            ELSE /\ feeds_ids_to_delete' = [feeds_ids_to_delete EXCEPT ![s] = pushed]
                 /\ UNCHANGED new_feeds_to_register
  /\ UNCHANGED <<registry, latest_block_height, sending, manager_cmds, offset, dead,
                 topic, n_blocks, env_vars, start_vars>>

(* The commands of a block in the order of generate_block and of           *)
(* process_block: first those to register, then those to delete.           *)
AsCmds(kind, feeds) == [i \in DOMAIN feeds |-> [kind |-> kind, feed |-> feeds[i]]]
MutCmdsOf(b) == AsCmds("register", b.new_feeds)
CmdsOf(b) == AsCmds("register", b.new_feeds) \o AsCmds("delete", b.feed_ids_to_rm)

MutBlockIsEmpty(s) == new_feeds_to_register[s] = <<>> \/ feeds_ids_to_delete[s] = <<>>
BlockIsEmpty(s) == new_feeds_to_register[s] = <<>> /\ feeds_ids_to_delete[s] = <<>>

(* generate_block up to the Kafka send.  Heights are numbers of slots, so  *)
(* a later block of a sequencer is higher, also after a restart.           *)
GenerateBlock(s) ==
  /\ Creating(s)
  /\ ~BlockIsEmpty(s)
  /\ LET b == [issuer |-> s, height |-> n_blocks + 1,
               new_feeds |-> new_feeds_to_register[s], feed_ids_to_rm |-> feeds_ids_to_delete[s]]
     IN  IF Elems(b.new_feeds) \subseteq Convertible
         THEN /\ latest_block_height' = [latest_block_height EXCEPT ![s] = b.height]
              /\ manager_cmds' = [manager_cmds EXCEPT ![s] = @ \o CmdsOf(b)]
              /\ sending' = [sending EXCEPT ![s] = <<b>>]
              /\ n_blocks' = n_blocks + 1
              /\ UNCHANGED dead
         ELSE /\ dead' = [dead EXCEPT ![s] = @ \union {"block_creator"}]
              /\ UNCHANGED <<latest_block_height, manager_cmds, sending, n_blocks>>
  /\ new_feeds_to_register' = [new_feeds_to_register EXCEPT ![s] = <<>>]
  /\ feeds_ids_to_delete' = [feeds_ids_to_delete EXCEPT ![s] = <<>>]
  /\ UNCHANGED <<registry, cmds, offset, topic, env_vars, start_vars, lost>>

KafkaSendDone(s) ==
  /\ sending[s] # <<>>
  /\ sending' = [sending EXCEPT ![s] = <<>>]
  /\ topic' = topic \o sending[s] \/ ("kafka_fails" \in Mishaps /\ UNCHANGED topic)
  /\ UNCHANGED <<registry, cmds, pending_vars, latest_block_height, manager_cmds, offset, dead,
                 n_blocks, env_vars, start_vars, lost>>

-----------------------------------------------------------------------------
(* The blocks reader and the feeds slots manager.                          *)

MutProcessBlockOfPeers(s, b) == b.issuer # s
ProcessBlock(s, b) == b.issuer # s \/ latest_block_height[s] < b.height

ReadBlock(s) ==
  /\ offset[s] < Len(topic)
  /\ offset' = [offset EXCEPT ![s] = @ + 1]
  /\ LET b == topic[offset[s] + 1]
     IN  manager_cmds' = IF ProcessBlock(s, b)
                         THEN [manager_cmds EXCEPT ![s] = @ \o CmdsOf(b)] ELSE manager_cmds
  /\ UNCHANGED <<registry, cmds, pending_vars, latest_block_height, sending, dead,
                 topic, n_blocks, env_vars, start_vars, lost>>

(* handle_feeds_slots_manager_cmd: a feed registered twice is an error in  *)
(* the log, a feed deleted twice a panic.                                  *)
HandleManagerCmd(s) ==
  /\ "feeds_slots_manager" \notin dead[s] /\ manager_cmds[s] # <<>>
  /\ manager_cmds' = [manager_cmds EXCEPT ![s] = Tail(@)]
  /\ LET c == Head(manager_cmds[s])
         panics == c.kind = "delete" /\ c.feed \notin registry[s]
     IN  /\ registry' = [registry EXCEPT ![s] = IF c.kind = "register" THEN @ \union {c.feed}
                                                                      ELSE @ \ {c.feed}]
         /\ dead' = IF panics THEN [dead EXCEPT ![s] = @ \union {"feeds_slots_manager"}] ELSE dead
  /\ UNCHANGED <<cmds, pending_vars, latest_block_height, sending, offset,
                 topic, n_blocks, env_vars, start_vars, lost>>

-----------------------------------------------------------------------------
(* Nothing of a sequencer survives a restart; a block being sent may have  *)
(* reached the topic or not.                                               *)
Restart(s) ==
  /\ n_restarts < MaxRestarts
  /\ n_restarts' = n_restarts + 1
  /\ lost' = TRUE
  /\ registry' = [registry EXCEPT ![s] = ConfigFeeds]
  /\ cmds' = [cmds EXCEPT ![s] = <<>>]
  /\ new_feeds_to_register' = [new_feeds_to_register EXCEPT ![s] = <<>>]
  /\ feeds_ids_to_delete' = [feeds_ids_to_delete EXCEPT ![s] = <<>>]
  /\ latest_block_height' = [latest_block_height EXCEPT ![s] = 0]
  /\ manager_cmds' = [manager_cmds EXCEPT ![s] = <<>>]
  /\ offset' = [offset EXCEPT ![s] = 0]
  /\ dead' = [dead EXCEPT ![s] = {}]
  /\ topic' \in {topic, topic \o sending[s]}
  /\ sending' = [sending EXCEPT ![s] = <<>>]
  /\ replay_end' = [replay_end EXCEPT ![s] = Len(topic')]
  /\ UNCHANGED <<n_blocks, env_vars>>

Step(s) == RecvCmd(s) \/ GenerateBlock(s) \/ KafkaSendDone(s) \/ ReadBlock(s) \/ HandleManagerCmd(s)

Next ==
  \E s \in Sequencers :
    \/ \E f \in Feeds : RegisterAssetFeed(s, f) \/ DeleteAssetFeed(s, f)
    \/ RecvCmd(s)
    \/ GenerateBlock(s)
    \/ KafkaSendDone(s)
    \/ ReadBlock(s)
    \/ HandleManagerCmd(s)
    \/ Restart(s)

(* The tasks run, slots end, and Kafka answers.                            *)
Fairness == \A s \in Sequencers : WF_vars(Step(s))

Spec == Init /\ [][Next]_vars /\ Fairness

-----------------------------------------------------------------------------
(* Properties.                                                             *)

TypeOK ==
  /\ registry \in [Sequencers -> SUBSET Feeds]
  /\ cmds \in [Sequencers -> Seq(Cmd)] /\ manager_cmds \in [Sequencers -> Seq(Cmd)]
  /\ new_feeds_to_register \in [Sequencers -> Seq(Feeds)]
  /\ feeds_ids_to_delete \in [Sequencers -> Seq(Feeds)]
  /\ \A s \in Sequencers : /\ Len(new_feeds_to_register[s]) <= MaxCmdsInBlock
                           /\ Len(feeds_ids_to_delete[s]) <= MaxCmdsInBlock
  /\ n_blocks \in Nat /\ latest_block_height \in [Sequencers -> 0..n_blocks]
  /\ sending \in [Sequencers -> Seq(Block)]
  /\ topic \in Seq(Block) /\ offset \in [Sequencers -> 0..Len(topic)]
  /\ dead \in [Sequencers -> SUBSET {"block_creator", "feeds_slots_manager"}]
  /\ n_cmds \in 0..MaxCmds /\ n_restarts \in 0..MaxRestarts
  /\ wanted \in SUBSET Feeds /\ lost \in BOOLEAN
  /\ replay_end \in [Sequencers -> 0..Len(topic)]

(* No task panics: a delete that was checked against one registry blocks   *)
(* earlier finds its feed in the registry of every sequencer that applies  *)
(* it, also when it replays the topic.                                     *)
NoTaskDies == \A s \in Sequencers : dead[s] = {}

(* The registry after the first n blocks of the topic.                     *)
Apply(feeds, b) == (feeds \union Elems(b.new_feeds)) \ Elems(b.feed_ids_to_rm)
Replayed ==
  LET R[n \in 0..Len(topic)] == IF n = 0 THEN ConfigFeeds ELSE Apply(R[n - 1], topic[n])
  IN  R[Len(topic)]

(* A sequencer that has read the topic and has no block of its own on the  *)
(* way to it has the registry that a replay of the topic gives, whatever   *)
(* it applied at once and its peers later, and however often it restarted. *)
UpToDate(s) == sending[s] = <<>> /\ manager_cmds[s] = <<>> /\ offset[s] = Len(topic)

RegistryFollowsTopic ==
  \A s \in Sequencers : UpToDate(s) => registry[s] = Replayed

(* When everything has been worked off, every command that was accepted    *)
(* has taken effect everywhere, except that full blocks and restarts lose  *)
(* commands.                                                               *)
AllQuiet ==
  \A s \in Sequencers :
    UpToDate(s) /\ cmds[s] = <<>> /\ new_feeds_to_register[s] \o feeds_ids_to_delete[s] = <<>>

AcceptedTakesEffect ==
  AllQuiet /\ ~lost => \A s \in Sequencers : registry[s] = wanted

(* What was accepted is worked off by every sequencer.                     *)
WorkedOff == []<>AllQuiet
=============================================================================
