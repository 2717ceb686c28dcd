----------------------- MODULE FeedsRegistry_proofs -----------------------
(***************************************************************************)
(* The registries of feeds for any number of sequencers, feeds, commands   *)
(* and restarts, as long as nothing of Mishaps goes wrong.                 *)
(*                                                                         *)
(* A command is accepted only while no other one for its feed is on its    *)
(* way.  So all commands on their way to the topic are for different feeds *)
(* (Alone), a sequencer has no accepted command for a feed of a block that *)
(* it has still to read (NoneUnread), and a feed of an own block that it   *)
(* has still to read is in no other block or command on the way            *)
(* (NoneAfterOwn).  What a sequencer's registry will say of a feed when    *)
(* its manager has worked off its channel is therefore what the topic says *)
(* up to the sequencer's offset, except that of the feeds of its own       *)
(* blocks it is already ahead (View); every delete in the channel finds    *)
(* its feed, as the topic gives every delete its feed (Deletes).  The      *)
(* heights tell a sequencer which of its own blocks it has applied         *)
(* (Heights).                                                              *)
(***************************************************************************)
EXTENDS FeedsRegistry, SequenceTheorems, FiniteSetTheorems, TLAPS

LEMMA Constants ==
  /\ IsFiniteSet(Sequencers) /\ ConfigFeeds \subseteq Feeds /\ Convertible \subseteq Feeds
  /\ MaxCmdsInBlock \in Nat /\ Mishaps \subseteq AllMishaps
  /\ MaxCmds \in Nat /\ MaxRestarts \in Nat
BY FeedsRegistryAssumption DEF FeedsRegistryAssumption

-----------------------------------------------------------------------------
(* Sequences.                                                              *)

LEMMA TailOf ==
  ASSUME NEW S, NEW q \in Seq(S), q # <<>>
  PROVE  /\ Head(q) = q[1] /\ Head(q) \in S /\ Tail(q) \in Seq(S)
         /\ Len(q) \in Nat /\ Len(q) > 0 /\ Len(Tail(q)) = Len(q) - 1
         /\ \A i \in 1..(Len(q) - 1) : Tail(q)[i] = q[i + 1]
         /\ Elems(q) = Elems(Tail(q)) \union {Head(q)}
<1>1. /\ Len(q) \in Nat \ {0} /\ DOMAIN q = 1..Len(q)
      /\ Head(q) = q[1] /\ Head(q) \in S /\ Tail(q) \in Seq(S) /\ Len(Tail(q)) = Len(q) - 1
  BY HeadTailProperties
<1>2. DOMAIN Tail(q) = 1..(Len(q) - 1)
  BY <1>1
<1>3. \A i \in 1..(Len(q) - 1) : Tail(q)[i] = q[i + 1]
  BY <1>1, HeadTailProperties
<1>4. Elems(Tail(q)) \subseteq Elems(q) /\ Head(q) \in Elems(q)
  BY <1>1, <1>2, <1>3 DEF Elems
<1>5. ASSUME NEW i \in DOMAIN q
      PROVE  q[i] \in Elems(Tail(q)) \union {Head(q)}
  <2>1. CASE i = 1
    BY <1>1, <2>1
  <2>2. CASE i # 1
    <3>1. i - 1 \in 1..(Len(q) - 1) /\ (i - 1) + 1 = i
      BY <1>1, <2>2
    <3>2. Tail(q)[i - 1] = q[i]
      BY <1>3, <3>1
    <3>. QED
      BY <1>2, <3>1, <3>2 DEF Elems
  <2>. QED
    BY <2>1, <2>2
<1>6. Elems(q) \subseteq Elems(Tail(q)) \union {Head(q)}
  BY <1>5 DEF Elems
<1>. QED
  BY <1>1, <1>3, <1>4, <1>6

LEMMA PushedTo ==
  ASSUME NEW S, NEW q \in Seq(S), NEW x \in S
  PROVE  /\ Append(q, x) \in Seq(S) /\ Len(q) \in Nat /\ Len(Append(q, x)) = Len(q) + 1
         /\ DOMAIN q = 1..Len(q) /\ DOMAIN Append(q, x) = 1..(Len(q) + 1)
         /\ \A i \in 1..Len(q) : Append(q, x)[i] = q[i]
         /\ Append(q, x)[Len(q) + 1] = x
         /\ Elems(Append(q, x)) = Elems(q) \union {x}
<1>1. /\ Len(q) \in Nat /\ DOMAIN q = 1..Len(q)
      /\ Append(q, x) \in Seq(S) /\ Len(Append(q, x)) = Len(q) + 1
      /\ \A i \in 1..Len(q) : Append(q, x)[i] = q[i]
      /\ Append(q, x)[Len(q) + 1] = x
  BY AppendProperties
<1>2. DOMAIN Append(q, x) = 1..(Len(q) + 1)
  BY <1>1
<1>3. 1..(Len(q) + 1) = 1..Len(q) \union {Len(q) + 1}
  BY <1>1
<1>4. Elems(Append(q, x)) = Elems(q) \union {x}
  BY <1>1, <1>2, <1>3 DEF Elems
<1>. QED
  BY <1>1, <1>2, <1>4

LEMMA JoinedTo ==
  ASSUME NEW S, NEW q \in Seq(S), NEW p \in Seq(S)
  PROVE  /\ q \o p \in Seq(S) /\ Len(q) \in Nat /\ Len(p) \in Nat
         /\ DOMAIN q = 1..Len(q) /\ DOMAIN p = 1..Len(p)
         /\ Len(q \o p) = Len(q) + Len(p) /\ DOMAIN (q \o p) = 1..(Len(q) + Len(p))
         /\ \A i \in 1..Len(q) : (q \o p)[i] = q[i]
         /\ \A i \in 1..Len(p) : (q \o p)[Len(q) + i] = p[i]
         /\ Elems(q \o p) = Elems(q) \union Elems(p)
<1>1. /\ Len(q) \in Nat /\ Len(p) \in Nat /\ DOMAIN q = 1..Len(q) /\ DOMAIN p = 1..Len(p)
      /\ q \o p \in Seq(S) /\ Len(q \o p) = Len(q) + Len(p)
      /\ \A i \in 1..(Len(q) + Len(p)) :
           (q \o p)[i] = IF i <= Len(q) THEN q[i] ELSE p[i - Len(q)]
  BY ConcatProperties
<1>2. DOMAIN (q \o p) = 1..(Len(q) + Len(p))
  BY <1>1
<1>3. ASSUME NEW i \in 1..Len(q)
      PROVE  (q \o p)[i] = q[i] /\ i \in DOMAIN (q \o p)
  BY <1>1, <1>2
<1>4. ASSUME NEW i \in 1..Len(p)
      PROVE  (q \o p)[Len(q) + i] = p[i] /\ Len(q) + i \in DOMAIN (q \o p)
  <2>1. Len(q) + i \in 1..(Len(q) + Len(p)) /\ ~(Len(q) + i <= Len(q)) /\ (Len(q) + i) - Len(q) = i
    BY <1>1
  <2>. QED
    BY <1>1, <1>2, <2>1
<1>5. ASSUME NEW i \in DOMAIN (q \o p)
      PROVE  (q \o p)[i] \in Elems(q) \union Elems(p)
  <2>1. CASE i <= Len(q)
    <3>1. i \in DOMAIN q /\ (q \o p)[i] = q[i]
      BY <1>1, <1>2, <2>1
    <3>. QED
      BY <3>1 DEF Elems
  <2>2. CASE ~(i <= Len(q))
    <3>1. i - Len(q) \in DOMAIN p /\ (q \o p)[i] = p[i - Len(q)]
      BY <1>1, <1>2, <2>2
    <3>. QED
      BY <3>1 DEF Elems
  <2>. QED
    BY <2>1, <2>2
<1>6. Elems(q) \subseteq Elems(q \o p) /\ Elems(p) \subseteq Elems(q \o p)
  <2>1. \A i \in DOMAIN (q \o p) : (q \o p)[i] \in Elems(q \o p)
    BY DEF Elems
  <2>2. \A i \in DOMAIN q : q[i] \in Elems(q \o p)
    BY <1>1, <1>3, <2>1
  <2>3. \A i \in DOMAIN p : p[i] \in Elems(q \o p)
    BY <1>1, <1>4, <2>1
  <2>. QED
    BY <2>2, <2>3 DEF Elems
<1>7. Elems(q \o p) \subseteq Elems(q) \union Elems(p)
  <2>1. ASSUME NEW x \in Elems(q \o p)
        PROVE  x \in Elems(q) \union Elems(p)
    <3>1. PICK i \in DOMAIN (q \o p) : x = (q \o p)[i]
      BY DEF Elems
    <3>. QED
      BY <1>5, <3>1
  <2>. QED
    BY <2>1
<1>. QED
  BY <1>1, <1>2, <1>3, <1>4, <1>6, <1>7

LEMMA ElemsOf ==
  ASSUME NEW S, NEW q \in Seq(S)
  PROVE  Elems(q) \subseteq S /\ (q = <<>> <=> Elems(q) = {})
<1>1. DOMAIN q = 1..Len(q) /\ Len(q) \in Nat /\ \A i \in 1..Len(q) : q[i] \in S
  OBVIOUS
<1>2. q # <<>> => Len(q) \in Nat \ {0}
  BY EmptySeq
<1>3. q # <<>> => 1 \in DOMAIN q
  BY <1>1, <1>2
<1>4. DOMAIN <<>> = {}
  OBVIOUS
<1>5. Elems(q) \subseteq S
  BY <1>1 DEF Elems
<1>6. q = <<>> => Elems(q) = {}
  BY <1>4 DEF Elems
<1>7. q # <<>> => Elems(q) # {}
  BY <1>3 DEF Elems
<1>. QED
  BY <1>5, <1>6, <1>7

-----------------------------------------------------------------------------
(* The commands of a block.                                                *)

Register(f) == [kind |-> "register", feed |-> f]
Delete(f) == [kind |-> "delete", feed |-> f]

Listed(new_feeds, feed_ids_to_rm) ==
  {Register(f) : f \in Elems(new_feeds)} \union {Delete(f) : f \in Elems(feed_ids_to_rm)}
In(b) == Listed(b.new_feeds, b.feed_ids_to_rm)

LEMMA CmdFields ==
  /\ \A f : /\ Register(f).kind = "register" /\ Register(f).feed = f
            /\ Delete(f).kind = "delete" /\ Delete(f).feed = f
  /\ \A f, g : Register(f) # Delete(g)
  /\ \A f \in Feeds : Register(f) \in Cmd /\ Delete(f) \in Cmd
  /\ \A c \in Cmd : /\ c.feed \in Feeds /\ c.kind \in {"register", "delete"}
                    /\ c.kind = "register" => c = Register(c.feed)
                    /\ c.kind = "delete" => c = Delete(c.feed)
BY DEF Register, Delete, Cmd

LEMMA CmdsOfBlock ==
  ASSUME NEW b \in Block
  PROVE  /\ b.new_feeds \in Seq(Feeds) /\ b.feed_ids_to_rm \in Seq(Feeds)
         /\ AsCmds("register", b.new_feeds) \in Seq(Cmd)
         /\ AsCmds("delete", b.feed_ids_to_rm) \in Seq(Cmd)
         /\ Len(AsCmds("register", b.new_feeds)) = Len(b.new_feeds)
         /\ Len(AsCmds("delete", b.feed_ids_to_rm)) = Len(b.feed_ids_to_rm)
         /\ \A i \in 1..Len(b.new_feeds) :
              AsCmds("register", b.new_feeds)[i] = Register(b.new_feeds[i])
         /\ \A i \in 1..Len(b.feed_ids_to_rm) :
              AsCmds("delete", b.feed_ids_to_rm)[i] = Delete(b.feed_ids_to_rm[i])
         /\ CmdsOf(b) \in Seq(Cmd)
<1>1. ASSUME NEW kind \in {"register", "delete"}, NEW q \in Seq(Feeds)
      PROVE  /\ AsCmds(kind, q) \in Seq(Cmd) /\ Len(AsCmds(kind, q)) = Len(q)
             /\ \A i \in 1..Len(q) : AsCmds(kind, q)[i] = [kind |-> kind, feed |-> q[i]]
  <2>1. Len(q) \in Nat /\ DOMAIN q = 1..Len(q) /\ \A i \in 1..Len(q) : q[i] \in Feeds
    OBVIOUS
  <2>2. AsCmds(kind, q) \in [1..Len(q) -> Cmd]
    BY <2>1 DEF AsCmds, Cmd
  <2>3. AsCmds(kind, q) \in Seq(Cmd)
    BY <2>1, <2>2
  <2>4. Len(AsCmds(kind, q)) = Len(q)
    BY <2>1, <2>2, <2>3
  <2>. QED
    BY <2>1, <2>3, <2>4 DEF AsCmds
<1>2. b.new_feeds \in Seq(Feeds) /\ b.feed_ids_to_rm \in Seq(Feeds)
  BY DEF Block
<1>. QED
  BY <1>1, <1>2, JoinedTo DEF CmdsOf, Register, Delete

-----------------------------------------------------------------------------
(* Types.                                                                  *)

LEMMA InitTypes == ASSUME Init PROVE TypeOK
<1>1. <<>> \in Seq(Cmd) /\ <<>> \in Seq(Feeds) /\ <<>> \in Seq(Block) /\ Len(<<>>) = 0
  BY EmptySeq
<1>2. /\ n_blocks \in Nat /\ latest_block_height \in [Sequencers -> 0..n_blocks]
      /\ n_cmds \in 0..MaxCmds /\ n_restarts \in 0..MaxRestarts
      /\ wanted \in SUBSET Feeds /\ lost \in BOOLEAN
      /\ registry \in [Sequencers -> SUBSET Feeds]
      /\ dead \in [Sequencers -> SUBSET {"block_creator", "feeds_slots_manager"}]
  <2>1. n_blocks \in Nat /\ n_cmds \in 0..MaxCmds /\ n_restarts \in 0..MaxRestarts
    BY Constants DEF Init
  <2>2. latest_block_height \in [Sequencers -> 0..n_blocks]
    BY DEF Init
  <2>3. wanted \in SUBSET Feeds /\ registry \in [Sequencers -> SUBSET Feeds]
    BY Constants DEF Init
  <2>4. dead \in [Sequencers -> SUBSET {"block_creator", "feeds_slots_manager"}] /\ lost \in BOOLEAN
    BY DEF Init
  <2>. QED
    BY <2>1, <2>2, <2>3, <2>4
<1>3. /\ cmds \in [Sequencers -> Seq(Cmd)] /\ manager_cmds \in [Sequencers -> Seq(Cmd)]
      /\ new_feeds_to_register \in [Sequencers -> Seq(Feeds)]
      /\ feeds_ids_to_delete \in [Sequencers -> Seq(Feeds)]
      /\ sending \in [Sequencers -> Seq(Block)] /\ topic \in Seq(Block)
  BY <1>1 DEF Init
<1>4. \A s \in Sequencers : /\ Len(new_feeds_to_register[s]) <= MaxCmdsInBlock
                            /\ Len(feeds_ids_to_delete[s]) <= MaxCmdsInBlock
  BY <1>1, Constants DEF Init
<1>5. offset \in [Sequencers -> 0..Len(topic)] /\ replay_end \in [Sequencers -> 0..Len(topic)]
  BY <1>1 DEF Init
<1>. QED
  BY <1>2, <1>3, <1>4, <1>5 DEF TypeOK

LEMMA PendingWith ==
  ASSUME NEW pending \in [Sequencers -> Seq(Feeds)], NEW s \in Sequencers, NEW q \in Seq(Feeds),
         \A t \in Sequencers : Len(pending[t]) <= MaxCmdsInBlock, Len(q) <= MaxCmdsInBlock
  PROVE  /\ [pending EXCEPT ![s] = q] \in [Sequencers -> Seq(Feeds)]
         /\ \A t \in Sequencers : Len([pending EXCEPT ![s] = q][t]) <= MaxCmdsInBlock
OBVIOUS

LEMMA PlacesWithin ==
  ASSUME NEW m \in Nat, NEW n \in Nat, m <= n, NEW g \in [Sequencers -> 0..m]
  PROVE  g \in [Sequencers -> 0..n]
<1>1. 0..m \subseteq 0..n
  OBVIOUS
<1>. QED
  BY <1>1

LEMMA AcceptTypes ==
  ASSUME TypeOK, NEW s \in Sequencers, NEW f \in Feeds, NEW kind \in {"register", "delete"},
         Accept(s, f, kind)
  PROVE  TypeOK'
<1>1. [kind |-> kind, feed |-> f] \in Cmd
  BY DEF Cmd
<1>2. Append(cmds[s], [kind |-> kind, feed |-> f]) \in Seq(Cmd)
  BY <1>1, PushedTo DEF TypeOK
<1>3. cmds' \in [Sequencers -> Seq(Cmd)] /\ wanted' \in SUBSET Feeds /\ n_cmds' \in 0..MaxCmds
  BY <1>2, Constants DEF Accept, TypeOK
<1>. QED
  BY <1>3 DEF Accept, TypeOK, pending_vars, start_vars

LEMMA RecvCmdTypes ==
  ASSUME TypeOK, NEW s \in Sequencers, RecvCmd(s)
  PROVE  TypeOK'
<1>. DEFINE c == Head(cmds[s])
            Pushed(q) == IF Full(q) THEN q ELSE Append(q, c.feed)
<1>1. c \in Cmd /\ Tail(cmds[s]) \in Seq(Cmd)
  BY TailOf DEF RecvCmd, TypeOK
<1>2. ASSUME NEW q \in Seq(Feeds), Len(q) <= MaxCmdsInBlock
      PROVE  Pushed(q) \in Seq(Feeds) /\ Len(Pushed(q)) <= MaxCmdsInBlock
  <2>1. c.feed \in Feeds
    BY <1>1, CmdFields
  <2>2. Append(q, c.feed) \in Seq(Feeds) /\ Len(Append(q, c.feed)) = Len(q) + 1 /\ Len(q) \in Nat
    BY <2>1, PushedTo
  <2>. QED
    BY <1>2, <2>2, Constants DEF Full
<1>3. /\ cmds' \in [Sequencers -> Seq(Cmd)] /\ lost' \in BOOLEAN
      /\ \/ /\ new_feeds_to_register' =
                 [new_feeds_to_register EXCEPT ![s] = Pushed(new_feeds_to_register[s])]
            /\ UNCHANGED feeds_ids_to_delete
         \/ /\ feeds_ids_to_delete' =
                 [feeds_ids_to_delete EXCEPT ![s] = Pushed(feeds_ids_to_delete[s])]
            /\ UNCHANGED new_feeds_to_register
  <2>1. cmds' \in [Sequencers -> Seq(Cmd)]
    BY <1>1 DEF RecvCmd, TypeOK
  <2>2. lost' \in BOOLEAN
    BY DEF RecvCmd, Full, TypeOK
  <2>. QED
    BY <2>1, <2>2 DEF RecvCmd
<1>. HIDE DEF Pushed, c
<1>4. /\ new_feeds_to_register' \in [Sequencers -> Seq(Feeds)]
      /\ feeds_ids_to_delete' \in [Sequencers -> Seq(Feeds)]
      /\ \A t \in Sequencers : /\ Len(new_feeds_to_register'[t]) <= MaxCmdsInBlock
                               /\ Len(feeds_ids_to_delete'[t]) <= MaxCmdsInBlock
  <2>1. /\ new_feeds_to_register[s] \in Seq(Feeds) /\ Len(new_feeds_to_register[s]) <= MaxCmdsInBlock
        /\ feeds_ids_to_delete[s] \in Seq(Feeds) /\ Len(feeds_ids_to_delete[s]) <= MaxCmdsInBlock
    BY DEF TypeOK
  <2>2. /\ \A t \in Sequencers : Len(new_feeds_to_register[t]) <= MaxCmdsInBlock
        /\ \A t \in Sequencers : Len(feeds_ids_to_delete[t]) <= MaxCmdsInBlock
        /\ new_feeds_to_register \in [Sequencers -> Seq(Feeds)]
        /\ feeds_ids_to_delete \in [Sequencers -> Seq(Feeds)]
    BY DEF TypeOK
  <2>3. CASE /\ new_feeds_to_register' =
                  [new_feeds_to_register EXCEPT ![s] = Pushed(new_feeds_to_register[s])]
             /\ UNCHANGED feeds_ids_to_delete
    BY <1>2, <2>1, <2>2, <2>3, PendingWith
  <2>4. CASE /\ feeds_ids_to_delete' =
                  [feeds_ids_to_delete EXCEPT ![s] = Pushed(feeds_ids_to_delete[s])]
             /\ UNCHANGED new_feeds_to_register
    BY <1>2, <2>1, <2>2, <2>4, PendingWith
  <2>. QED
    BY <1>3, <2>3, <2>4
<1>. QED
  BY <1>3, <1>4 DEF RecvCmd, TypeOK, env_vars, start_vars

(* The block that generate_block makes of what was collected.              *)
NextBlock(s) == [issuer |-> s, height |-> n_blocks + 1, new_feeds |-> new_feeds_to_register[s],
                 feed_ids_to_rm |-> feeds_ids_to_delete[s]]

LEMMA NextBlockTypes ==
  ASSUME TypeOK, NEW s \in Sequencers
  PROVE  /\ NextBlock(s) \in Block /\ CmdsOf(NextBlock(s)) \in Seq(Cmd)
         /\ NextBlock(s).issuer = s /\ NextBlock(s).height = n_blocks + 1
         /\ NextBlock(s).new_feeds = new_feeds_to_register[s]
         /\ NextBlock(s).feed_ids_to_rm = feeds_ids_to_delete[s]
<1>1. NextBlock(s) \in Block
  BY DEF NextBlock, Block, TypeOK
<1>. QED
  BY <1>1, CmdsOfBlock DEF NextBlock

LEMMA GenerateBlockTypes ==
  ASSUME TypeOK, NEW s \in Sequencers, GenerateBlock(s)
  PROVE  TypeOK'
<1>. DEFINE b == NextBlock(s)
<1>1. b \in Block /\ CmdsOf(b) \in Seq(Cmd) /\ <<b>> \in Seq(Block) /\ b.height = n_blocks + 1
  BY NextBlockTypes
<1>2. /\ new_feeds_to_register' = [new_feeds_to_register EXCEPT ![s] = <<>>]
      /\ feeds_ids_to_delete' = [feeds_ids_to_delete EXCEPT ![s] = <<>>]
      /\ \/ /\ latest_block_height' = [latest_block_height EXCEPT ![s] = b.height]
            /\ manager_cmds' = [manager_cmds EXCEPT ![s] = manager_cmds[s] \o CmdsOf(b)]
            /\ sending' = [sending EXCEPT ![s] = <<b>>]
            /\ n_blocks' = n_blocks + 1
            /\ UNCHANGED dead
         \/ /\ dead' = [dead EXCEPT ![s] = @ \union {"block_creator"}]
            /\ UNCHANGED <<latest_block_height, manager_cmds, sending, n_blocks>>
  BY DEF GenerateBlock, NextBlock
<1>. HIDE DEF b
<1>3. <<>> \in Seq(Feeds) /\ Len(<<>>) = 0
  BY EmptySeq
<1>4. /\ new_feeds_to_register' \in [Sequencers -> Seq(Feeds)]
      /\ feeds_ids_to_delete' \in [Sequencers -> Seq(Feeds)]
      /\ \A t \in Sequencers : /\ Len(new_feeds_to_register'[t]) <= MaxCmdsInBlock
                               /\ Len(feeds_ids_to_delete'[t]) <= MaxCmdsInBlock
  BY <1>2, <1>3, Constants, PendingWith DEF TypeOK
<1>5. manager_cmds[s] \o CmdsOf(b) \in Seq(Cmd)
  BY <1>1, JoinedTo DEF TypeOK
<1>6. /\ latest_block_height' \in [Sequencers -> 0..n_blocks'] /\ n_blocks' \in Nat
      /\ sending' \in [Sequencers -> Seq(Block)] /\ manager_cmds' \in [Sequencers -> Seq(Cmd)]
      /\ dead' \in [Sequencers -> SUBSET {"block_creator", "feeds_slots_manager"}]
  <2>1. n_blocks \in Nat /\ n_blocks' \in Nat /\ n_blocks <= n_blocks' /\ n_blocks + 1 \in Nat
    <3>1. n_blocks \in Nat
      BY DEF TypeOK
    <3>2. n_blocks' = n_blocks + 1 \/ n_blocks' = n_blocks
      BY <1>2
    <3>. QED
      BY <3>1, <3>2
  <2>2. latest_block_height \in [Sequencers -> 0..n_blocks']
    BY <2>1, PlacesWithin DEF TypeOK
  <2>3. latest_block_height' \in [Sequencers -> 0..n_blocks']
    BY <1>1, <1>2, <2>1, <2>2
  <2>4. sending' \in [Sequencers -> Seq(Block)]
    BY <1>1, <1>2 DEF TypeOK
  <2>5. manager_cmds' \in [Sequencers -> Seq(Cmd)]
    BY <1>2, <1>5 DEF TypeOK
  <2>6. dead' \in [Sequencers -> SUBSET {"block_creator", "feeds_slots_manager"}]
    BY <1>2 DEF TypeOK
  <2>. QED
    BY <2>1, <2>3, <2>4, <2>5, <2>6
<1>. QED
  BY <1>4, <1>6 DEF GenerateBlock, TypeOK, env_vars, start_vars

LEMMA KafkaTypes ==
  ASSUME TypeOK, NEW s \in Sequencers, topic' \in {topic, topic \o sending[s]},
         sending' = [sending EXCEPT ![s] = <<>>]
  PROVE  /\ topic' \in Seq(Block) /\ sending' \in [Sequencers -> Seq(Block)]
         /\ Len(topic) \in Nat /\ Len(topic') \in Nat /\ Len(topic) <= Len(topic')
<1>1. sending[s] \in Seq(Block) /\ topic \in Seq(Block)
  BY DEF TypeOK
<1>2. topic \o sending[s] \in Seq(Block) /\ Len(topic \o sending[s]) = Len(topic) + Len(sending[s])
      /\ Len(topic) \in Nat /\ Len(sending[s]) \in Nat
  BY <1>1, JoinedTo
<1>3. sending' \in [Sequencers -> Seq(Block)]
  BY EmptySeq DEF TypeOK
<1>4. /\ topic' \in Seq(Block) /\ Len(topic') \in Nat /\ Len(topic) <= Len(topic')
  <2>1. CASE topic' = topic
    BY <1>1, <1>2, <2>1
  <2>2. CASE topic' = topic \o sending[s]
    BY <1>2, <2>2
  <2>. QED
    BY <2>1, <2>2
<1>. QED
  BY <1>2, <1>3, <1>4

LEMMA RestartTypes ==
  ASSUME TypeOK, NEW s \in Sequencers, Restart(s)
  PROVE  TypeOK'
<1>1. /\ topic' \in Seq(Block) /\ sending' \in [Sequencers -> Seq(Block)]
      /\ Len(topic) \in Nat /\ Len(topic') \in Nat /\ Len(topic) <= Len(topic')
  BY KafkaTypes DEF Restart
<1>2. <<>> \in Seq(Feeds) /\ Len(<<>>) = 0 /\ <<>> \in Seq(Cmd)
  BY EmptySeq
<1>3. /\ new_feeds_to_register' \in [Sequencers -> Seq(Feeds)]
      /\ feeds_ids_to_delete' \in [Sequencers -> Seq(Feeds)]
      /\ \A t \in Sequencers : /\ Len(new_feeds_to_register'[t]) <= MaxCmdsInBlock
                               /\ Len(feeds_ids_to_delete'[t]) <= MaxCmdsInBlock
  BY <1>2, Constants DEF Restart, TypeOK
<1>4. /\ registry' \in [Sequencers -> SUBSET Feeds]
      /\ cmds' \in [Sequencers -> Seq(Cmd)] /\ manager_cmds' \in [Sequencers -> Seq(Cmd)]
      /\ latest_block_height' \in [Sequencers -> 0..n_blocks]
      /\ dead' \in [Sequencers -> SUBSET {"block_creator", "feeds_slots_manager"}]
      /\ n_restarts' \in 0..MaxRestarts
  BY <1>2, Constants DEF Restart, TypeOK
<1>5. offset' \in [Sequencers -> 0..Len(topic')] /\ replay_end' \in [Sequencers -> 0..Len(topic')]
  <2>1. offset \in [Sequencers -> 0..Len(topic')] /\ replay_end \in [Sequencers -> 0..Len(topic')]
    BY <1>1, PlacesWithin DEF TypeOK
  <2>2. 0 \in 0..Len(topic') /\ Len(topic') \in 0..Len(topic')
    BY <1>1
  <2>. QED
    BY <2>1, <2>2 DEF Restart
<1>. QED
  BY <1>1, <1>3, <1>4, <1>5 DEF Restart, TypeOK, env_vars

LEMMA NextTypes == ASSUME TypeOK, [Next]_vars PROVE TypeOK'
<1>1. CASE UNCHANGED vars
  BY <1>1 DEF vars, TypeOK, pending_vars, env_vars, start_vars
<1>2. ASSUME NEW s \in Sequencers, KafkaSendDone(s)
      PROVE  TypeOK'
  <2>1. /\ topic' \in Seq(Block) /\ sending' \in [Sequencers -> Seq(Block)]
        /\ Len(topic) \in Nat /\ Len(topic') \in Nat /\ Len(topic) <= Len(topic')
    BY <1>2, KafkaTypes DEF KafkaSendDone
  <2>2. offset \in [Sequencers -> 0..Len(topic')] /\ replay_end \in [Sequencers -> 0..Len(topic')]
    BY <2>1, PlacesWithin DEF TypeOK
  <2>. QED
    BY <1>2, <2>1, <2>2 DEF KafkaSendDone, TypeOK, pending_vars, env_vars, start_vars
<1>3. ASSUME NEW s \in Sequencers, ReadBlock(s)
      PROVE  TypeOK'
  <2>1. Len(topic) \in Nat /\ offset[s] \in 0..Len(topic) /\ offset[s] < Len(topic)
    BY <1>3 DEF ReadBlock, TypeOK
  <2>2. offset' \in [Sequencers -> 0..Len(topic)]
    <3>1. offset' = [offset EXCEPT ![s] = offset[s] + 1]
      BY <1>3 DEF ReadBlock
    <3>2. offset \in [Sequencers -> 0..Len(topic)]
      BY DEF TypeOK
    <3>3. offset[s] + 1 \in 0..Len(topic)
      BY <2>1
    <3>. QED
      BY <3>1, <3>2, <3>3
  <2>3. topic[offset[s] + 1] \in Block
    BY <2>1 DEF TypeOK
  <2>4. manager_cmds[s] \o CmdsOf(topic[offset[s] + 1]) \in Seq(Cmd)
    BY <2>3, CmdsOfBlock, JoinedTo DEF TypeOK
  <2>5. manager_cmds' \in [Sequencers -> Seq(Cmd)]
    BY <1>3, <2>4 DEF ReadBlock, TypeOK
  <2>. QED
    BY <1>3, <2>2, <2>5 DEF ReadBlock, TypeOK, pending_vars, env_vars, start_vars
<1>4. ASSUME NEW s \in Sequencers, HandleManagerCmd(s)
      PROVE  TypeOK'
  <2>1. Head(manager_cmds[s]) \in Cmd /\ Tail(manager_cmds[s]) \in Seq(Cmd)
    BY <1>4, TailOf DEF HandleManagerCmd, TypeOK
  <2>2. Head(manager_cmds[s]).feed \in Feeds
    BY <2>1, CmdFields
  <2>3. /\ registry' \in [Sequencers -> SUBSET Feeds] /\ manager_cmds' \in [Sequencers -> Seq(Cmd)]
        /\ dead' \in [Sequencers -> SUBSET {"block_creator", "feeds_slots_manager"}]
    BY <1>4, <2>1, <2>2 DEF HandleManagerCmd, TypeOK
  <2>. QED
    BY <1>4, <2>3 DEF HandleManagerCmd, TypeOK, pending_vars, env_vars, start_vars
<1>. QED
  BY <1>1, <1>2, <1>3, <1>4, AcceptTypes, RecvCmdTypes, GenerateBlockTypes, RestartTypes
     DEF Next, RegisterAssetFeed, DeleteAssetFeed

(* The types of everything the sequencers keep of feeds and their          *)
(* commands; the commands collected for a block never exceed what a block  *)
(* takes (MAX_NEW_FEEDS_IN_BLOCK), and no reader is past the topic's end.  *)
THEOREM TypeCorrect == Spec => []TypeOK
<1>1. Init => TypeOK
  BY InitTypes
<1>2. TypeOK /\ [Next]_vars => TypeOK'
  BY NextTypes
<1>. QED
  BY <1>1, <1>2, PTL DEF Spec

-----------------------------------------------------------------------------
(* The feeds that are registered after n blocks of the topic.              *)

Adds(n, f) == f \in Elems(topic[n].new_feeds)
Removes(n, f) == f \in Elems(topic[n].feed_ids_to_rm)

Registered(f, n) ==
  \/ \E i \in 1..n : Adds(i, f) /\ \A j \in i..n : ~Removes(j, f)
  \/ f \in ConfigFeeds /\ \A j \in 1..n : ~Removes(j, f)

LEMMA RegisteredFirst == ASSUME NEW f PROVE Registered(f, 0) <=> f \in ConfigFeeds
BY DEF Registered

LEMMA RegisteredNext ==
  ASSUME NEW f, NEW n \in Nat
  PROVE  Registered(f, n + 1) <=> (Registered(f, n) \/ Adds(n + 1, f)) /\ ~Removes(n + 1, f)
<1>1. 1..(n + 1) = 1..n \union {n + 1}
  OBVIOUS
<1>2. ASSUME NEW i \in 1..n
      PROVE  i..(n + 1) = i..n \union {n + 1}
  OBVIOUS
<1>3. (n + 1)..(n + 1) = {n + 1}
  OBVIOUS
<1>. QED
  BY <1>1, <1>2, <1>3 DEF Registered

LEMMA RegisteredStays ==
  ASSUME NEW f, NEW m \in Nat, NEW n \in Nat, m <= n,
         \A i \in (m + 1)..n : ~Adds(i, f) /\ ~Removes(i, f)
  PROVE  Registered(f, n) <=> Registered(f, m)
<1>1. 1..n = 1..m \union (m + 1)..n
  OBVIOUS
<1>2. ASSUME NEW i \in 1..m
      PROVE  i..n = i..m \union (m + 1)..n
  OBVIOUS
<1>. QED
  BY <1>1, <1>2 DEF Registered

(* A set of numbers has a least one.                                       *)
LEMMA LeastNumber ==
  ASSUME NEW m \in Nat, NEW D \in SUBSET (0..m), D # {}
  PROVE  \E n \in D : \A k \in D : n <= k
<1>. DEFINE T == {0..n : n \in D}
<1>1. T \subseteq FiniteSubsetsOf(0..m) /\ T # {}
  <2>1. IsFiniteSet(0..m)
    BY FS_Interval
  <2>2. T \subseteq SUBSET (0..m)
    OBVIOUS
  <2>3. FiniteSubsetsOf(0..m) = SUBSET (0..m)
    BY <2>1, FS_FiniteSubsetsOfFinite
  <2>4. T # {}
    <3>1. PICK n \in D : TRUE
      OBVIOUS
    <3>2. 0..n \in T
      OBVIOUS
    <3>. QED
      BY <3>2
  <2>. HIDE DEF T
  <2>. QED
    BY <2>2, <2>3, <2>4
<1>2. IsWellFoundedOn(StrictSubsetOrdering(0..m), FiniteSubsetsOf(0..m))
  BY FS_StrictSubsetOrderingWellFounded
<1>3. PICK X \in T : \A Y \in T : ~ (<<Y, X>> \in StrictSubsetOrdering(0..m))
  <2>. HIDE DEF T
  <2>. QED
    BY <1>1, <1>2, WFMin
<1>4. PICK n \in D : X = 0..n
  OBVIOUS
<1>5. ASSUME NEW k \in D, ~(n <= k)
      PROVE  FALSE
  <2>1. 0..k \subseteq 0..n /\ 0..k # 0..n
    BY <1>5
  <2>2. 0..k \in T /\ 0..k \subseteq 0..m /\ 0..n \subseteq 0..m
    OBVIOUS
  <2>. QED
    BY <1>3, <1>4, <2>1, <2>2 DEF StrictSubsetOrdering
<1>. QED
  BY <1>5

LEMMA ReplayedIsRegistered ==
  ASSUME TypeOK
  PROVE  Replayed = {f \in Feeds : Registered(f, Len(topic))}
<1>. DEFINE E(R) == [n \in 0..Len(topic) |-> IF n = 0 THEN ConfigFeeds ELSE Apply(R[n - 1], topic[n])]
            R == CHOOSE R : R = E(R)
            G == [n \in 0..Len(topic) |-> {f \in Feeds : Registered(f, n)}]
<1>1. Len(topic) \in Nat
  BY DEF TypeOK
<1>2. ASSUME NEW n \in 1..Len(topic)
      PROVE  G[n] = Apply(G[n - 1], topic[n])
  <2>1. n - 1 \in Nat /\ (n - 1) + 1 = n /\ n - 1 \in 0..Len(topic) /\ n \in 0..Len(topic)
    BY <1>1
  <2>2. Elems(topic[n].new_feeds) \subseteq Feeds
    <3>1. topic[n] \in Block
      BY DEF TypeOK
    <3>. QED
      BY <3>1, ElemsOf DEF Block
  <2>3. \A f \in Feeds : Registered(f, n) <=> (Registered(f, n - 1) \/ Adds(n, f)) /\ ~Removes(n, f)
    BY <2>1, RegisteredNext
  <2>. QED
    BY <2>1, <2>2, <2>3 DEF Apply, Adds, Removes
<1>3. G[0] = ConfigFeeds
  BY <1>1, RegisteredFirst, Constants
<1>4. G = E(G)
  <2>1. ASSUME NEW n \in 0..Len(topic)
        PROVE  G[n] = IF n = 0 THEN ConfigFeeds ELSE Apply(G[n - 1], topic[n])
    <3>1. n # 0 => n \in 1..Len(topic)
      BY <1>1
    <3>. HIDE DEF G
    <3>. QED
      BY <1>2, <1>3, <3>1
  <2>2. G = [n \in 0..Len(topic) |-> G[n]]
    OBVIOUS
  <2>. HIDE DEF G
  <2>. QED
    BY <2>1, <2>2
<1>5. R = E(R)
  <2>. HIDE DEF G, E
  <2>. QED
    BY <1>4
<1>6. Replayed = R[Len(topic)]
  BY DEF Replayed
<1>. HIDE DEF R
<1>7. \A n \in 0..Len(topic) : R[n] = IF n = 0 THEN ConfigFeeds ELSE Apply(R[n - 1], topic[n])
  <2>1. \A n \in 0..Len(topic) : E(R)[n] = IF n = 0 THEN ConfigFeeds ELSE Apply(R[n - 1], topic[n])
    OBVIOUS
  <2>. HIDE DEF E
  <2>. QED
    BY <1>5, <2>1
<1>8. G[Len(topic)] = {f \in Feeds : Registered(f, Len(topic))}
  BY <1>1
<1>. HIDE DEF G, E
<1>9. ASSUME R[Len(topic)] # G[Len(topic)]
      PROVE  FALSE
  <2>. DEFINE D == {n \in 0..Len(topic) : R[n] # G[n]}
  <2>1. Len(topic) \in D
    BY <1>1, <1>9
  <2>2. PICK n \in D : \A k \in D : n <= k
    BY <1>1, <2>1, LeastNumber
  <2>3. n # 0
    BY <1>3, <1>7, <2>2
  <2>4. n \in 1..Len(topic) /\ n - 1 \in 0..Len(topic) /\ ~(n <= n - 1)
    BY <1>1, <2>2, <2>3
  <2>5. R[n - 1] = G[n - 1]
    BY <2>2, <2>4
  <2>. QED
    BY <1>2, <1>7, <2>2, <2>3, <2>4, <2>5
<1>. QED
  BY <1>6, <1>8, <1>9

-----------------------------------------------------------------------------
(* What the manager makes of the commands in its channel: whether it has a *)
(* feed after the first n of them, and whether it finds every feed that it *)
(* is told to delete.                                                      *)

After(feeds, q, f, n) ==
  \/ \E i \in 1..n : q[i] = Register(f) /\ \A j \in (i + 1)..n : q[j] # Delete(f)
  \/ f \in feeds /\ \A j \in 1..n : q[j] # Delete(f)

FindsAll(feeds, q, f) == \A i \in 1..Len(q) : q[i] = Delete(f) => After(feeds, q, f, i - 1)

Handled(feeds, c) == IF c.kind = "register" THEN feeds \union {c.feed} ELSE feeds \ {c.feed}

LEMMA AfterNone ==
  ASSUME NEW feeds, NEW q, NEW f, NEW n \in Nat, \A i \in 1..n : q[i].feed # f
  PROVE  After(feeds, q, f, n) <=> f \in feeds
BY CmdFields DEF After

LEMMA AfterTail ==
  ASSUME NEW feeds, NEW q \in Seq(Cmd), q # <<>>, NEW f, NEW n \in 1..Len(q)
  PROVE  After(feeds, q, f, n) <=> After(Handled(feeds, Head(q)), Tail(q), f, n - 1)
<1>. DEFINE c == Head(q)
            p == Tail(q)
            rest == Handled(feeds, c)
<1>1. /\ Len(q) \in Nat /\ c = q[1] /\ c \in Cmd /\ \A i \in 1..(Len(q) - 1) : p[i] = q[i + 1]
  BY TailOf
<1>2. /\ c = Register(f) => f \in rest
      /\ c = Delete(f) => f \notin rest
      /\ c # Register(f) /\ c # Delete(f) => (f \in rest <=> f \in feeds)
  BY <1>1, CmdFields DEF Handled
<1>3. Register(f) # Delete(f)
  BY CmdFields
<1>4. \A i \in 1..n : i = 1 \/ (i - 1 \in 1..(n - 1) /\ q[i] = p[i - 1])
  <2>1. ASSUME NEW i \in 1..n, i # 1
        PROVE  i - 1 \in 1..(n - 1) /\ i - 1 \in 1..(Len(q) - 1) /\ (i - 1) + 1 = i
    BY <1>1, <2>1
  <2>. QED
    BY <1>1, <2>1
<1>5. \A i \in 1..(n - 1) : i + 1 \in 2..n /\ i + 1 \in 1..n /\ p[i] = q[i + 1]
  BY <1>1
<1>6. 1 \in 1..n /\ \A i \in 1..n : i = 1 \/ i \in 2..n
  BY <1>1
<1>. HIDE DEF c, p, rest
<1>7. ASSUME After(feeds, q, f, n)
      PROVE  After(rest, p, f, n - 1)
  <2>1. CASE \E i \in 1..n : q[i] = Register(f) /\ \A j \in (i + 1)..n : q[j] # Delete(f)
    <3>1. PICK i \in 1..n : q[i] = Register(f) /\ \A j \in (i + 1)..n : q[j] # Delete(f)
      BY <2>1
    <3>2. CASE i = 1
      BY <1>1, <1>2, <1>5, <3>1, <3>2 DEF After
    <3>3. CASE i # 1
      <4>1. i - 1 \in 1..(n - 1) /\ p[i - 1] = Register(f)
        BY <1>4, <3>1, <3>3
      <4>2. \A j \in ((i - 1) + 1)..(n - 1) : j \in 1..(n - 1) /\ j + 1 \in (i + 1)..n
        BY <3>3
      <4>. QED
        BY <1>5, <3>1, <4>1, <4>2 DEF After
    <3>. QED
      BY <3>2, <3>3
  <2>2. CASE f \in feeds /\ \A j \in 1..n : q[j] # Delete(f)
    <3>1. f \in rest
      BY <1>1, <1>2, <1>6, <2>2
    <3>. QED
      BY <1>5, <2>2, <3>1 DEF After
  <2>. QED
    BY <1>7, <2>1, <2>2 DEF After
<1>8. ASSUME After(rest, p, f, n - 1)
      PROVE  After(feeds, q, f, n)
  <2>1. CASE \E i \in 1..(n - 1) : p[i] = Register(f) /\ \A j \in (i + 1)..(n - 1) : p[j] # Delete(f)
    <3>1. PICK i \in 1..(n - 1) : p[i] = Register(f) /\ \A j \in (i + 1)..(n - 1) : p[j] # Delete(f)
      BY <2>1
    <3>2. i + 1 \in 1..n /\ q[i + 1] = Register(f)
      BY <1>5, <3>1
    <3>3. \A j \in ((i + 1) + 1)..n : j \in 1..n /\ j # 1 /\ j - 1 \in (i + 1)..(n - 1)
      OBVIOUS
    <3>. QED
      BY <1>4, <3>1, <3>2, <3>3 DEF After
  <2>2. CASE f \in rest /\ \A j \in 1..(n - 1) : p[j] # Delete(f)
    <3>1. \A j \in 2..n : q[j] # Delete(f)
      <4>1. \A j \in 2..n : j \in 1..n /\ j # 1
        OBVIOUS
      <4>. QED
        BY <1>4, <2>2, <4>1
    <3>2. CASE q[1] = Register(f)
      <4>1. \A j \in (1 + 1)..n : j \in 2..n
        OBVIOUS
      <4>. QED
        BY <1>6, <3>1, <3>2, <4>1 DEF After
    <3>3. CASE q[1] # Register(f)
      <4>1. f \in feeds /\ q[1] # Delete(f)
        BY <1>1, <1>2, <2>2, <3>3
      <4>. QED
        BY <1>6, <3>1, <4>1 DEF After
    <3>. QED
      BY <3>2, <3>3
  <2>. QED
    BY <1>8, <2>1, <2>2 DEF After
<1>. QED
  BY <1>7, <1>8 DEF rest, c, p

LEMMA AfterJoined ==
  ASSUME NEW feeds, NEW q \in Seq(Cmd), NEW p \in Seq(Cmd), NEW f, NEW mid,
         f \in mid <=> After(feeds, q, f, Len(q))
  PROVE  /\ \A n \in 0..Len(q) : After(feeds, q \o p, f, n) <=> After(feeds, q, f, n)
         /\ \A n \in 0..Len(p) : After(feeds, q \o p, f, Len(q) + n) <=> After(mid, p, f, n)
<1>. DEFINE r == q \o p
            l == Len(q)
<1>1. l \in Nat /\ Len(p) \in Nat
  BY JoinedTo
<1>2. /\ \A i \in 1..l : r[i] = q[i]
      /\ \A i \in 1..Len(p) : r[l + i] = p[i]
  BY JoinedTo
<1>. HIDE DEF r, l
<1>3. ASSUME NEW n \in 0..l
      PROVE  After(feeds, r, f, n) <=> After(feeds, q, f, n)
  <2>1. \A i \in 1..n : r[i] = q[i]
    BY <1>1, <1>2
  <2>2. \A i \in 1..n : \A j \in (i + 1)..n : r[j] = q[j]
    BY <1>1, <1>2
  <2>3. (\A j \in 1..n : r[j] # Delete(f)) <=> (\A j \in 1..n : q[j] # Delete(f))
    BY <2>1, Zenon
  <2>4. ASSUME NEW i \in 1..n
        PROVE  (\A j \in (i + 1)..n : r[j] # Delete(f)) <=> (\A j \in (i + 1)..n : q[j] # Delete(f))
    BY <2>2, Zenon
  <2>. QED
    BY <2>1, <2>3, <2>4, Zenon DEF After
<1>4. ASSUME NEW n \in 0..Len(p)
      PROVE  After(feeds, r, f, l + n) <=> After(mid, p, f, n)
  <2>0. n \in Nat
    BY <1>1
  <2>1. ASSUME NEW i \in 1..(l + n)
        PROVE  \/ i \in 1..l /\ r[i] = q[i]
               \/ i \notin 1..l /\ i - l \in 1..n /\ r[i] = p[i - l]
    <3>1. i <= l => i \in 1..l
      BY <1>1, <2>0
    <3>2. ~(i <= l) => i \notin 1..l /\ i - l \in 1..n /\ i - l \in 1..Len(p) /\ l + (i - l) = i
      BY <1>1, <2>0
    <3>. QED
      BY <1>2, <3>1, <3>2
  <2>2. \A i \in 1..l : i \in 1..(l + n)
    BY <1>1, <2>0
  <2>3. \A i \in 1..n : l + i \in 1..(l + n) /\ l + i \notin 1..l /\ r[l + i] = p[i]
    BY <1>1, <1>2, <2>0
  <2>4. ASSUME After(feeds, r, f, l + n)
        PROVE  After(mid, p, f, n)
    <3>1. CASE \E i \in 1..(l + n) : r[i] = Register(f) /\ \A j \in (i + 1)..(l + n) : r[j] # Delete(f)
      <4>1. PICK i \in 1..(l + n) : r[i] = Register(f) /\ \A j \in (i + 1)..(l + n) : r[j] # Delete(f)
        BY <3>1
      <4>2. CASE i \in 1..l
        <5>1. \A j \in (i + 1)..l : j \in 1..l /\ j \in (i + 1)..(l + n)
          BY <1>1, <2>0, <4>2
        <5>2. After(feeds, q, f, l)
          BY <1>2, <4>1, <4>2, <5>1 DEF After
        <5>3. \A j \in 1..n : l + j \in (i + 1)..(l + n)
          BY <1>1, <2>0, <4>2
        <5>. QED
          BY <2>3, <4>1, <5>2, <5>3 DEF After, l
      <4>3. CASE i \notin 1..l
        <5>1. i - l \in 1..n /\ p[i - l] = Register(f)
          BY <2>1, <4>1, <4>3
        <5>2. \A j \in ((i - l) + 1)..n : j \in 1..n /\ l + j \in (i + 1)..(l + n)
          BY <1>1, <2>0, <5>1
        <5>. QED
          BY <2>3, <4>1, <5>1, <5>2 DEF After
      <4>. QED
        BY <4>2, <4>3
    <3>2. CASE f \in feeds /\ \A j \in 1..(l + n) : r[j] # Delete(f)
      BY <1>2, <2>2, <2>3, <3>2 DEF After, l
    <3>. QED
      BY <2>4, <3>1, <3>2 DEF After
  <2>5. ASSUME After(mid, p, f, n)
        PROVE  After(feeds, r, f, l + n)
    <3>1. CASE \E i \in 1..n : p[i] = Register(f) /\ \A j \in (i + 1)..n : p[j] # Delete(f)
      <4>1. PICK i \in 1..n : p[i] = Register(f) /\ \A j \in (i + 1)..n : p[j] # Delete(f)
        BY <3>1
      <4>2. \A j \in ((l + i) + 1)..(l + n) : j \in 1..(l + n) /\ j \notin 1..l /\ j - l \in (i + 1)..n
        BY <1>1, <2>0
      <4>3. \A j \in ((l + i) + 1)..(l + n) : r[j] # Delete(f)
        BY <2>1, <4>1, <4>2
      <4>4. l + i \in 1..(l + n) /\ r[l + i] = Register(f)
        BY <2>3, <4>1
      <4>. QED
        BY <4>3, <4>4 DEF After
    <3>2. CASE f \in mid /\ \A j \in 1..n : p[j] # Delete(f)
      <4>1. After(feeds, q, f, l)
        BY <3>2 DEF l
      <4>2. CASE \E i \in 1..l : q[i] = Register(f) /\ \A j \in (i + 1)..l : q[j] # Delete(f)
        <5>1. PICK i \in 1..l : q[i] = Register(f) /\ \A j \in (i + 1)..l : q[j] # Delete(f)
          BY <4>2
        <5>2. \A j \in (i + 1)..(l + n) : j \in 1..(l + n) /\ (j \in 1..l => j \in (i + 1)..l)
          BY <1>1, <2>0
        <5>3. \A j \in (i + 1)..(l + n) : r[j] # Delete(f)
          BY <2>1, <3>2, <5>1, <5>2
        <5>4. i \in 1..(l + n) /\ r[i] = Register(f)
          BY <1>2, <2>2, <5>1
        <5>. QED
          BY <5>3, <5>4 DEF After
      <4>3. CASE f \in feeds /\ \A j \in 1..l : q[j] # Delete(f)
        BY <2>1, <3>2, <4>3 DEF After
      <4>. QED
        BY <4>1, <4>2, <4>3 DEF After
    <3>. QED
      BY <2>5, <3>1, <3>2 DEF After
  <2>. QED
    BY <2>4, <2>5
<1>. QED
  BY <1>3, <1>4 DEF r, l

LEMMA FindsAllTail ==
  ASSUME NEW feeds, NEW q \in Seq(Cmd), q # <<>>, NEW f, FindsAll(feeds, q, f)
  PROVE  /\ Head(q) = Delete(f) => f \in feeds
         /\ FindsAll(Handled(feeds, Head(q)), Tail(q), f)
<1>1. /\ Head(q) = q[1] /\ Tail(q) \in Seq(Cmd)
      /\ Len(q) \in Nat /\ Len(q) > 0 /\ Len(Tail(q)) = Len(q) - 1
      /\ \A i \in 1..(Len(q) - 1) : Tail(q)[i] = q[i + 1]
  BY TailOf
<1>2. Head(q) = Delete(f) => f \in feeds
  <2>1. 1 \in 1..Len(q) /\ 1 - 1 = 0
    BY <1>1
  <2>2. q[1] = Delete(f) => After(feeds, q, f, 0)
    BY <2>1 DEF FindsAll
  <2>. QED
    BY <1>1, <2>2 DEF After
<1>3. ASSUME NEW i \in 1..Len(Tail(q)), Tail(q)[i] = Delete(f)
      PROVE  After(Handled(feeds, Head(q)), Tail(q), f, i - 1)
  <2>1. i + 1 \in 1..Len(q) /\ (i + 1) - 1 = i /\ i \in 1..Len(q) /\ q[i + 1] = Delete(f)
    BY <1>1, <1>3
  <2>2. After(feeds, q, f, i)
    BY <2>1 DEF FindsAll
  <2>. QED
    BY <2>1, <2>2, AfterTail
<1>. QED
  BY <1>2, <1>3 DEF FindsAll

LEMMA FindsAllJoined ==
  ASSUME NEW feeds, NEW q \in Seq(Cmd), NEW p \in Seq(Cmd), NEW f, NEW mid,
         f \in mid <=> After(feeds, q, f, Len(q)), FindsAll(feeds, q, f), FindsAll(mid, p, f)
  PROVE  FindsAll(feeds, q \o p, f)
<1>1. /\ Len(q) \in Nat /\ Len(p) \in Nat /\ Len(q \o p) = Len(q) + Len(p)
      /\ \A i \in 1..Len(q) : (q \o p)[i] = q[i]
      /\ \A i \in 1..Len(p) : (q \o p)[Len(q) + i] = p[i]
  BY JoinedTo
<1>2. ASSUME NEW i \in 1..Len(q \o p), (q \o p)[i] = Delete(f)
      PROVE  After(feeds, q \o p, f, i - 1)
  <2>1. CASE i <= Len(q)
    <3>1. i \in 1..Len(q) /\ i - 1 \in 0..Len(q)
      BY <1>1, <2>1
    <3>2. After(feeds, q, f, i - 1)
      BY <1>1, <1>2, <3>1 DEF FindsAll
    <3>. QED
      BY <3>1, <3>2, AfterJoined
  <2>2. CASE ~(i <= Len(q))
    <3>. DEFINE k == i - Len(q)
    <3>1. k \in 1..Len(p) /\ k - 1 \in 0..Len(p) /\ Len(q) + k = i /\ Len(q) + (k - 1) = i - 1
      BY <1>1, <2>2
    <3>. HIDE DEF k
    <3>2. After(mid, p, f, k - 1)
      BY <1>1, <1>2, <3>1 DEF FindsAll
    <3>3. After(feeds, q \o p, f, Len(q) + (k - 1))
      BY <3>1, <3>2, AfterJoined
    <3>. QED
      BY <3>1, <3>3
  <2>. QED
    BY <2>1, <2>2
<1>. QED
  BY <1>2 DEF FindsAll

(* No feed is in a block twice, but that one to register may be.           *)
WellFormed(b) ==
  /\ \A i, j \in DOMAIN b.feed_ids_to_rm : b.feed_ids_to_rm[i] = b.feed_ids_to_rm[j] => i = j
  /\ Elems(b.new_feeds) \intersect Elems(b.feed_ids_to_rm) = {}

LEMMA BlockCmds ==
  ASSUME NEW b \in Block, NEW feeds, NEW f
  PROVE  /\ After(feeds, CmdsOf(b), f, Len(CmdsOf(b)))
              <=> (f \in feeds \/ f \in Elems(b.new_feeds)) /\ f \notin Elems(b.feed_ids_to_rm)
         /\ WellFormed(b) /\ (f \in Elems(b.feed_ids_to_rm) => f \in feeds)
              => FindsAll(feeds, CmdsOf(b), f)
<1>. DEFINE q == AsCmds("register", b.new_feeds)
            p == AsCmds("delete", b.feed_ids_to_rm)
            mid == feeds \union Elems(b.new_feeds)
<1>1. /\ q \in Seq(Cmd) /\ p \in Seq(Cmd) /\ CmdsOf(b) = q \o p
      /\ Len(q) = Len(b.new_feeds) /\ Len(p) = Len(b.feed_ids_to_rm)
      /\ Len(q) \in Nat /\ Len(p) \in Nat
      /\ \A i \in 1..Len(q) : q[i] = Register(b.new_feeds[i])
      /\ \A i \in 1..Len(p) : p[i] = Delete(b.feed_ids_to_rm[i])
      /\ Len(q \o p) = Len(q) + Len(p)
      /\ DOMAIN b.new_feeds = 1..Len(q) /\ DOMAIN b.feed_ids_to_rm = 1..Len(p)
  BY CmdsOfBlock, JoinedTo DEF CmdsOf
<1>. HIDE DEF q, p
<1>2. /\ \A i \in 1..Len(q) : q[i] # Delete(f) /\ (q[i] = Register(f) <=> b.new_feeds[i] = f)
      /\ \A i \in 1..Len(p) : p[i] # Register(f) /\ (p[i] = Delete(f) <=> b.feed_ids_to_rm[i] = f)
  <2>1. ASSUME NEW i \in 1..Len(q)
        PROVE  q[i] # Delete(f) /\ (q[i] = Register(f) <=> b.new_feeds[i] = f)
    <3>1. q[i] = Register(b.new_feeds[i])
      BY <1>1
    <3>. QED
      BY <3>1, CmdFields
  <2>2. ASSUME NEW i \in 1..Len(p)
        PROVE  p[i] # Register(f) /\ (p[i] = Delete(f) <=> b.feed_ids_to_rm[i] = f)
    <3>1. p[i] = Delete(b.feed_ids_to_rm[i])
      BY <1>1
    <3>. QED
      BY <3>1, CmdFields
  <2>. QED
    BY <2>1, <2>2
<1>3. f \in mid <=> After(feeds, q, f, Len(q))
  <2>1. \A i \in 1..Len(q) : \A j \in (i + 1)..Len(q) : j \in 1..Len(q)
    BY <1>1
  <2>2. f \in Elems(b.new_feeds) <=> \E i \in 1..Len(q) : q[i] = Register(f)
    BY <1>1, <1>2 DEF Elems
  <2>. QED
    BY <1>2, <2>1, <2>2 DEF After
<1>4. \A i \in 1..Len(p) : p[i] = Delete(f) => f \in Elems(b.feed_ids_to_rm)
  BY <1>1, <1>2 DEF Elems
<1>5. f \in Elems(b.feed_ids_to_rm) => \E i \in 1..Len(p) : p[i] = Delete(f)
  BY <1>1, <1>2 DEF Elems
<1>6. After(mid, p, f, Len(p)) <=> f \in mid /\ f \notin Elems(b.feed_ids_to_rm)
  BY <1>2, <1>4, <1>5 DEF After
<1>7. After(feeds, q \o p, f, Len(q) + Len(p)) <=> After(mid, p, f, Len(p))
  <2>. HIDE DEF mid
  <2>1. Len(p) \in 0..Len(p)
    BY <1>1
  <2>. QED
    BY <1>1, <1>3, <2>1, AfterJoined
<1>8. ASSUME WellFormed(b), f \in Elems(b.feed_ids_to_rm) => f \in feeds
      PROVE  FindsAll(feeds, CmdsOf(b), f)
  <2>1. FindsAll(feeds, q, f)
    BY <1>2 DEF FindsAll
  <2>2. ASSUME NEW i \in 1..Len(p), p[i] = Delete(f)
        PROVE  After(mid, p, f, i - 1)
    <3>1. f \in mid
      BY <1>4, <1>8, <2>2
    <3>2. \A j \in 1..(i - 1) : j \in 1..Len(p) /\ j # i
      BY <1>1
    <3>3. \A j \in 1..(i - 1) : p[j] # Delete(f)
      BY <1>1, <1>2, <1>8, <2>2, <3>2 DEF WellFormed
    <3>. QED
      BY <3>1, <3>3 DEF After
  <2>3. FindsAll(mid, p, f)
    BY <2>2 DEF FindsAll
  <2>. HIDE DEF mid
  <2>. QED
    BY <1>1, <1>3, <2>1, <2>3, FindsAllJoined
<1>. QED
  BY <1>1, <1>6, <1>7, <1>8

(* A block that is added to the channel of the manager.                    *)
LEMMA BlockTaken ==
  ASSUME NEW b \in Block, NEW feeds, NEW q \in Seq(Cmd), NEW f, WellFormed(b), FindsAll(feeds, q, f),
         f \in Elems(b.feed_ids_to_rm) => After(feeds, q, f, Len(q))
  PROVE  /\ After(feeds, q \o CmdsOf(b), f, Len(q \o CmdsOf(b)))
              <=> (After(feeds, q, f, Len(q)) \/ f \in Elems(b.new_feeds))
                   /\ f \notin Elems(b.feed_ids_to_rm)
         /\ FindsAll(feeds, q \o CmdsOf(b), f)
<1>. DEFINE p == CmdsOf(b)
            mid == IF After(feeds, q, f, Len(q)) THEN {f} ELSE {}
<1>1. f \in mid <=> After(feeds, q, f, Len(q))
  OBVIOUS
<1>. HIDE DEF mid
<1>2. p \in Seq(Cmd)
  BY CmdsOfBlock
<1>3. /\ After(mid, p, f, Len(p)) <=> (f \in mid \/ f \in Elems(b.new_feeds))
                                        /\ f \notin Elems(b.feed_ids_to_rm)
      /\ FindsAll(mid, p, f)
  BY <1>1, BlockCmds
<1>. HIDE DEF p
<1>4. Len(p) \in 0..Len(p) /\ Len(q \o p) = Len(q) + Len(p)
  BY <1>2, JoinedTo
<1>5. After(feeds, q \o p, f, Len(q) + Len(p)) <=> After(mid, p, f, Len(p))
  BY <1>1, <1>2, <1>4, AfterJoined
<1>6. FindsAll(feeds, q \o p, f)
  BY <1>1, <1>2, <1>3, FindsAllJoined
<1>. QED
  BY <1>1, <1>3, <1>4, <1>5, <1>6 DEF p

-----------------------------------------------------------------------------
(* The invariant.                                                          *)

(* The commands that a sequencer has accepted and not yet got into the     *)
(* topic: waiting for the block creator, collected for the next block, or  *)
(* in the block that is being sent.                                        *)
Queued(s) == Elems(cmds[s])
Collected(s) == Listed(new_feeds_to_register[s], feeds_ids_to_delete[s])
Sent(s) == UNION {In(b) : b \in Elems(sending[s])}
Accepted(s) == Queued(s) \union Collected(s) \union Sent(s)

FeedsOf(b) == Elems(b.new_feeds) \union Elems(b.feed_ids_to_rm)

(* The blocks that a sequencer has still to read, and those of them that   *)
(* it issued, and applied, after its last start.                           *)
Unread(s) == (offset[s] + 1)..Len(topic)
OwnUnread(s) == {i \in Unread(s) : topic[i].issuer = s /\ i > replay_end[s]}
OwnAhead(s) == Elems(sending[s]) \union {topic[i] : i \in OwnUnread(s)}

Heights ==
  /\ \A i \in 1..Len(topic) : topic[i].height > 0
  /\ \A s \in Sequencers :
       /\ Len(sending[s]) <= 1
       /\ \A b \in Elems(sending[s]) : b.issuer = s /\ 0 < b.height /\ b.height <= latest_block_height[s]
       /\ \A i \in 1..Len(topic) :
            topic[i].issuer = s /\ i > replay_end[s] => topic[i].height <= latest_block_height[s]
       /\ offset[s] < replay_end[s] => latest_block_height[s] = 0 /\ Accepted(s) = {}

Once(s) ==
  /\ \A i, j \in 1..Len(cmds[s]) : cmds[s][i].feed = cmds[s][j].feed => i = j
  /\ \A i, j \in 1..Len(feeds_ids_to_delete[s]) :
       feeds_ids_to_delete[s][i] = feeds_ids_to_delete[s][j] => i = j
  /\ Queued(s) \intersect Collected(s) = {}
  /\ (Queued(s) \union Collected(s)) \intersect Sent(s) = {}
  /\ \A b \in Elems(sending[s]) : WellFormed(b)

Alone ==
  \A s, t \in Sequencers : \A c \in Accepted(s), d \in Accepted(t) : c.feed = d.feed => s = t /\ c = d

NoneUnread ==
  \A s \in Sequencers : \A c \in Accepted(s) : \A i \in Unread(s) : c.feed \notin FeedsOf(topic[i])

NoneAfterOwn ==
  \A s \in Sequencers : \A i \in OwnUnread(s) : \A f \in FeedsOf(topic[i]) :
    /\ \A t \in Sequencers : \A c \in Accepted(t) : c.feed # f
    /\ \A j \in Unread(s) : f \in FeedsOf(topic[j]) => j = i

Deletes ==
  /\ \A s \in Sequencers : \A c \in Accepted(s) : c.kind = "delete" => Registered(c.feed, Len(topic))
  /\ \A i \in 1..Len(topic) : \A f \in Elems(topic[i].feed_ids_to_rm) : Registered(f, i - 1)
  /\ \A i \in 1..Len(topic) : WellFormed(topic[i])

Sees(s, f) == After(registry[s], manager_cmds[s], f, Len(manager_cmds[s]))

View(s) ==
  \A f \in Feeds :
    /\ \A b \in OwnAhead(s) : f \in FeedsOf(b) => (Sees(s, f) <=> f \in Elems(b.new_feeds))
    /\ (\A b \in OwnAhead(s) : f \notin FeedsOf(b)) => (Sees(s, f) <=> Registered(f, offset[s]))
    /\ FindsAll(registry[s], manager_cmds[s], f)

Paths == Alone /\ NoneUnread /\ NoneAfterOwn /\ Deletes
IInv == Heights /\ Paths /\ \A s \in Sequencers : Once(s) /\ View(s)

LEMMA ListedCmds ==
  ASSUME NEW q, NEW p
  PROVE  /\ \A c \in Listed(q, p) : \/ c.kind = "register" /\ c.feed \in Elems(q) /\ c = Register(c.feed)
                                    \/ c.kind = "delete" /\ c.feed \in Elems(p) /\ c = Delete(c.feed)
         /\ \A f \in Elems(q) : Register(f) \in Listed(q, p)
         /\ \A f \in Elems(p) : Delete(f) \in Listed(q, p)
         /\ Listed(q, p) = {} <=> Elems(q) = {} /\ Elems(p) = {}
<1>1. ASSUME NEW c \in Listed(q, p)
      PROVE  \/ c.kind = "register" /\ c.feed \in Elems(q) /\ c = Register(c.feed)
             \/ c.kind = "delete" /\ c.feed \in Elems(p) /\ c = Delete(c.feed)
  <2>1. CASE \E f \in Elems(q) : c = Register(f)
    BY <2>1, CmdFields
  <2>2. CASE \E f \in Elems(p) : c = Delete(f)
    BY <2>2, CmdFields
  <2>. QED
    BY <2>1, <2>2 DEF Listed
<1>2. /\ \A f \in Elems(q) : Register(f) \in Listed(q, p)
      /\ \A f \in Elems(p) : Delete(f) \in Listed(q, p)
  BY DEF Listed
<1>3. Elems(q) = {} /\ Elems(p) = {} => Listed(q, p) = {}
  BY DEF Listed
<1>. QED
  BY <1>1, <1>2, <1>3

LEMMA InBlock ==
  ASSUME NEW b
  PROVE  /\ \A c \in In(b) : c.feed \in FeedsOf(b)
         /\ \A f \in FeedsOf(b) : \E c \in In(b) : c.feed = f
         /\ \A f \in Elems(b.feed_ids_to_rm) : Delete(f) \in In(b)
         /\ \A f \in Elems(b.new_feeds) : Register(f) \in In(b)
<1>1. /\ \A f : Register(f).feed = f /\ Delete(f).feed = f
  BY CmdFields
<1>. QED
  BY <1>1, ListedCmds DEF In, FeedsOf

LEMMA AcceptedTypes ==
  ASSUME TypeOK, NEW s \in Sequencers
  PROVE  /\ Accepted(s) \subseteq Cmd
         /\ sending[s] \in Seq(Block) /\ Elems(sending[s]) \subseteq Block
         /\ Len(topic) \in Nat /\ offset[s] \in 0..Len(topic) /\ replay_end[s] \in 0..Len(topic)
         /\ latest_block_height[s] \in Nat
         /\ \A i \in 1..Len(topic) : topic[i] \in Block /\ topic[i].height \in Nat
<1>1. \A q, p \in Seq(Feeds) : Listed(q, p) \subseteq Cmd
  <2>1. ASSUME NEW q \in Seq(Feeds), NEW p \in Seq(Feeds)
        PROVE  Listed(q, p) \subseteq Cmd
    <3>1. Elems(q) \subseteq Feeds /\ Elems(p) \subseteq Feeds
      BY ElemsOf
    <3>. QED
      BY <3>1, CmdFields DEF Listed
  <2>. QED
    BY <2>1
<1>2. sending[s] \in Seq(Block) /\ Elems(sending[s]) \subseteq Block
  BY ElemsOf DEF TypeOK
<1>3. Collected(s) \subseteq Cmd
  BY <1>1 DEF TypeOK, Collected
<1>4. Sent(s) \subseteq Cmd
  <2>1. ASSUME NEW b \in Elems(sending[s])
        PROVE  In(b) \subseteq Cmd
    BY <1>1, <1>2 DEF In, Block
  <2>. QED
    BY <2>1 DEF Sent
<1>5. Queued(s) \subseteq Cmd
  BY ElemsOf DEF Queued, TypeOK
<1>6. /\ Len(topic) \in Nat /\ offset[s] \in 0..Len(topic) /\ replay_end[s] \in 0..Len(topic)
      /\ latest_block_height[s] \in Nat
      /\ \A i \in 1..Len(topic) : topic[i] \in Block
  BY DEF TypeOK
<1>7. \A b \in Block : b.height \in Nat
  BY DEF Block
<1>. QED
  BY <1>2, <1>3, <1>4, <1>5, <1>6, <1>7 DEF Accepted

(* At most one block is being sent.                                        *)
LEMMA SentBlock ==
  ASSUME TypeOK, Heights, NEW s \in Sequencers
  PROVE  \/ sending[s] = <<>> /\ Elems(sending[s]) = {} /\ Sent(s) = {}
         \/ \E b \in Block : sending[s] = <<b>> /\ Elems(sending[s]) = {b} /\ Sent(s) = In(b)
<1>1. sending[s] \in Seq(Block) /\ Len(sending[s]) <= 1 /\ Len(sending[s]) \in Nat
  BY DEF TypeOK, Heights
<1>2. CASE sending[s] = <<>>
  <2>1. Elems(sending[s]) = {}
    BY <1>1, <1>2, ElemsOf
  <2>. QED
    BY <1>2, <2>1 DEF Sent
<1>3. CASE sending[s] # <<>>
  <2>. DEFINE b == sending[s][1]
  <2>1. Len(sending[s]) = 1
    <3>1. sending[s] \in Seq(Block) /\ sending[s] # <<>>
      BY <1>1, <1>3
    <3>2. Len(sending[s]) > 0
      BY <3>1, TailOf
    <3>3. \A n \in Nat : n <= 1 /\ n > 0 => n = 1
      OBVIOUS
    <3>4. Len(sending[s]) \in Nat /\ Len(sending[s]) <= 1
      BY <1>1
    <3>. QED
      BY <3>2, <3>3, <3>4, Zenon
  <2>2. b \in Block /\ DOMAIN sending[s] = {1}
    BY <1>1, <2>1
  <2>3. sending[s] = <<b>>
    <3>1. <<b>> \in Seq(Block) /\ Len(<<b>>) = 1 /\ <<b>>[1] = b
      <4>. HIDE DEF b
      <4>. QED
        BY <2>2
    <3>2. \A i \in 1..Len(sending[s]) : i = 1
      BY <2>1
    <3>3. \A i \in 1..Len(sending[s]) : sending[s][i] = <<b>>[i]
      BY <3>1, <3>2
    <3>. HIDE DEF b
    <3>. QED
      BY <1>1, <2>1, <3>1, <3>3, SeqEqual
  <2>4. Elems(sending[s]) = {b}
    BY <2>2 DEF Elems
  <2>5. Sent(s) = In(b)
    BY <2>4 DEF Sent
  <2>. QED
    BY <2>2, <2>3, <2>4, <2>5
<1>. QED
  BY <1>2, <1>3

-----------------------------------------------------------------------------
(* Commands on their way to the topic and through it.                      *)

LEMMA TopicGrown ==
  ASSUME TypeOK, NEW b \in Block, topic' = topic \o <<b>>
  PROVE  /\ Len(topic') = Len(topic) + 1 /\ Len(topic) \in Nat
         /\ \A i \in 1..Len(topic) : topic'[i] = topic[i]
         /\ topic'[Len(topic) + 1] = b
         /\ \A f : \A n \in 0..Len(topic) : Registered(f, n)' <=> Registered(f, n)
         /\ \A f : Registered(f, Len(topic))'
                     <=> (Registered(f, Len(topic)) \/ f \in Elems(b.new_feeds))
                          /\ f \notin Elems(b.feed_ids_to_rm)
<1>1. topic \in Seq(Block) /\ <<b>> \in Seq(Block) /\ Len(<<b>>) = 1 /\ <<b>>[1] = b
  BY DEF TypeOK
<1>2. /\ Len(topic') = Len(topic) + 1 /\ Len(topic) \in Nat
      /\ \A i \in 1..Len(topic) : topic'[i] = topic[i]
      /\ topic'[Len(topic) + 1] = b
  BY <1>1, JoinedTo
<1>3. ASSUME NEW f, NEW n \in 0..Len(topic)
      PROVE  Registered(f, n)' <=> Registered(f, n)
  <2>1. /\ \A i \in 1..n : i \in 1..Len(topic)
        /\ \A i \in 1..n : \A j \in i..n : j \in 1..Len(topic)
    BY <1>2
  <2>2. \A i \in 1..Len(topic) : (Adds(i, f)' <=> Adds(i, f)) /\ (Removes(i, f)' <=> Removes(i, f))
    BY <1>2 DEF Adds, Removes
  <2>. QED
    BY <2>1, <2>2 DEF Registered
<1>4. ASSUME NEW f
      PROVE  Registered(f, Len(topic))' <=> (Registered(f, Len(topic)) \/ f \in Elems(b.new_feeds))
                                              /\ f \notin Elems(b.feed_ids_to_rm)
  <2>. SUFFICES ASSUME NEW n \in Nat, n = Len(topic)
                PROVE  Registered(f, n + 1)' <=> (Registered(f, n) \/ f \in Elems(b.new_feeds))
                                                   /\ f \notin Elems(b.feed_ids_to_rm)
    BY <1>2 DEF Registered, Adds, Removes
  <2>1. 1..(n + 1) = 1..n \union {n + 1} /\ (n + 1)..(n + 1) = {n + 1}
    OBVIOUS
  <2>2. ASSUME NEW i \in 1..n
        PROVE  i..(n + 1) = i..n \union {n + 1}
    OBVIOUS
  <2>3. Registered(f, n + 1)' <=> (Registered(f, n)' \/ Adds(n + 1, f)') /\ ~Removes(n + 1, f)'
    BY <2>1, <2>2 DEF Registered
  <2>4. /\ Adds(n + 1, f)' <=> f \in Elems(b.new_feeds)
        /\ Removes(n + 1, f)' <=> f \in Elems(b.feed_ids_to_rm)
    BY <1>2 DEF Adds, Removes
  <2>5. n \in 0..Len(topic)
    BY <1>2
  <2>. QED
    BY <1>3, <2>3, <2>4, <2>5
<1>. QED
  BY <1>2, <1>3, <1>4

LEMMA PlacesAfter ==
  ASSUME TypeOK', NEW s \in Sequencers
  PROVE  Len(topic') \in Nat /\ offset'[s] \in 0..Len(topic') /\ replay_end'[s] \in 0..Len(topic')
BY DEF TypeOK

LEMMA HeightsBelow ==
  ASSUME TypeOK, NEW s \in Sequencers
  PROVE  n_blocks \in Nat /\ latest_block_height[s] \in Nat /\ latest_block_height[s] <= n_blocks
BY DEF TypeOK

LEMMA PathsKept ==
  ASSUME TypeOK, TypeOK', Paths, topic' = topic,
         \A t \in Sequencers :
           /\ Accepted(t)' \subseteq Accepted(t)
           /\ \/ offset'[t] >= offset[t] /\ replay_end'[t] = replay_end[t]
              \/ Accepted(t)' = {} /\ replay_end'[t] = Len(topic)
  PROVE  Paths'
<1>1. Alone'
  BY DEF Paths, Alone
<1>2. ASSUME NEW t \in Sequencers, offset'[t] >= offset[t]
      PROVE  Unread(t)' \subseteq Unread(t)
  BY <1>2, AcceptedTypes, PlacesAfter DEF Unread
<1>3. ASSUME NEW t \in Sequencers
      PROVE  /\ OwnUnread(t)' \subseteq OwnUnread(t)
             /\ \/ OwnUnread(t)' = {} /\ Accepted(t)' = {}
                \/ Unread(t)' \subseteq Unread(t)
  <2>1. CASE offset'[t] >= offset[t] /\ replay_end'[t] = replay_end[t]
    BY <1>2, <2>1 DEF OwnUnread
  <2>2. CASE Accepted(t)' = {} /\ replay_end'[t] = Len(topic)
    <3>1. \A i \in Unread(t)' : ~(i > replay_end'[t])
      BY <2>2 DEF Unread, TypeOK
    <3>. QED
      BY <2>2, <3>1 DEF OwnUnread
  <2>. QED
    BY <2>1, <2>2
<1>4. NoneUnread'
  BY <1>3 DEF Paths, NoneUnread
<1>5. NoneAfterOwn'
  BY <1>3 DEF Paths, NoneAfterOwn
<1>6. \A f, n : Registered(f, n)' <=> Registered(f, n)
  BY DEF Registered, Adds, Removes
<1>7. Deletes'
  BY <1>6 DEF Paths, Deletes
<1>. QED
  BY <1>1, <1>4, <1>5, <1>7 DEF Paths

LEMMA PathsAppended ==
  ASSUME TypeOK, TypeOK', Paths, NEW s \in Sequencers, NEW b \in Block, b.issuer = s,
         In(b) \subseteq Accepted(s), WellFormed(b), topic' = topic \o <<b>>,
         Accepted(s)' \intersect In(b) = {},
         \A t \in Sequencers :
           /\ Accepted(t)' \subseteq Accepted(t)
           /\ \/ offset'[t] = offset[t] /\ replay_end'[t] = replay_end[t]
              \/ Accepted(t)' = {} /\ replay_end'[t] = Len(topic')
  PROVE  Paths'
<1>. DEFINE l == Len(topic)
<1>1. /\ Len(topic') = l + 1 /\ l \in Nat /\ topic'[l + 1] = b
      /\ \A i \in 1..l : topic'[i] = topic[i]
  BY TopicGrown
<1>2. Alone'
  BY DEF Paths, Alone
<1>3. ASSUME NEW t \in Sequencers
      PROVE  /\ offset[t] \in 0..l /\ \A i \in Unread(t) : i \in 1..l
             /\ \/ OwnUnread(t)' = {} /\ Accepted(t)' = {}
                \/ /\ Unread(t)' \subseteq Unread(t) \union {l + 1}
                   /\ OwnUnread(t)' \subseteq OwnUnread(t) \union {l + 1}
                   /\ l + 1 \in OwnUnread(t)' => t = s
  <2>1. offset[t] \in 0..l /\ \A i \in Unread(t) : i \in 1..l
    BY AcceptedTypes DEF Unread
  <2>2. CASE offset'[t] = offset[t] /\ replay_end'[t] = replay_end[t]
    <3>1. Unread(t)' \subseteq Unread(t) \union {l + 1}
      BY <1>1, <2>1, <2>2 DEF Unread
    <3>. QED
      BY <1>1, <2>1, <2>2, <3>1 DEF OwnUnread
  <2>3. CASE Accepted(t)' = {} /\ replay_end'[t] = Len(topic')
    <3>1. \A i \in Unread(t)' : ~(i > replay_end'[t])
      BY <2>3 DEF Unread, TypeOK
    <3>. QED
      BY <2>1, <2>3, <3>1 DEF OwnUnread
  <2>. QED
    BY <2>1, <2>2, <2>3
<1>4. \A f \in FeedsOf(b) : \E c \in In(b) : c.feed = f /\ c \in Accepted(s)
  BY InBlock
<1>5. ASSUME NEW t \in Sequencers, NEW d \in Accepted(t)'
      PROVE  d.feed \notin FeedsOf(b)
  <2>1. d \in Accepted(t)
    OBVIOUS
  <2>2. ASSUME NEW c \in In(b), c \in Accepted(s), c.feed = d.feed
        PROVE  FALSE
    <3>1. s = t /\ c = d
      BY <2>1, <2>2 DEF Paths, Alone
    <3>. QED
      BY <2>2, <3>1
  <2>. QED
    BY <1>4, <2>2
<1>6. NoneUnread'
  <2>1. ASSUME NEW t \in Sequencers, NEW c \in Accepted(t)', NEW i \in Unread(t)'
        PROVE  c.feed \notin FeedsOf(topic'[i])
    <3>1. CASE i = l + 1
      BY <1>1, <1>5, <3>1
    <3>2. CASE i # l + 1
      <4>1. i \in Unread(t) /\ topic'[i] = topic[i] /\ c \in Accepted(t)
        BY <1>1, <1>3, <3>2
      <4>. QED
        BY <4>1 DEF Paths, NoneUnread
    <3>. QED
      BY <3>1, <3>2
  <2>. QED
    BY <2>1 DEF NoneUnread, FeedsOf
<1>7. NoneAfterOwn'
  <2>1. ASSUME NEW t \in Sequencers, NEW i \in OwnUnread(t)', NEW f \in FeedsOf(topic'[i])
        PROVE  /\ \A u \in Sequencers : \A c \in Accepted(u)' : c.feed # f
               /\ \A j \in Unread(t)' : f \in FeedsOf(topic'[j]) => j = i
    <3>1. Unread(t)' \subseteq Unread(t) \union {l + 1}
      BY <1>3
    <3>2. CASE i = l + 1
      <4>1. t = s /\ f \in FeedsOf(b)
        BY <1>1, <1>3, <3>2
      <4>2. ASSUME NEW j \in Unread(t), f \in FeedsOf(topic'[j])
            PROVE  FALSE
        <5>1. PICK c \in Accepted(s) : c.feed = f
          BY <1>4, <4>1
        <5>2. f \in FeedsOf(topic[j])
          BY <1>1, <1>3, <4>2
        <5>. QED
          BY <4>1, <5>1, <5>2 DEF Paths, NoneUnread
      <4>3. \A j \in Unread(t)' : f \in FeedsOf(topic'[j]) => j = i
        BY <3>1, <3>2, <4>2
      <4>. QED
        BY <1>5, <4>1, <4>3
    <3>3. CASE i # l + 1
      <4>1. i \in OwnUnread(t) /\ i \in Unread(t)
        BY <1>3, <3>3 DEF OwnUnread
      <4>2. f \in FeedsOf(topic[i])
        BY <1>1, <1>3, <4>1
      <4>3. /\ \A u \in Sequencers : \A c \in Accepted(u) : c.feed # f
            /\ \A j \in Unread(t) : f \in FeedsOf(topic[j]) => j = i
        BY <4>1, <4>2 DEF Paths, NoneAfterOwn
      <4>4. f \notin FeedsOf(b)
        BY <1>4, <4>3
      <4>. QED
        BY <1>1, <1>3, <3>1, <4>3, <4>4
    <3>. QED
      BY <3>2, <3>3
  <2>. QED
    BY <2>1 DEF NoneAfterOwn, FeedsOf
<1>8. /\ \A f : \A n \in 0..l : Registered(f, n)' <=> Registered(f, n)
      /\ \A f : Registered(f, Len(topic))' <=> (Registered(f, l) \/ f \in Elems(b.new_feeds))
                                                /\ f \notin Elems(b.feed_ids_to_rm)
  BY TopicGrown
<1>9. ASSUME NEW t \in Sequencers, NEW c \in Accepted(t)', c.kind = "delete"
      PROVE  Registered(c.feed, Len(topic))'
  <2>1. Registered(c.feed, l)
    BY <1>9 DEF Paths, Deletes
  <2>2. c.feed \notin Elems(b.feed_ids_to_rm)
    BY <1>5 DEF FeedsOf
  <2>. QED
    BY <1>8, <2>1, <2>2
<1>10. ASSUME NEW i \in 1..(l + 1)
       PROVE  /\ WellFormed(topic'[i])
              /\ \A f \in Elems(topic'[i].feed_ids_to_rm) : Registered(f, i - 1)'
  <2>1. CASE i = l + 1
    <3>1. \A f \in Elems(b.feed_ids_to_rm) : Registered(f, l)
      <4>1. ASSUME NEW f \in Elems(b.feed_ids_to_rm)
            PROVE  Registered(f, l)
        <5>1. Delete(f) \in Accepted(s)
          BY InBlock
        <5>2. Delete(f).kind = "delete" /\ Delete(f).feed = f
          BY CmdFields
        <5>. QED
          BY <5>1, <5>2 DEF Paths, Deletes
      <4>. QED
        BY <4>1
    <3>2. i - 1 = l /\ l \in 0..l
      BY <1>1, <2>1
    <3>. QED
      BY <1>1, <1>8, <2>1, <3>1, <3>2
  <2>2. CASE i # l + 1
    <3>1. i \in 1..l /\ i - 1 \in 0..l
      BY <1>1, <2>2
    <3>. QED
      BY <1>1, <1>8, <3>1 DEF Paths, Deletes
  <2>. QED
    BY <2>1, <2>2
<1>11. Deletes'
  BY <1>1, <1>9, <1>10 DEF Deletes, WellFormed
<1>. QED
  BY <1>2, <1>6, <1>7, <1>11 DEF Paths

-----------------------------------------------------------------------------
(* The steps.                                                              *)

LEMMA OnceKept ==
  ASSUME NEW t \in Sequencers, Once(t), cmds'[t] = cmds[t],
         new_feeds_to_register'[t] = new_feeds_to_register[t],
         feeds_ids_to_delete'[t] = feeds_ids_to_delete[t], sending'[t] = sending[t]
  PROVE  Once(t)' /\ Accepted(t)' = Accepted(t)
BY DEF Once, Accepted, Queued, Collected, Sent

LEMMA ViewKept ==
  ASSUME TypeOK, NEW t \in Sequencers, View(t), registry'[t] = registry[t],
         manager_cmds'[t] = manager_cmds[t], sending'[t] = sending[t], offset'[t] = offset[t],
         replay_end'[t] = replay_end[t],
         topic' = topic \/ \E b \in Block : b.issuer # t /\ topic' = topic \o <<b>>
  PROVE  View(t)'
<1>1. \A f : (Sees(t, f)' <=> Sees(t, f)) /\ (Registered(f, offset[t])' <=> Registered(f, offset[t]))
  <2>1. \A f : Sees(t, f)' <=> Sees(t, f)
    BY DEF Sees
  <2>2. ASSUME NEW f
        PROVE  Registered(f, offset[t])' <=> Registered(f, offset[t])
    <3>. SUFFICES ASSUME NEW n \in 0..Len(topic), n = offset[t]
                  PROVE  Registered(f, n)' <=> Registered(f, n)
      BY AcceptedTypes DEF Registered, Adds, Removes
    <3>1. CASE topic' = topic
      BY <3>1 DEF Registered, Adds, Removes
    <3>2. CASE topic' # topic
      BY <3>2, TopicGrown
    <3>. QED
      BY <3>1, <3>2
  <2>. QED
    BY <2>1, <2>2
<1>2. OwnAhead(t)' = OwnAhead(t)
  <2>1. CASE topic' = topic
    BY <2>1 DEF OwnAhead, OwnUnread, Unread
  <2>2. ASSUME NEW b \in Block, b.issuer # t, topic' = topic \o <<b>>
        PROVE  OwnAhead(t)' = OwnAhead(t)
    <3>. DEFINE l == Len(topic)
    <3>1. /\ Len(topic') = l + 1 /\ l \in Nat /\ topic'[l + 1] = b
          /\ \A i \in 1..l : topic'[i] = topic[i]
          /\ offset[t] \in 0..l
      BY <2>2, TopicGrown, AcceptedTypes
    <3>2. \A i \in Unread(t)' : i = l + 1 \/ (i \in Unread(t) /\ i \in 1..l)
      BY <3>1 DEF Unread
    <3>3. \A i \in Unread(t) : i \in Unread(t)' /\ i \in 1..l
      BY <3>1 DEF Unread
    <3>4. OwnUnread(t)' = OwnUnread(t)
      BY <2>2, <3>1, <3>2, <3>3 DEF OwnUnread
    <3>5. \A i \in OwnUnread(t) : topic'[i] = topic[i]
      BY <3>1, <3>3 DEF OwnUnread
    <3>. QED
      BY <3>4, <3>5 DEF OwnAhead
  <2>. QED
    BY <2>1, <2>2
<1>. QED
  BY <1>1, <1>2 DEF View

LEMMA PartOf ==
  ASSUME NEW S, NEW q, NEW m \in Int, NEW n \in Int, \A i \in m..n : q[i] \in S
  PROVE  /\ SubSeq(q, m, n) \in Seq(S)
         /\ Len(SubSeq(q, m, n)) = IF m <= n THEN n - m + 1 ELSE 0
         /\ \A i \in 1..(n - m + 1) : SubSeq(q, m, n)[i] = q[m + i - 1]
BY SubSeqProperties

LEMMA NotUnderWay ==
  ASSUME TypeOK, NEW t \in Sequencers, NEW f, ~UnderWay(f, t)
  PROVE  /\ \A c \in Accepted(t) : c.feed # f
         /\ \A i \in Unread(t) : f \notin FeedsOf(topic[i])
         /\ \A i \in 1..Len(manager_cmds[t]) : manager_cmds[t][i].feed # f
<1>1. \A c \in Elems(cmds[t]) \union Elems(manager_cmds[t]) : c.feed # f
  <2>1. Elems(cmds[t] \o manager_cmds[t]) = Elems(cmds[t]) \union Elems(manager_cmds[t])
    BY JoinedTo DEF TypeOK
  <2>. QED
    BY <2>1 DEF UnderWay
<1>2. f \notin Elems(new_feeds_to_register[t]) \union Elems(feeds_ids_to_delete[t])
  <2>1. Elems(new_feeds_to_register[t] \o feeds_ids_to_delete[t])
          = Elems(new_feeds_to_register[t]) \union Elems(feeds_ids_to_delete[t])
    BY JoinedTo DEF TypeOK
  <2>. QED
    BY <2>1 DEF UnderWay
<1>3. \A b \in Elems(sending[t]) \union {topic[i] : i \in Unread(t)} : f \notin FeedsOf(b)
  <2>. DEFINE p == SubSeq(topic, offset[t] + 1, Len(topic))
              m == offset[t] + 1
              n == Len(topic)
  <2>1. /\ topic \in Seq(Block) /\ n \in Nat /\ offset[t] \in 0..n /\ m \in Nat \ {0}
        /\ sending[t] \in Seq(Block) /\ Elems(sending[t]) \subseteq Block
        /\ \A i \in 1..n : topic[i] \in Block
    <3>1. topic \in Seq(Block)
      BY DEF TypeOK
    <3>2. /\ n \in Nat /\ offset[t] \in 0..n
          /\ sending[t] \in Seq(Block) /\ Elems(sending[t]) \subseteq Block
          /\ \A i \in 1..n : topic[i] \in Block
      BY AcceptedTypes
    <3>. QED
      BY <3>1, <3>2
  <2>2. \A i \in m..n : i \in 1..n
    BY <2>1
  <2>3. /\ p \in Seq(Block) /\ Len(p) = IF m <= n THEN n - m + 1 ELSE 0
        /\ \A i \in 1..(n - m + 1) : p[i] = topic[m + i - 1]
    <3>1. \A i \in m..n : topic[i] \in Block
      BY <2>1, <2>2
    <3>2. p = SubSeq(topic, m, n)
      OBVIOUS
    <3>3. m \in Int /\ n \in Int
      BY <2>1
    <3>. HIDE DEF m, n, p
    <3>4. /\ SubSeq(topic, m, n) \in Seq(Block)
          /\ Len(SubSeq(topic, m, n)) = IF m <= n THEN n - m + 1 ELSE 0
          /\ \A i \in 1..(n - m + 1) : SubSeq(topic, m, n)[i] = topic[m + i - 1]
      BY <3>1, <3>3, PartOf
    <3>. QED
      BY <3>2, <3>4
  <2>. HIDE DEF p
  <2>4. Elems(sending[t] \o p) = Elems(sending[t]) \union Elems(p)
    BY <2>1, <2>3, JoinedTo
  <2>5. ASSUME NEW i \in Unread(t)
        PROVE  topic[i] \in Elems(p)
    <3>1. i \in m..n
      BY DEF Unread
    <3>2. i - m + 1 \in 1..(n - m + 1) /\ m + (i - m + 1) - 1 = i /\ m <= n
      BY <2>1, <3>1
    <3>3. i - m + 1 \in DOMAIN p
      BY <2>3, <3>2
    <3>4. p[i - m + 1] = topic[i]
      BY <2>3, <3>2
    <3>. QED
      BY <3>3, <3>4 DEF Elems
  <2>6. ASSUME NEW b \in Elems(sending[t]) \union {topic[i] : i \in Unread(t)}
        PROVE  f \notin FeedsOf(b)
    <3>1. b \in Elems(sending[t] \o p)
      BY <2>4, <2>5
    <3>2. f \notin Elems(b.new_feeds \o b.feed_ids_to_rm)
      BY <3>1 DEF UnderWay, p
    <3>3. b \in Block
      BY <2>1, <2>2 DEF Unread
    <3>4. Elems(b.new_feeds \o b.feed_ids_to_rm) = Elems(b.new_feeds) \union Elems(b.feed_ids_to_rm)
      BY <3>3, JoinedTo DEF Block
    <3>. QED
      BY <3>2, <3>4 DEF FeedsOf
  <2>. QED
    BY <2>6
<1>4. \A c \in Accepted(t) : c.feed # f
  <2>1. \A c \in Collected(t) : c.feed # f
    BY <1>2, ListedCmds DEF Collected
  <2>2. \A c \in Sent(t) : c.feed # f
    BY <1>3, InBlock DEF Sent
  <2>. QED
    BY <1>1, <2>1, <2>2 DEF Accepted, Queued
<1>5. \A i \in 1..Len(manager_cmds[t]) : manager_cmds[t][i].feed # f
  <2>1. DOMAIN manager_cmds[t] = 1..Len(manager_cmds[t])
    BY DEF TypeOK
  <2>. QED
    BY <1>1, <2>1 DEF Elems
<1>. QED
  BY <1>3, <1>4, <1>5

(* A command is accepted for a feed that nothing on its way concerns: the  *)
(* registry of the sequencer then says of the feed what the topic says.    *)
LEMMA AcceptIInv ==
  ASSUME Mishaps = {}, TypeOK, TypeOK', IInv, NEW s \in Sequencers, NEW f \in Feeds,
         NEW kind \in {"register", "delete"}, Accept(s, f, kind), kind = "delete" => f \in registry[s]
  PROVE  IInv'
<1>. DEFINE c == [kind |-> kind, feed |-> f]
<1>1. c \in Cmd /\ c.kind = kind /\ c.feed = f
  BY DEF Cmd
<1>2. /\ cmds' = [cmds EXCEPT ![s] = Append(@, c)]
      /\ offset[s] >= replay_end[s] /\ \A t \in Sequencers : ~UnderWay(f, t)
      /\ registry' = registry /\ new_feeds_to_register' = new_feeds_to_register
      /\ feeds_ids_to_delete' = feeds_ids_to_delete /\ sending' = sending
      /\ latest_block_height' = latest_block_height
      /\ manager_cmds' = manager_cmds /\ offset' = offset /\ topic' = topic /\ replay_end' = replay_end
  BY DEF Accept, Coordinated, pending_vars, start_vars
<1>. HIDE DEF c
<1>3. ASSUME NEW t \in Sequencers
      PROVE  /\ \A d \in Accepted(t) : d.feed # f
             /\ \A i \in Unread(t) : f \notin FeedsOf(topic[i])
             /\ \A i \in 1..Len(manager_cmds[t]) : manager_cmds[t][i].feed # f
  BY <1>2, NotUnderWay
<1>4. /\ cmds[s] \in Seq(Cmd) /\ cmds'[s] = Append(cmds[s], c)
      /\ \A t \in Sequencers : t # s => cmds'[t] = cmds[t]
  BY <1>2 DEF TypeOK
<1>5. /\ Len(cmds[s]) \in Nat /\ Len(cmds'[s]) = Len(cmds[s]) + 1
      /\ \A i \in 1..Len(cmds[s]) : cmds'[s][i] = cmds[s][i] /\ cmds[s][i] \in Elems(cmds[s])
      /\ cmds'[s][Len(cmds[s]) + 1] = c
      /\ Elems(cmds'[s]) = Elems(cmds[s]) \union {c}
  BY <1>1, <1>4, PushedTo DEF Elems
<1>6. \A t \in Sequencers :
        /\ Collected(t)' = Collected(t) /\ Sent(t)' = Sent(t)
        /\ Unread(t)' = Unread(t) /\ OwnUnread(t)' = OwnUnread(t) /\ OwnAhead(t)' = OwnAhead(t)
  BY <1>2 DEF Collected, Sent, Unread, OwnUnread, OwnAhead
<1>7. /\ Queued(s)' = Queued(s) \union {c} /\ Accepted(s)' = Accepted(s) \union {c}
      /\ \A t \in Sequencers : t # s => Queued(t)' = Queued(t) /\ Accepted(t)' = Accepted(t)
  BY <1>4, <1>5, <1>6 DEF Queued, Accepted
<1>8. ASSUME NEW t \in Sequencers, NEW d \in Accepted(t)'
      PROVE  d \in Accepted(t) \/ (t = s /\ d = c)
  BY <1>7
<1>9. Heights'
  <2>1. \A t \in Sequencers : offset[t] < replay_end[t] => t # s
    BY <1>2, AcceptedTypes
  <2>. QED
    BY <1>2, <1>7, <2>1 DEF IInv, Heights
<1>10. kind = "delete" => Registered(f, Len(topic))
  <2>. HAVE kind = "delete"
  <2>1. Sees(s, f)
    <3>1. Len(manager_cmds[s]) \in Nat
      BY DEF TypeOK
    <3>. QED
      BY <1>3, <3>1, AfterNone DEF Sees
  <2>2. \A b \in OwnAhead(s) : f \notin FeedsOf(b)
    <3>1. \A b \in Elems(sending[s]) : In(b) \subseteq Accepted(s)
      BY DEF Sent, Accepted
    <3>2. \A b \in Elems(sending[s]) : f \notin FeedsOf(b)
      BY <1>3, <3>1, InBlock
    <3>. QED
      BY <1>3, <3>2 DEF OwnAhead, OwnUnread
  <2>3. Registered(f, offset[s])
    BY <2>1, <2>2 DEF IInv, View
  <2>4. offset[s] \in Nat /\ Len(topic) \in Nat /\ offset[s] <= Len(topic)
    BY AcceptedTypes
  <2>5. \A i \in (offset[s] + 1)..Len(topic) : ~Adds(i, f) /\ ~Removes(i, f)
    BY <1>3 DEF Unread, FeedsOf, Adds, Removes
  <2>. QED
    BY <2>3, <2>4, <2>5, RegisteredStays
<1>11. \A g, n : Registered(g, n)' <=> Registered(g, n)
  BY <1>2 DEF Registered, Adds, Removes
<1>12. Paths'
  <2>1. Alone'
    BY <1>1, <1>3, <1>8 DEF IInv, Paths, Alone
  <2>2. NoneUnread'
    <3>1. ASSUME NEW t \in Sequencers, NEW d \in Accepted(t)', NEW i \in Unread(t)
          PROVE  d.feed \notin FeedsOf(topic[i])
      BY <1>1, <1>3, <1>8, <3>1 DEF IInv, Paths, NoneUnread
    <3>. QED
      BY <1>2, <1>6, <3>1 DEF NoneUnread, FeedsOf
  <2>3. NoneAfterOwn'
    <3>1. ASSUME NEW t \in Sequencers, NEW i \in OwnUnread(t), NEW g \in FeedsOf(topic[i])
          PROVE  /\ \A u \in Sequencers : \A d \in Accepted(u)' : d.feed # g
                 /\ \A j \in Unread(t) : g \in FeedsOf(topic[j]) => j = i
      <4>1. g # f
        BY <1>3, <3>1 DEF OwnUnread
      <4>. QED
        BY <1>1, <1>8, <3>1, <4>1 DEF IInv, Paths, NoneAfterOwn
    <3>. QED
      BY <1>2, <1>6, <3>1 DEF NoneAfterOwn, FeedsOf
  <2>4. Deletes'
    <3>1. \A t \in Sequencers : \A d \in Accepted(t)' :
            d.kind = "delete" => Registered(d.feed, Len(topic))
      BY <1>1, <1>8, <1>10 DEF IInv, Paths, Deletes
    <3>2. /\ \A i \in 1..Len(topic) : \A g \in Elems(topic[i].feed_ids_to_rm) : Registered(g, i - 1)
          /\ \A i \in 1..Len(topic) : WellFormed(topic[i])
      BY DEF IInv, Paths, Deletes
    <3>. QED
      BY <1>2, <1>11, <3>1, <3>2 DEF Deletes, WellFormed
  <2>. QED
    BY <2>1, <2>2, <2>3, <2>4 DEF Paths
<1>13. ASSUME NEW t \in Sequencers
       PROVE  Once(t)' /\ View(t)'
  <2>1. View(t)'
    BY <1>2, ViewKept DEF IInv
  <2>2. CASE t # s
    BY <1>2, <1>4, <2>1, <2>2, OnceKept DEF IInv
  <2>3. CASE t = s
    <3>1. c \notin Collected(s) /\ c \notin Sent(s)
      BY <1>1, <1>3 DEF Accepted
    <3>2. ASSUME NEW i \in 1..Len(cmds'[s]), NEW j \in 1..Len(cmds'[s]),
                 cmds'[s][i].feed = cmds'[s][j].feed
          PROVE  i = j
      <4>1. \A k \in 1..Len(cmds[s]) : cmds[s][k].feed # f
        BY <1>3, <1>5 DEF Accepted, Queued
      <4>2. \A k \in 1..Len(cmds'[s]) : k \in 1..Len(cmds[s]) \/ k = Len(cmds[s]) + 1
        BY <1>5
      <4>3. \A k, m \in 1..Len(cmds[s]) : cmds[s][k].feed = cmds[s][m].feed => k = m
        BY DEF IInv, Once
      <4>. QED
        BY <1>1, <1>5, <3>2, <4>1, <4>2, <4>3
    <3>3. Once(s)
      BY DEF IInv
    <3>4. /\ \A i, j \in 1..Len(feeds_ids_to_delete'[s]) :
               feeds_ids_to_delete'[s][i] = feeds_ids_to_delete'[s][j] => i = j
          /\ \A b \in Elems(sending'[s]) : WellFormed(b)
      BY <1>2, <3>3 DEF Once
    <3>5. /\ Queued(s)' \intersect Collected(s)' = {}
          /\ (Queued(s)' \union Collected(s)') \intersect Sent(s)' = {}
      BY <1>6, <1>7, <3>1, <3>3 DEF Once
    <3>6. Once(s)'
      BY <3>2, <3>4, <3>5 DEF Once, WellFormed
    <3>. QED
      BY <2>1, <2>3, <3>6
  <2>. QED
    BY <2>2, <2>3
<1>. QED
  BY <1>9, <1>12, <1>13 DEF IInv

(* The feeds to collect with one command more, or none if they are full.   *)
LEMMA CollectedOneMore ==
  ASSUME TypeOK, NEW s \in Sequencers, cmds[s] # <<>>, RecvCmd(s)
  PROVE  LET c == Head(cmds[s])
         IN  /\ Collected(s)' \subseteq Collected(s) \union {c}
             /\ lost' \/ Collected(s)' = Collected(s) \union {c}
             /\ \/ feeds_ids_to_delete'[s] = feeds_ids_to_delete[s]
                \/ /\ c = Delete(c.feed)
                   /\ feeds_ids_to_delete'[s] = Append(feeds_ids_to_delete[s], c.feed)
             /\ \A t \in Sequencers : t # s =>
                  /\ new_feeds_to_register'[t] = new_feeds_to_register[t]
                  /\ feeds_ids_to_delete'[t] = feeds_ids_to_delete[t]
<1>. DEFINE c == Head(cmds[s])
            q == new_feeds_to_register[s]
            p == feeds_ids_to_delete[s]
<1>1. cmds[s] \in Seq(Cmd) /\ q \in Seq(Feeds) /\ p \in Seq(Feeds)
  BY DEF TypeOK
<1>2. c \in Cmd
  BY <1>1, TailOf
<1>3. c.feed \in Feeds /\ (c.kind = "register" => c = Register(c.feed))
      /\ (c.kind # "register" => c = Delete(c.feed))
  BY <1>2, CmdFields
<1>4. /\ Elems(Append(q, c.feed)) = Elems(q) \union {c.feed}
      /\ Elems(Append(p, c.feed)) = Elems(p) \union {c.feed}
  BY <1>1, <1>3, PushedTo
<1>5. \/ /\ new_feeds_to_register' = new_feeds_to_register
         /\ feeds_ids_to_delete' = feeds_ids_to_delete /\ lost'
      \/ /\ c.kind = "register" /\ feeds_ids_to_delete' = feeds_ids_to_delete
         /\ new_feeds_to_register' = [new_feeds_to_register EXCEPT ![s] = Append(q, c.feed)]
      \/ /\ c.kind # "register" /\ new_feeds_to_register' = new_feeds_to_register
         /\ feeds_ids_to_delete' = [feeds_ids_to_delete EXCEPT ![s] = Append(p, c.feed)]
  <2>1. \A g : g \in [Sequencers -> Seq(Feeds)] => [g EXCEPT ![s] = g[s]] = g
    OBVIOUS
  <2>. QED
    BY <2>1 DEF RecvCmd, TypeOK
<1>. HIDE DEF c, q, p
<1>6. CASE /\ new_feeds_to_register' = new_feeds_to_register
           /\ feeds_ids_to_delete' = feeds_ids_to_delete /\ lost'
  BY <1>6 DEF Collected, c
<1>7. CASE /\ c.kind = "register" /\ feeds_ids_to_delete' = feeds_ids_to_delete
           /\ new_feeds_to_register' = [new_feeds_to_register EXCEPT ![s] = Append(q, c.feed)]
  <2>1. /\ new_feeds_to_register'[s] = Append(q, c.feed)
        /\ \A t \in Sequencers : t # s => new_feeds_to_register'[t] = new_feeds_to_register[t]
    BY <1>7 DEF TypeOK
  <2>2. Collected(s)' = Listed(Append(q, c.feed), p) /\ Collected(s) = Listed(q, p)
    BY <1>7, <2>1 DEF Collected, q, p
  <2>3. Listed(Append(q, c.feed), p) = Listed(q, p) \union {c}
    BY <1>3, <1>4, <1>7 DEF Listed
  <2>. QED
    BY <1>7, <2>1, <2>2, <2>3 DEF c
<1>8. CASE /\ c.kind # "register" /\ new_feeds_to_register' = new_feeds_to_register
           /\ feeds_ids_to_delete' = [feeds_ids_to_delete EXCEPT ![s] = Append(p, c.feed)]
  <2>1. /\ feeds_ids_to_delete'[s] = Append(p, c.feed)
        /\ \A t \in Sequencers : t # s => feeds_ids_to_delete'[t] = feeds_ids_to_delete[t]
    BY <1>8 DEF TypeOK
  <2>2. Collected(s)' = Listed(q, Append(p, c.feed)) /\ Collected(s) = Listed(q, p)
    BY <1>8, <2>1 DEF Collected, q, p
  <2>3. Listed(q, Append(p, c.feed)) = Listed(q, p) \union {c}
    BY <1>3, <1>4, <1>8 DEF Listed
  <2>. QED
    BY <1>3, <1>8, <2>1, <2>2, <2>3 DEF c, p
<1>. QED
  BY <1>5, <1>6, <1>7, <1>8

LEMMA RecvCmdIInv ==
  ASSUME TypeOK, TypeOK', IInv, NEW s \in Sequencers, RecvCmd(s)
  PROVE  IInv'
<1>. DEFINE c == Head(cmds[s])
<1>1. /\ sending[s] = <<>> /\ cmds[s] # <<>> /\ cmds' = [cmds EXCEPT ![s] = Tail(@)]
      /\ registry' = registry /\ sending' = sending /\ latest_block_height' = latest_block_height
      /\ manager_cmds' = manager_cmds /\ offset' = offset /\ topic' = topic /\ replay_end' = replay_end
  BY DEF RecvCmd, Creating, start_vars
<1>2. /\ cmds[s] \in Seq(Cmd) /\ cmds'[s] = Tail(cmds[s])
      /\ \A t \in Sequencers : t # s => cmds'[t] = cmds[t]
  BY <1>1 DEF TypeOK
<1>3. /\ c = cmds[s][1] /\ c \in Cmd
      /\ Len(cmds[s]) \in Nat /\ Len(cmds[s]) > 0 /\ Len(cmds'[s]) = Len(cmds[s]) - 1
      /\ \A i \in 1..(Len(cmds[s]) - 1) : cmds'[s][i] = cmds[s][i + 1]
      /\ Elems(cmds[s]) = Elems(cmds'[s]) \union {c}
  <2>1. /\ Head(cmds[s]) = cmds[s][1] /\ Head(cmds[s]) \in Cmd
        /\ Len(cmds[s]) \in Nat /\ Len(cmds[s]) > 0 /\ Len(Tail(cmds[s])) = Len(cmds[s]) - 1
        /\ \A i \in 1..(Len(cmds[s]) - 1) : Tail(cmds[s])[i] = cmds[s][i + 1]
        /\ Elems(cmds[s]) = Elems(Tail(cmds[s])) \union {Head(cmds[s])}
    BY <1>1, <1>2, TailOf
  <2>2. c = Head(cmds[s])
    OBVIOUS
  <2>. HIDE DEF c
  <2>. QED
    BY <1>2, <2>1, <2>2
<1>4. /\ Collected(s)' \subseteq Collected(s) \union {c}
      /\ \/ feeds_ids_to_delete'[s] = feeds_ids_to_delete[s]
         \/ /\ c = Delete(c.feed)
            /\ feeds_ids_to_delete'[s] = Append(feeds_ids_to_delete[s], c.feed)
      /\ \A t \in Sequencers : t # s => /\ new_feeds_to_register'[t] = new_feeds_to_register[t]
                                        /\ feeds_ids_to_delete'[t] = feeds_ids_to_delete[t]
  BY <1>1, CollectedOneMore
<1>. HIDE DEF c
<1>5. Once(s) /\ c \in Queued(s)
  BY <1>3 DEF IInv, Queued
<1>6. Sent(s)' = Sent(s) /\ Sent(s) = {}
  <2>1. Sent(s)' = Sent(s)
    BY <1>1 DEF Sent
  <2>. QED
    BY <1>1, <2>1, SentBlock DEF IInv
<1>7. Queued(s)' \subseteq Queued(s) /\ Accepted(s)' \subseteq Accepted(s)
  BY <1>3, <1>4, <1>5, <1>6 DEF Queued, Accepted
<1>8. \A t \in Sequencers : t # s => Once(t)' /\ Accepted(t)' = Accepted(t)
  BY <1>1, <1>2, <1>4, OnceKept DEF IInv
<1>9. Heights'
  <2>1. \A t \in Sequencers : Accepted(t) = {} => Accepted(t)' = {}
    BY <1>7, <1>8
  <2>. QED
    BY <1>1, <2>1 DEF IInv, Heights
<1>10. Paths'
  <2>1. \A t \in Sequencers : Accepted(t)' \subseteq Accepted(t) /\ offset'[t] >= offset[t]
    BY <1>1, <1>7, <1>8, AcceptedTypes
  <2>. QED
    BY <1>1, <2>1, PathsKept DEF IInv
<1>11. Once(s)'
  <2>1. ASSUME NEW i \in 1..Len(cmds'[s]), NEW j \in 1..Len(cmds'[s]),
               cmds'[s][i].feed = cmds'[s][j].feed
        PROVE  i = j
    <3>1. /\ i + 1 \in 1..Len(cmds[s]) /\ j + 1 \in 1..Len(cmds[s])
          /\ cmds'[s][i] = cmds[s][i + 1] /\ cmds'[s][j] = cmds[s][j + 1]
      BY <1>3
    <3>2. i + 1 = j + 1
      BY <1>5, <2>1, <3>1 DEF Once
    <3>. QED
      BY <1>3, <3>2
  <2>2. c \notin Queued(s)'
    <3>1. ASSUME NEW i \in DOMAIN cmds'[s], cmds'[s][i] = c
          PROVE  FALSE
      <4>1. DOMAIN cmds'[s] = 1..Len(cmds'[s])
        BY DEF TypeOK
      <4>2. i + 1 \in 1..Len(cmds[s]) /\ 1 \in 1..Len(cmds[s]) /\ i + 1 # 1 /\ cmds[s][i + 1] = cmds[s][1]
        BY <1>3, <3>1, <4>1
      <4>. QED
        BY <1>5, <4>2 DEF Once
    <3>. QED
      BY <3>1 DEF Queued, Elems
  <2>3. ASSUME NEW i \in 1..Len(feeds_ids_to_delete'[s]), NEW j \in 1..Len(feeds_ids_to_delete'[s]),
               feeds_ids_to_delete'[s][i] = feeds_ids_to_delete'[s][j]
        PROVE  i = j
    <3>1. CASE feeds_ids_to_delete'[s] = feeds_ids_to_delete[s]
      BY <1>5, <2>3, <3>1 DEF Once
    <3>2. CASE /\ c = Delete(c.feed)
               /\ feeds_ids_to_delete'[s] = Append(feeds_ids_to_delete[s], c.feed)
      <4>. DEFINE p == feeds_ids_to_delete[s]
      <4>1. p \in Seq(Feeds) /\ c.feed \in Feeds
        BY <1>3, CmdFields DEF TypeOK
      <4>2. /\ Len(p) \in Nat /\ Len(feeds_ids_to_delete'[s]) = Len(p) + 1
            /\ \A k \in 1..Len(p) : feeds_ids_to_delete'[s][k] = p[k] /\ p[k] \in Elems(p)
            /\ feeds_ids_to_delete'[s][Len(p) + 1] = c.feed
        BY <3>2, <4>1, PushedTo DEF Elems
      <4>3. c.feed \notin Elems(p)
        BY <1>5, <3>2, ListedCmds DEF Once, Collected
      <4>4. \A k, m \in 1..Len(p) : p[k] = p[m] => k = m
        BY <1>5 DEF Once
      <4>5. \A k \in 1..Len(feeds_ids_to_delete'[s]) : k \in 1..Len(p) \/ k = Len(p) + 1
        BY <4>2
      <4>. HIDE DEF p
      <4>. QED
        BY <2>3, <4>2, <4>3, <4>4, <4>5
    <3>. QED
      BY <1>4, <3>1, <3>2
  <2>4. /\ Queued(s)' \intersect Collected(s)' = {}
        /\ (Queued(s)' \union Collected(s)') \intersect Sent(s)' = {}
    BY <1>4, <1>5, <1>6, <1>7, <2>2 DEF Once
  <2>5. \A b \in Elems(sending'[s]) : WellFormed(b)
    BY <1>1, <1>5 DEF Once
  <2>. QED
    BY <2>1, <2>3, <2>4, <2>5 DEF Once, WellFormed
<1>12. \A t \in Sequencers : View(t)'
  BY <1>1, ViewKept DEF IInv
<1>. QED
  BY <1>8, <1>9, <1>10, <1>11, <1>12 DEF IInv

(* A sequencer whose block creator cannot convert a feed drops the         *)
(* commands of the block.                                                  *)
LEMMA DropIInv ==
  ASSUME TypeOK, TypeOK', IInv, NEW s \in Sequencers,
         new_feeds_to_register' = [new_feeds_to_register EXCEPT ![s] = <<>>],
         feeds_ids_to_delete' = [feeds_ids_to_delete EXCEPT ![s] = <<>>],
         UNCHANGED <<registry, cmds, latest_block_height, sending, manager_cmds, offset, topic, replay_end>>
  PROVE  IInv'
<1>1. /\ new_feeds_to_register'[s] = <<>> /\ feeds_ids_to_delete'[s] = <<>>
      /\ \A t \in Sequencers : t # s => /\ new_feeds_to_register'[t] = new_feeds_to_register[t]
                                        /\ feeds_ids_to_delete'[t] = feeds_ids_to_delete[t]
  BY DEF TypeOK
<1>2. Collected(s)' = {}
  <2>1. Elems(<<>>) = {}
    BY DEF Elems
  <2>2. Listed(<<>>, <<>>) = {}
    BY <2>1 DEF Listed
  <2>. QED
    BY <1>1, <2>2 DEF Collected
<1>3. Queued(s)' = Queued(s) /\ Sent(s)' = Sent(s) /\ Accepted(s)' \subseteq Accepted(s)
  BY <1>2 DEF Queued, Sent, Accepted
<1>4. \A t \in Sequencers : t # s => Once(t)' /\ Accepted(t)' = Accepted(t)
  BY <1>1, OnceKept DEF IInv
<1>5. Heights'
  <2>1. \A t \in Sequencers : Accepted(t) = {} => Accepted(t)' = {}
    BY <1>3, <1>4
  <2>. QED
    BY <2>1 DEF IInv, Heights
<1>6. Paths'
  <2>1. \A t \in Sequencers : Accepted(t)' \subseteq Accepted(t) /\ offset'[t] >= offset[t]
    BY <1>3, <1>4, AcceptedTypes
  <2>. QED
    BY <2>1, PathsKept DEF IInv
<1>7. Once(s)'
  <2>1. Once(s)
    BY DEF IInv
  <2>2. Len(feeds_ids_to_delete'[s]) = 0
    BY <1>1
  <2>3. /\ \A i, j \in 1..Len(cmds'[s]) : cmds'[s][i].feed = cmds'[s][j].feed => i = j
        /\ \A b \in Elems(sending'[s]) : WellFormed(b)
    BY <2>1 DEF Once
  <2>4. /\ Queued(s)' \intersect Collected(s)' = {}
        /\ (Queued(s)' \union Collected(s)') \intersect Sent(s)' = {}
    BY <1>2, <1>3, <2>1 DEF Once
  <2>. QED
    BY <2>2, <2>3, <2>4 DEF Once, WellFormed
<1>8. \A t \in Sequencers : View(t)'
  BY ViewKept DEF IInv
<1>. QED
  BY <1>4, <1>5, <1>6, <1>7, <1>8 DEF IInv

(* The commands of the next block go to the manager and, with the block,   *)
(* on their way to the topic.                                              *)
LEMMA GenerateIInv ==
  ASSUME TypeOK, TypeOK', IInv, NEW s \in Sequencers, GenerateBlock(s)
  PROVE  IInv'
<1>. DEFINE b == NextBlock(s)
<1>1. /\ sending[s] = <<>> /\ ~BlockIsEmpty(s)
      /\ new_feeds_to_register' = [new_feeds_to_register EXCEPT ![s] = <<>>]
      /\ feeds_ids_to_delete' = [feeds_ids_to_delete EXCEPT ![s] = <<>>]
      /\ registry' = registry /\ cmds' = cmds /\ offset' = offset /\ topic' = topic
      /\ replay_end' = replay_end
      /\ \/ UNCHANGED <<latest_block_height, sending, manager_cmds>>
         \/ /\ latest_block_height' = [latest_block_height EXCEPT ![s] = n_blocks + 1]
            /\ manager_cmds' = [manager_cmds EXCEPT ![s] = @ \o CmdsOf(b)]
            /\ sending' = [sending EXCEPT ![s] = <<b>>]
  BY DEF GenerateBlock, Creating, NextBlock, start_vars
<1>2. CASE UNCHANGED <<latest_block_height, sending, manager_cmds>>
  BY <1>1, <1>2, DropIInv
<1>3. CASE /\ latest_block_height' = [latest_block_height EXCEPT ![s] = n_blocks + 1]
           /\ manager_cmds' = [manager_cmds EXCEPT ![s] = @ \o CmdsOf(b)]
           /\ sending' = [sending EXCEPT ![s] = <<b>>]
  <2>1. /\ b \in Block /\ CmdsOf(b) \in Seq(Cmd) /\ b.issuer = s /\ b.height = n_blocks + 1
        /\ b.new_feeds = new_feeds_to_register[s] /\ b.feed_ids_to_rm = feeds_ids_to_delete[s]
    BY NextBlockTypes
  <2>. HIDE DEF b
  <2>2. /\ new_feeds_to_register'[s] = <<>> /\ feeds_ids_to_delete'[s] = <<>>
        /\ sending'[s] = <<b>> /\ latest_block_height'[s] = n_blocks + 1
        /\ manager_cmds'[s] = manager_cmds[s] \o CmdsOf(b)
    BY <1>1, <1>3 DEF TypeOK
  <2>3. \A t \in Sequencers : t # s =>
          /\ new_feeds_to_register'[t] = new_feeds_to_register[t]
          /\ feeds_ids_to_delete'[t] = feeds_ids_to_delete[t]
          /\ sending'[t] = sending[t] /\ latest_block_height'[t] = latest_block_height[t]
          /\ manager_cmds'[t] = manager_cmds[t]
    BY <1>1, <1>3 DEF TypeOK
  <2>4. Once(s) /\ Alone /\ Deletes /\ NoneUnread /\ View(s)
    BY DEF IInv, Paths
  <2>5. In(b) = Collected(s) /\ Collected(s) # {} /\ Collected(s) \subseteq Accepted(s)
    <3>1. Elems(new_feeds_to_register[s]) # {} \/ Elems(feeds_ids_to_delete[s]) # {}
      <4>1. new_feeds_to_register[s] \in Seq(Feeds) /\ feeds_ids_to_delete[s] \in Seq(Feeds)
        BY DEF TypeOK
      <4>. QED
        BY <1>1, <4>1, ElemsOf DEF BlockIsEmpty
    <3>. QED
      BY <2>1, <3>1, ListedCmds DEF In, Collected, Accepted
  <2>6. Collected(s)' = {} /\ Queued(s)' = Queued(s) /\ Sent(s)' = In(b) /\ Elems(sending'[s]) = {b}
    <3>1. Elems(<<>>) = {} /\ Elems(<<b>>) = {b}
      BY DEF Elems
    <3>2. Listed(<<>>, <<>>) = {}
      BY <3>1 DEF Listed
    <3>3. Elems(sending'[s]) = {b}
      BY <2>2, <3>1
    <3>. QED
      BY <1>1, <2>2, <3>2, <3>3 DEF Collected, Queued, Sent
  <2>7. Accepted(s)' \subseteq Accepted(s)
    BY <2>5, <2>6 DEF Accepted
  <2>8. \A t \in Sequencers : t # s => Once(t)' /\ Accepted(t)' = Accepted(t)
    BY <1>1, <2>3, OnceKept DEF IInv
  <2>9. Heights'
    <3>1. /\ n_blocks \in Nat /\ latest_block_height[s] <= n_blocks
          /\ \A i \in 1..Len(topic) : topic[i].height \in Nat
          /\ latest_block_height[s] \in Nat
      BY AcceptedTypes, HeightsBelow
    <3>2. offset'[s] >= replay_end'[s]
      BY <1>1, <2>5, AcceptedTypes DEF IInv, Heights
    <3>3. Len(sending'[s]) = 1
      BY <2>2
    <3>4. ASSUME NEW t \in Sequencers
          PROVE  /\ Len(sending'[t]) <= 1
                 /\ \A d \in Elems(sending'[t]) :
                      d.issuer = t /\ 0 < d.height /\ d.height <= latest_block_height'[t]
                 /\ \A i \in 1..Len(topic) : topic[i].issuer = t /\ i > replay_end[t]
                                               => topic[i].height <= latest_block_height'[t]
                 /\ offset'[t] < replay_end'[t] => latest_block_height'[t] = 0 /\ Accepted(t)' = {}
      <4>1. CASE t # s
        BY <1>1, <2>3, <2>8, <4>1 DEF IInv, Heights
      <4>2. CASE t = s
        <5>1. /\ \A d \in Elems(sending'[s]) :
                   d.issuer = s /\ 0 < d.height /\ d.height <= latest_block_height'[s]
              /\ \A i \in 1..Len(topic) : topic[i].issuer = s /\ i > replay_end[s]
                                            => topic[i].height <= latest_block_height'[s]
          <6>1. \A d \in Elems(sending'[s]) :
                  d.issuer = s /\ 0 < d.height /\ d.height <= latest_block_height'[s]
            BY <2>1, <2>2, <2>6, <3>1
          <6>2. \A i \in 1..Len(topic) : topic[i].issuer = s /\ i > replay_end[s]
                                            => topic[i].height <= latest_block_height[s]
            BY DEF IInv, Heights
          <6>. QED
            BY <2>2, <3>1, <6>1, <6>2
        <5>2. ~(offset'[s] < replay_end'[s])
          BY <1>1, <3>2, AcceptedTypes
        <5>3. Len(sending'[s]) <= 1
          BY <3>3
        <5>. QED
          BY <4>2, <5>1, <5>2, <5>3, Zenon
      <4>. QED
        BY <4>1, <4>2
    <3>. QED
      BY <1>1, <3>4 DEF IInv, Heights
  <2>10. Paths'
    <3>1. \A t \in Sequencers : Accepted(t)' \subseteq Accepted(t) /\ offset'[t] >= offset[t]
      BY <1>1, <2>7, <2>8, AcceptedTypes
    <3>. QED
      BY <1>1, <3>1, PathsKept DEF IInv
  <2>11. WellFormed(b)
    <3>1. ASSUME NEW f \in Elems(b.new_feeds), f \in Elems(b.feed_ids_to_rm)
          PROVE  FALSE
      <4>1. Register(f) \in Accepted(s) /\ Delete(f) \in Accepted(s)
        BY <2>5, <3>1, InBlock
      <4>. QED
        BY <2>4, <4>1, CmdFields DEF Alone
    <3>2. DOMAIN b.feed_ids_to_rm = 1..Len(feeds_ids_to_delete[s])
      BY <2>1 DEF TypeOK
    <3>. QED
      BY <2>1, <2>4, <3>1, <3>2 DEF WellFormed, Once
  <2>12. Once(s)'
    <3>1. Len(feeds_ids_to_delete'[s]) = 0
      BY <2>2
    <3>2. \A i, j \in 1..Len(cmds'[s]) : cmds'[s][i].feed = cmds'[s][j].feed => i = j
      BY <1>1, <2>4 DEF Once
    <3>3. /\ Queued(s)' \intersect Collected(s)' = {}
          /\ (Queued(s)' \union Collected(s)') \intersect Sent(s)' = {}
      BY <2>4, <2>5, <2>6 DEF Once
    <3>4. \A d \in Elems(sending'[s]) : WellFormed(d)
      BY <2>6, <2>11
    <3>. QED
      BY <3>1, <3>2, <3>3, <3>4 DEF Once, WellFormed
  <2>13. View(s)'
    <3>1. OwnAhead(s) = {topic[i] : i \in OwnUnread(s)} /\ OwnAhead(s)' = {b} \union OwnAhead(s)
      <4>1. Elems(sending[s]) = {}
        BY <1>1, SentBlock DEF IInv
      <4>2. OwnUnread(s)' = OwnUnread(s)
        BY <1>1 DEF OwnUnread, Unread
      <4>. QED
        BY <1>1, <2>6, <4>1, <4>2 DEF OwnAhead
    <3>2. ASSUME NEW f \in FeedsOf(b)
          PROVE  \A i \in Unread(s) : f \notin FeedsOf(topic[i])
      <4>1. PICK c \in Accepted(s) : c.feed = f
        BY <2>5, <3>2, InBlock
      <4>. QED
        BY <2>4, <4>1 DEF NoneUnread
    <3>3. \A f \in FeedsOf(b) : \A d \in OwnAhead(s) : f \notin FeedsOf(d)
      BY <3>1, <3>2 DEF OwnUnread
    <3>4. ASSUME NEW f \in Elems(b.feed_ids_to_rm)
          PROVE  Sees(s, f)
      <4>1. f \in FeedsOf(b) /\ f \in Feeds
        BY <2>1, ElemsOf DEF FeedsOf, Block
      <4>2. Registered(f, Len(topic))
        <5>1. Delete(f) \in Accepted(s) /\ Delete(f).kind = "delete" /\ Delete(f).feed = f
          BY <2>5, InBlock, CmdFields
        <5>. QED
          BY <2>4, <5>1 DEF Deletes
      <4>3. \A i \in (offset[s] + 1)..Len(topic) : ~Adds(i, f) /\ ~Removes(i, f)
        BY <3>2, <4>1 DEF Unread, FeedsOf, Adds, Removes
      <4>4. offset[s] \in Nat /\ Len(topic) \in Nat /\ offset[s] <= Len(topic)
        BY AcceptedTypes
      <4>5. Registered(f, offset[s])
        BY <4>2, <4>3, <4>4, RegisteredStays
      <4>. QED
        BY <2>4, <3>3, <4>1, <4>5 DEF View
    <3>5. ASSUME NEW f \in Feeds
          PROVE  /\ Sees(s, f)' <=> (Sees(s, f) \/ f \in Elems(b.new_feeds))
                                      /\ f \notin Elems(b.feed_ids_to_rm)
                 /\ FindsAll(registry[s], manager_cmds'[s], f)
      <4>1. manager_cmds[s] \in Seq(Cmd) /\ FindsAll(registry[s], manager_cmds[s], f)
        BY <2>4 DEF View, TypeOK
      <4>2. f \in Elems(b.feed_ids_to_rm) => After(registry[s], manager_cmds[s], f, Len(manager_cmds[s]))
        BY <3>4 DEF Sees
      <4>3. Sees(s, f)' <=> After(registry[s], manager_cmds[s] \o CmdsOf(b), f,
                                  Len(manager_cmds[s] \o CmdsOf(b)))
        BY <1>1, <2>2 DEF Sees
      <4>. QED
        BY <2>1, <2>2, <2>11, <4>1, <4>2, <4>3, BlockTaken DEF Sees
    <3>6. \A f : Registered(f, offset[s])' <=> Registered(f, offset[s])
      BY <1>1 DEF Registered, Adds, Removes
    <3>7. ASSUME NEW f \in Feeds
          PROVE  /\ \A d \in OwnAhead(s)' : f \in FeedsOf(d) => (Sees(s, f)' <=> f \in Elems(d.new_feeds))
                 /\ (\A d \in OwnAhead(s)' : f \notin FeedsOf(d))
                      => (Sees(s, f)' <=> Registered(f, offset[s]))
      <4>1. CASE f \in FeedsOf(b)
        <5>1. f \in Elems(b.new_feeds) => f \notin Elems(b.feed_ids_to_rm)
          BY <2>11 DEF WellFormed
        <5>2. f \in Elems(b.new_feeds) \/ f \in Elems(b.feed_ids_to_rm)
          BY <4>1 DEF FeedsOf
        <5>3. Sees(s, f)' <=> f \in Elems(b.new_feeds)
          BY <3>5, <5>1, <5>2
        <5>. QED
          BY <3>1, <3>3, <4>1, <5>3
      <4>2. CASE f \notin FeedsOf(b)
        <5>1. Sees(s, f)' <=> Sees(s, f)
          BY <3>5, <4>2 DEF FeedsOf
        <5>. QED
          BY <2>4, <3>1, <4>2, <5>1 DEF View
      <4>. QED
        BY <4>1, <4>2
    <3>. QED
      BY <1>1, <3>5, <3>6, <3>7 DEF View, FeedsOf
  <2>14. \A t \in Sequencers : t # s => View(t)'
    BY <1>1, <2>3, ViewKept DEF IInv
  <2>. QED
    BY <2>8, <2>9, <2>10, <2>12, <2>13, <2>14 DEF IInv
<1>. QED
  BY <1>1, <1>2, <1>3

(* A block that is in the topic is one of the unread ones of its issuer.   *)
LEMMA KafkaIInv ==
  ASSUME Mishaps = {}, TypeOK, TypeOK', IInv, NEW s \in Sequencers, KafkaSendDone(s)
  PROVE  IInv'
<1>1. /\ sending[s] # <<>> /\ sending' = [sending EXCEPT ![s] = <<>>] /\ topic' = topic \o sending[s]
      /\ registry' = registry /\ cmds' = cmds /\ new_feeds_to_register' = new_feeds_to_register
      /\ feeds_ids_to_delete' = feeds_ids_to_delete /\ latest_block_height' = latest_block_height
      /\ manager_cmds' = manager_cmds /\ offset' = offset /\ replay_end' = replay_end
  BY DEF KafkaSendDone, pending_vars, start_vars
<1>2. PICK b \in Block : sending[s] = <<b>> /\ Elems(sending[s]) = {b} /\ Sent(s) = In(b)
  BY <1>1, SentBlock DEF IInv
<1>3. sending'[s] = <<>> /\ \A t \in Sequencers : t # s => sending'[t] = sending[t]
  BY <1>1 DEF TypeOK
<1>4. Once(s) /\ Heights /\ Paths /\ View(s)
  BY DEF IInv
<1>5. /\ b.issuer = s /\ 0 < b.height /\ b.height <= latest_block_height[s] /\ WellFormed(b)
      /\ In(b) \subseteq Accepted(s)
  BY <1>2, <1>4 DEF Heights, Once, Accepted
<1>6. Sent(s)' = {} /\ Queued(s)' = Queued(s) /\ Collected(s)' = Collected(s) /\ Elems(sending'[s]) = {}
  <2>1. Elems(<<>>) = {}
    BY DEF Elems
  <2>2. Elems(sending'[s]) = {}
    BY <1>3, <2>1
  <2>. QED
    BY <1>1, <2>2 DEF Sent, Queued, Collected
<1>7. Accepted(s)' \subseteq Accepted(s) /\ Accepted(s)' \intersect In(b) = {}
  BY <1>2, <1>4, <1>6 DEF Accepted, Once
<1>8. \A t \in Sequencers : t # s => Once(t)' /\ Accepted(t)' = Accepted(t)
  BY <1>1, <1>3, OnceKept DEF IInv
<1>9. topic' = topic \o <<b>>
  BY <1>1, <1>2
<1>10. /\ Len(topic') = Len(topic) + 1 /\ Len(topic) \in Nat /\ topic'[Len(topic) + 1] = b
       /\ \A i \in 1..Len(topic) : topic'[i] = topic[i]
       /\ \A f : \A n \in 0..Len(topic) : Registered(f, n)' <=> Registered(f, n)
  BY <1>9, TopicGrown
<1>11. Heights'
  <2>1. \A i \in 1..Len(topic') : i \in 1..Len(topic) \/ i = Len(topic) + 1
    BY <1>10
  <2>2. ASSUME NEW i \in 1..Len(topic')
        PROVE  /\ topic'[i].height > 0
               /\ \A t \in Sequencers : topic'[i].issuer = t /\ i > replay_end[t]
                                          => topic'[i].height <= latest_block_height[t]
    <3>1. CASE i \in 1..Len(topic)
      BY <1>4, <1>10, <3>1 DEF Heights
    <3>2. CASE i = Len(topic) + 1
      <4>1. b.height > 0
        BY <1>5, <1>2 DEF Block
      <4>. QED
        BY <1>5, <1>10, <3>2, <4>1
    <3>. QED
      BY <2>1, <3>1, <3>2
  <2>3. ASSUME NEW t \in Sequencers
        PROVE  /\ Len(sending'[t]) <= 1
               /\ \A d \in Elems(sending'[t]) :
                    d.issuer = t /\ 0 < d.height /\ d.height <= latest_block_height[t]
               /\ offset[t] < replay_end[t] => latest_block_height[t] = 0 /\ Accepted(t)' = {}
    <3>1. CASE t = s
      <4>1. Len(sending'[s]) <= 1
        BY <1>3
      <4>2. Accepted(s) = {} => Accepted(s)' = {}
        BY <1>7
      <4>3. offset[s] < replay_end[s] => latest_block_height[s] = 0 /\ Accepted(s)' = {}
        BY <1>4, <4>2 DEF Heights
      <4>. QED
        BY <1>6, <3>1, <4>1, <4>3, Zenon
    <3>2. CASE t # s
      BY <1>3, <1>4, <1>8, <3>2 DEF Heights
    <3>. QED
      BY <3>1, <3>2
  <2>. QED
    BY <1>1, <2>2, <2>3 DEF Heights
<1>12. Paths'
  <2>1. \A t \in Sequencers : Accepted(t)' \subseteq Accepted(t)
    BY <1>7, <1>8
  <2>. QED
    BY <1>1, <1>4, <1>5, <1>7, <1>9, <2>1, PathsAppended
<1>13. Once(s)'
  <2>1. /\ \A i, j \in 1..Len(cmds'[s]) : cmds'[s][i].feed = cmds'[s][j].feed => i = j
        /\ \A i, j \in 1..Len(feeds_ids_to_delete'[s]) :
             feeds_ids_to_delete'[s][i] = feeds_ids_to_delete'[s][j] => i = j
    BY <1>1, <1>4 DEF Once
  <2>2. /\ Queued(s)' \intersect Collected(s)' = {}
        /\ (Queued(s)' \union Collected(s)') \intersect Sent(s)' = {}
    BY <1>4, <1>6 DEF Once
  <2>3. \A d \in Elems(sending'[s]) : WellFormed(d)
    BY <1>6
  <2>. QED
    BY <2>1, <2>2, <2>3 DEF Once, WellFormed
<1>14. View(s)'
  <2>. DEFINE l == Len(topic)
  <2>1. l \in Nat /\ offset[s] \in 0..l /\ replay_end[s] \in 0..l /\ Len(topic') = l + 1
        /\ topic'[l + 1] = b /\ \A i \in 1..l : topic'[i] = topic[i]
    BY <1>10, AcceptedTypes
  <2>2. \A i \in Unread(s)' : i = l + 1 \/ (i \in Unread(s) /\ i \in 1..l)
    BY <1>1, <2>1 DEF Unread
  <2>3. l + 1 \in Unread(s)' /\ \A i \in Unread(s) : i \in Unread(s)' /\ i \in 1..l
    BY <1>1, <2>1 DEF Unread
  <2>4. l + 1 > replay_end[s]
    BY <2>1
  <2>5. OwnUnread(s)' = OwnUnread(s) \union {l + 1}
    BY <1>1, <1>5, <2>1, <2>2, <2>3, <2>4 DEF OwnUnread
  <2>6. \A i \in OwnUnread(s) : topic'[i] = topic[i]
    BY <2>1, <2>3 DEF OwnUnread
  <2>7. OwnAhead(s)' = OwnAhead(s)
    BY <1>2, <1>6, <2>1, <2>5, <2>6 DEF OwnAhead
  <2>8. \A f : Sees(s, f)' <=> Sees(s, f)
    BY <1>1 DEF Sees
  <2>9. ASSUME NEW f
        PROVE  Registered(f, offset[s])' <=> Registered(f, offset[s])
    <3>. SUFFICES ASSUME NEW n \in 0..l, n = offset[s]
                  PROVE  Registered(f, n)' <=> Registered(f, n)
      BY <1>1, <2>1 DEF Registered, Adds, Removes
    <3>. QED
      BY <1>10
  <2>. QED
    BY <1>1, <1>4, <2>7, <2>8, <2>9 DEF View, FeedsOf
<1>15. \A t \in Sequencers : t # s => View(t)'
  <2>1. ASSUME NEW t \in Sequencers, t # s
        PROVE  View(t)'
    <3>1. \E d \in Block : d.issuer # t /\ topic' = topic \o <<d>>
      BY <1>5, <1>9, <2>1
    <3>. QED
      BY <1>1, <1>3, <2>1, <3>1, ViewKept DEF IInv
  <2>. QED
    BY <2>1
<1>. QED
  BY <1>8, <1>11, <1>12, <1>13, <1>14, <1>15 DEF IInv

(* The commands of a block that is read go to the manager, unless the      *)
(* sequencer issued it after its last start.                               *)
LEMMA ReadIInv ==
  ASSUME TypeOK, TypeOK', IInv, NEW s \in Sequencers, ReadBlock(s)
  PROVE  IInv'
<1>. DEFINE o == offset[s]
            b == topic[o + 1]
            q == manager_cmds[s]
<1>1. /\ o < Len(topic) /\ offset' = [offset EXCEPT ![s] = @ + 1]
      /\ manager_cmds' = IF ProcessBlock(s, b) THEN [manager_cmds EXCEPT ![s] = @ \o CmdsOf(b)]
                                               ELSE manager_cmds
      /\ registry' = registry /\ cmds' = cmds /\ new_feeds_to_register' = new_feeds_to_register
      /\ feeds_ids_to_delete' = feeds_ids_to_delete /\ latest_block_height' = latest_block_height
      /\ sending' = sending /\ topic' = topic /\ replay_end' = replay_end
  BY DEF ReadBlock, pending_vars, start_vars
<1>2. o \in Nat /\ o + 1 \in 1..Len(topic) /\ Len(topic) \in Nat /\ replay_end[s] \in Nat /\ b \in Block
  <2>1. Len(topic) \in Nat /\ o \in 0..Len(topic) /\ replay_end[s] \in 0..Len(topic)
    BY AcceptedTypes
  <2>2. o + 1 \in 1..Len(topic)
    BY <1>1, <2>1
  <2>3. \A i \in 1..Len(topic) : topic[i] \in Block
    BY AcceptedTypes
  <2>. QED
    BY <2>1, <2>2, <2>3
<1>3. offset'[s] = o + 1 /\ \A t \in Sequencers : t # s => offset'[t] = offset[t]
  BY <1>1 DEF TypeOK
<1>4. /\ manager_cmds'[s] = IF ProcessBlock(s, b) THEN q \o CmdsOf(b) ELSE q
      /\ \A t \in Sequencers : t # s => manager_cmds'[t] = manager_cmds[t]
  BY <1>1 DEF TypeOK
<1>. HIDE DEF o, b, q
<1>5. Heights /\ Paths /\ View(s) /\ NoneUnread /\ NoneAfterOwn /\ Deletes
  BY DEF IInv, Paths
<1>6. \A t \in Sequencers : Once(t)' /\ Accepted(t)' = Accepted(t)
  BY <1>1, OnceKept DEF IInv
<1>7. Heights'
  <2>1. offset'[s] < replay_end[s] => offset[s] < replay_end[s]
    BY <1>2, <1>3 DEF o
  <2>2. \A t \in Sequencers : offset'[t] < replay_end[t] => offset[t] < replay_end[t]
    BY <1>3, <2>1
  <2>. QED
    BY <1>1, <1>5, <1>6, <2>2 DEF Heights
<1>8. Paths'
  <2>1. offset'[s] >= offset[s]
    BY <1>2, <1>3 DEF o
  <2>2. \A t \in Sequencers : offset'[t] >= offset[t]
    BY <1>3, <2>1, AcceptedTypes
  <2>. QED
    BY <1>1, <1>5, <1>6, <2>2, PathsKept
<1>9. \A t \in Sequencers : t # s => View(t)'
  BY <1>1, <1>3, <1>4, ViewKept DEF IInv
<1>10. ProcessBlock(s, b) <=> b.issuer # s \/ o + 1 <= replay_end[s]
  <2>1. b.height \in Nat /\ b.height > 0 /\ latest_block_height[s] \in Nat
    BY <1>2, <1>5, HeightsBelow DEF Heights, Block, b
  <2>2. b.issuer = s /\ o + 1 > replay_end[s] => b.height <= latest_block_height[s]
    BY <1>2, <1>5 DEF Heights, b
  <2>3. o + 1 <= replay_end[s] => latest_block_height[s] = 0
    <3>1. o + 1 <= replay_end[s] => offset[s] < replay_end[s]
      BY <1>2 DEF o
    <3>. QED
      BY <1>5, <3>1 DEF Heights
  <2>. QED
    BY <1>2, <2>1, <2>2, <2>3 DEF ProcessBlock
<1>11. /\ \A i \in Unread(s)' : i \in Unread(s) /\ i # o + 1
       /\ \A i \in Unread(s) : i \in Unread(s)' \/ i = o + 1
       /\ o + 1 \in Unread(s)
  BY <1>1, <1>2, <1>3 DEF Unread, o
<1>12. /\ OwnUnread(s)' = OwnUnread(s) \ {o + 1}
       /\ o + 1 \in OwnUnread(s) <=> ~ProcessBlock(s, b)
  BY <1>1, <1>2, <1>10, <1>11 DEF OwnUnread, b
<1>13. WellFormed(b) /\ \A f \in Elems(b.feed_ids_to_rm) : Registered(f, o)
  <2>1. (o + 1) - 1 = o
    BY <1>2
  <2>. QED
    BY <1>2, <1>5, <2>1 DEF Deletes, b
<1>14. \A f : Registered(f, o + 1) <=> (Registered(f, o) \/ f \in Elems(b.new_feeds))
                                         /\ f \notin Elems(b.feed_ids_to_rm)
  BY <1>2, RegisteredNext DEF Adds, Removes, b
<1>15. \A f \in FeedsOf(b) : \A d \in Elems(sending[s]) : f \notin FeedsOf(d)
  <2>1. ASSUME NEW f \in FeedsOf(b), NEW d \in Elems(sending[s]), f \in FeedsOf(d)
        PROVE  FALSE
    <3>1. PICK c \in In(d) : c.feed = f
      BY <2>1, InBlock
    <3>2. c \in Accepted(s)
      BY DEF Accepted, Sent
    <3>. QED
      BY <1>5, <1>11, <3>1, <3>2 DEF NoneUnread, b
  <2>. QED
    BY <2>1
<1>16. \A f \in FeedsOf(b) : \A i \in OwnUnread(s) : f \in FeedsOf(topic[i]) => i = o + 1
  BY <1>5, <1>11 DEF NoneAfterOwn, b
<1>17. /\ \A f \in FeedsOf(b) : \A d \in OwnAhead(s)' : f \notin FeedsOf(d)
       /\ OwnAhead(s)' \subseteq OwnAhead(s)
       /\ OwnAhead(s) \subseteq OwnAhead(s)' \union {b}
       /\ ProcessBlock(s, b) => OwnAhead(s)' = OwnAhead(s)
       /\ ~ProcessBlock(s, b) => b \in OwnAhead(s)
  <2>1. OwnAhead(s)' = Elems(sending[s]) \union {topic[i] : i \in OwnUnread(s) \ {o + 1}}
    BY <1>1, <1>12 DEF OwnAhead
  <2>. QED
    BY <1>12, <1>15, <1>16, <2>1 DEF OwnAhead, b
<1>18. ASSUME NEW f \in Feeds, ProcessBlock(s, b)
       PROVE  /\ Sees(s, f)' <=> (Sees(s, f) \/ f \in Elems(b.new_feeds))
                                   /\ f \notin Elems(b.feed_ids_to_rm)
              /\ FindsAll(registry[s], manager_cmds'[s], f)
              /\ f \in FeedsOf(b) => (Sees(s, f) <=> Registered(f, o))
  <2>1. f \in FeedsOf(b) => (Sees(s, f) <=> Registered(f, o))
    BY <1>5, <1>17, <1>18 DEF View, o
  <2>2. q \in Seq(Cmd) /\ FindsAll(registry[s], q, f)
    BY <1>5 DEF View, q, TypeOK
  <2>3. f \in Elems(b.feed_ids_to_rm) => After(registry[s], q, f, Len(q))
    BY <1>13, <2>1 DEF Sees, FeedsOf, q
  <2>4. manager_cmds'[s] = q \o CmdsOf(b)
    BY <1>4, <1>18
  <2>5. Sees(s, f)' <=> After(registry[s], q \o CmdsOf(b), f, Len(q \o CmdsOf(b)))
    BY <1>1, <2>4 DEF Sees
  <2>6. Sees(s, f) <=> After(registry[s], q, f, Len(q))
    BY DEF Sees, q
  <2>. QED
    BY <1>2, <1>13, <2>1, <2>2, <2>3, <2>4, <2>5, <2>6, BlockTaken
<1>19. ASSUME NEW f \in Feeds
       PROVE  /\ \A d \in OwnAhead(s)' : f \in FeedsOf(d) => (Sees(s, f)' <=> f \in Elems(d.new_feeds))
              /\ (\A d \in OwnAhead(s)' : f \notin FeedsOf(d)) => (Sees(s, f)' <=> Registered(f, o + 1))
              /\ FindsAll(registry[s], manager_cmds'[s], f)
  <2>1. CASE ProcessBlock(s, b)
    <3>1. CASE f \in FeedsOf(b)
      BY <1>14, <1>17, <1>18, <2>1, <3>1
    <3>2. CASE f \notin FeedsOf(b)
      <4>1. f \notin Elems(b.new_feeds) /\ f \notin Elems(b.feed_ids_to_rm)
        BY <3>2 DEF FeedsOf
      <4>2. Sees(s, f)' <=> Sees(s, f)
        BY <1>18, <2>1, <4>1
      <4>3. Registered(f, o + 1) <=> Registered(f, o)
        BY <1>14, <4>1
      <4>. QED
        BY <1>5, <1>17, <1>18, <2>1, <4>2, <4>3 DEF View, o
    <3>. QED
      BY <3>1, <3>2
  <2>2. CASE ~ProcessBlock(s, b)
    <3>1. manager_cmds'[s] = manager_cmds[s]
      BY <1>4, <2>2 DEF q
    <3>2. Sees(s, f)' <=> Sees(s, f)
      BY <1>1, <3>1 DEF Sees
    <3>3. FindsAll(registry[s], manager_cmds'[s], f)
      BY <1>5, <3>1 DEF View
    <3>4. CASE f \in FeedsOf(b)
      <4>1. Sees(s, f) <=> f \in Elems(b.new_feeds)
        BY <1>5, <1>17, <2>2, <3>4 DEF View
      <4>2. Registered(f, o + 1) <=> f \in Elems(b.new_feeds)
        BY <1>13, <1>14, <3>4 DEF WellFormed, FeedsOf
      <4>. QED
        BY <1>17, <3>2, <3>3, <3>4, <4>1, <4>2
    <3>5. CASE f \notin FeedsOf(b)
      <4>1. Registered(f, o + 1) <=> Registered(f, o)
        BY <1>14, <3>5 DEF FeedsOf
      <4>. QED
        BY <1>5, <1>17, <3>2, <3>3, <3>5, <4>1 DEF View, o
    <3>. QED
      BY <3>4, <3>5
  <2>. QED
    BY <2>1, <2>2
<1>20. View(s)'
  <2>1. \A f : Registered(f, offset[s])' <=> Registered(f, o + 1)
    <3>. SUFFICES ASSUME NEW f
                  PROVE  Registered(f, offset[s])' <=> Registered(f, o + 1)
      OBVIOUS
    <3>. QED
      BY <1>1, <1>3 DEF Registered, Adds, Removes
  <2>. QED
    BY <1>1, <1>19, <2>1 DEF View, FeedsOf
<1>. QED
  BY <1>6, <1>7, <1>8, <1>9, <1>20 DEF IInv

LEMMA HandleIInv ==
  ASSUME TypeOK, TypeOK', IInv, NEW s \in Sequencers, HandleManagerCmd(s)
  PROVE  IInv'
<1>. DEFINE q == manager_cmds[s]
            p == Handled(registry[s], Head(q))
<1>1. /\ q # <<>> /\ manager_cmds' = [manager_cmds EXCEPT ![s] = Tail(@)]
      /\ registry' = [registry EXCEPT ![s] = p]
      /\ cmds' = cmds /\ new_feeds_to_register' = new_feeds_to_register
      /\ feeds_ids_to_delete' = feeds_ids_to_delete /\ latest_block_height' = latest_block_height
      /\ sending' = sending /\ topic' = topic /\ offset' = offset /\ replay_end' = replay_end
  BY DEF HandleManagerCmd, Handled, pending_vars, start_vars
<1>2. /\ manager_cmds'[s] = Tail(q) /\ registry'[s] = p
      /\ \A t \in Sequencers : t # s => manager_cmds'[t] = manager_cmds[t] /\ registry'[t] = registry[t]
      /\ q \in Seq(Cmd)
  BY <1>1 DEF TypeOK
<1>. HIDE DEF q, p
<1>3. Len(q) \in Nat /\ Len(q) > 0 /\ Len(Tail(q)) = Len(q) - 1 /\ Len(q) \in 1..Len(q)
  <2>1. Len(q) \in Nat /\ Len(q) > 0 /\ Len(Tail(q)) = Len(q) - 1
    BY <1>1, <1>2, TailOf
  <2>. QED
    BY <2>1
<1>4. \A t \in Sequencers : Once(t)' /\ Accepted(t)' = Accepted(t)
  BY <1>1, OnceKept DEF IInv
<1>5. Heights'
  BY <1>1, <1>4 DEF IInv, Heights
<1>6. Paths'
  <2>1. \A t \in Sequencers : offset'[t] >= offset[t]
    BY <1>1, AcceptedTypes
  <2>. QED
    BY <1>1, <1>4, <2>1, PathsKept DEF IInv
<1>7. \A t \in Sequencers : t # s => View(t)'
  BY <1>1, <1>2, ViewKept DEF IInv
<1>8. ASSUME NEW f \in Feeds
      PROVE  /\ Sees(s, f)' <=> Sees(s, f)
             /\ FindsAll(registry[s], manager_cmds[s], f)'
  <2>1. After(registry[s], q, f, Len(q)) <=> After(p, Tail(q), f, Len(q) - 1)
    BY <1>1, <1>2, <1>3, AfterTail DEF p
  <2>2. FindsAll(registry[s], q, f)
    BY DEF IInv, View, q
  <2>3. FindsAll(p, Tail(q), f)
    BY <1>1, <1>2, <2>2, FindsAllTail DEF p
  <2>4. Sees(s, f)' <=> After(p, Tail(q), f, Len(Tail(q)))
    BY <1>2 DEF Sees
  <2>5. FindsAll(registry[s], manager_cmds[s], f)' <=> FindsAll(p, Tail(q), f)
    BY <1>2 DEF FindsAll, After
  <2>. QED
    BY <1>3, <2>1, <2>3, <2>4, <2>5 DEF Sees, q
<1>9. View(s)'
  <2>1. OwnAhead(s)' = OwnAhead(s) /\ \A f : Registered(f, offset[s])' <=> Registered(f, offset[s])
    BY <1>1 DEF OwnAhead, OwnUnread, Unread, Registered, Adds, Removes
  <2>. QED
    BY <1>8, <2>1 DEF IInv, View, FeedsOf
<1>. QED
  BY <1>4, <1>5, <1>6, <1>7, <1>9 DEF IInv

(* A sequencer that starts has nothing accepted and the whole topic to     *)
(* read, the block that it was sending included.                           *)
LEMMA RestartIInv ==
  ASSUME TypeOK, TypeOK', IInv, NEW s \in Sequencers, Restart(s)
  PROVE  IInv'
<1>1. /\ registry' = [registry EXCEPT ![s] = ConfigFeeds] /\ cmds' = [cmds EXCEPT ![s] = <<>>]
      /\ new_feeds_to_register' = [new_feeds_to_register EXCEPT ![s] = <<>>]
      /\ feeds_ids_to_delete' = [feeds_ids_to_delete EXCEPT ![s] = <<>>]
      /\ latest_block_height' = [latest_block_height EXCEPT ![s] = 0]
      /\ manager_cmds' = [manager_cmds EXCEPT ![s] = <<>>] /\ offset' = [offset EXCEPT ![s] = 0]
      /\ topic' \in {topic, topic \o sending[s]} /\ sending' = [sending EXCEPT ![s] = <<>>]
      /\ replay_end' = [replay_end EXCEPT ![s] = Len(topic')]
  BY DEF Restart
<1>2. /\ registry'[s] = ConfigFeeds /\ cmds'[s] = <<>>
      /\ new_feeds_to_register'[s] = <<>> /\ feeds_ids_to_delete'[s] = <<>>
      /\ latest_block_height'[s] = 0 /\ manager_cmds'[s] = <<>> /\ offset'[s] = 0
      /\ sending'[s] = <<>> /\ replay_end'[s] = Len(topic')
  BY <1>1 DEF TypeOK
<1>3. \A t \in Sequencers : t # s =>
        /\ registry'[t] = registry[t] /\ cmds'[t] = cmds[t]
        /\ new_feeds_to_register'[t] = new_feeds_to_register[t]
        /\ feeds_ids_to_delete'[t] = feeds_ids_to_delete[t]
        /\ latest_block_height'[t] = latest_block_height[t] /\ manager_cmds'[t] = manager_cmds[t]
        /\ offset'[t] = offset[t] /\ sending'[t] = sending[t] /\ replay_end'[t] = replay_end[t]
  BY <1>1 DEF TypeOK
<1>4. Once(s) /\ Heights /\ Paths
  BY DEF IInv
<1>5. \/ topic' = topic
      \/ \E b \in Block : /\ b.issuer = s /\ 0 < b.height /\ WellFormed(b)
                          /\ In(b) \subseteq Accepted(s) /\ topic' = topic \o <<b>>
  <2>1. CASE topic' = topic
    BY <2>1
  <2>2. CASE topic' = topic \o sending[s]
    <3>1. CASE sending[s] = <<>>
      <4>1. topic \in Seq(Block)
        BY DEF TypeOK
      <4>2. topic \o <<>> = topic
        BY <4>1, ConcatEmptySeq
      <4>. QED
        BY <2>2, <3>1, <4>2
    <3>2. ASSUME NEW b \in Block, sending[s] = <<b>>, Elems(sending[s]) = {b}, Sent(s) = In(b)
          PROVE  /\ b.issuer = s /\ 0 < b.height /\ WellFormed(b)
                 /\ In(b) \subseteq Accepted(s) /\ topic' = topic \o <<b>>
      BY <1>4, <2>2, <3>2 DEF Heights, Once, Accepted
    <3>. QED
      BY <1>4, <3>1, <3>2, SentBlock
  <2>. QED
    BY <1>1, <2>1, <2>2
<1>6. Elems(sending'[s]) = {} /\ Queued(s)' = {} /\ Collected(s)' = {} /\ Sent(s)' = {}
  <2>1. Elems(<<>>) = {}
    BY DEF Elems
  <2>2. Listed(<<>>, <<>>) = {}
    BY <2>1 DEF Listed
  <2>3. Elems(sending'[s]) = {}
    BY <1>2, <2>1
  <2>. QED
    BY <1>2, <2>1, <2>2, <2>3 DEF Queued, Collected, Sent
<1>7. Accepted(s)' = {}
  BY <1>6 DEF Accepted
<1>8. \A t \in Sequencers : t # s => Once(t)' /\ Accepted(t)' = Accepted(t)
  BY <1>3, OnceKept DEF IInv
<1>9. \A t \in Sequencers :
        /\ Accepted(t)' \subseteq Accepted(t)
        /\ \/ offset'[t] = offset[t] /\ replay_end'[t] = replay_end[t]
           \/ Accepted(t)' = {} /\ replay_end'[t] = Len(topic')
  BY <1>2, <1>3, <1>7, <1>8
<1>10. Paths'
  <2>1. CASE topic' = topic
    <3>1. \A t \in Sequencers : offset'[t] = offset[t] => offset'[t] >= offset[t]
      BY AcceptedTypes
    <3>. QED
      BY <1>4, <1>9, <2>1, <3>1, PathsKept
  <2>2. ASSUME NEW b \in Block, b.issuer = s, WellFormed(b), In(b) \subseteq Accepted(s),
               topic' = topic \o <<b>>
        PROVE  Paths'
    BY <1>4, <1>7, <1>9, <2>2, PathsAppended
  <2>. QED
    BY <1>5, <2>1, <2>2
<1>11. Heights'
  <2>1. /\ Len(topic) \in Nat /\ Len(topic') \in Nat
        /\ \A i \in 1..Len(topic') :
             \/ i \in 1..Len(topic) /\ topic'[i] = topic[i]
             \/ topic'[i].issuer = s /\ topic'[i].height > 0
    <3>1. CASE topic' = topic
      BY <3>1, AcceptedTypes
    <3>2. ASSUME NEW b \in Block, b.issuer = s, 0 < b.height, topic' = topic \o <<b>>
          PROVE  /\ Len(topic) \in Nat /\ Len(topic') \in Nat
                 /\ \A i \in 1..Len(topic') :
                      \/ i \in 1..Len(topic) /\ topic'[i] = topic[i]
                      \/ topic'[i].issuer = s /\ topic'[i].height > 0
      <4>1. /\ Len(topic') = Len(topic) + 1 /\ Len(topic) \in Nat /\ topic'[Len(topic) + 1] = b
            /\ \A i \in 1..Len(topic) : topic'[i] = topic[i]
        BY <3>2, TopicGrown
      <4>2. \A i \in 1..Len(topic') : i \in 1..Len(topic) \/ i = Len(topic) + 1
        BY <4>1
      <4>3. b.height > 0
        BY <3>2 DEF Block
      <4>. QED
        BY <3>2, <4>1, <4>2, <4>3
    <3>. QED
      BY <1>5, <3>1, <3>2
  <2>2. ASSUME NEW t \in Sequencers, t # s
        PROVE  /\ Len(sending'[t]) <= 1
               /\ \A d \in Elems(sending'[t]) :
                    d.issuer = t /\ 0 < d.height /\ d.height <= latest_block_height'[t]
               /\ \A i \in 1..Len(topic') : topic'[i].issuer = t /\ i > replay_end'[t]
                                              => topic'[i].height <= latest_block_height'[t]
               /\ offset'[t] < replay_end'[t] => latest_block_height'[t] = 0 /\ Accepted(t)' = {}
    BY <1>3, <1>4, <1>8, <2>1, <2>2 DEF Heights
  <2>3. /\ Len(sending'[s]) <= 1
        /\ \A d \in Elems(sending'[s]) :
             d.issuer = s /\ 0 < d.height /\ d.height <= latest_block_height'[s]
        /\ \A i \in 1..Len(topic') : topic'[i].issuer = s /\ i > replay_end'[s]
                                       => topic'[i].height <= latest_block_height'[s]
        /\ offset'[s] < replay_end'[s] => latest_block_height'[s] = 0 /\ Accepted(s)' = {}
    BY <1>2, <1>6, <1>7, <2>1
  <2>4. \A i \in 1..Len(topic') : topic'[i].height > 0
    BY <1>4, <2>1 DEF Heights
  <2>. QED
    BY <2>2, <2>3, <2>4 DEF Heights
<1>12. Once(s)'
  <2>1. Len(cmds'[s]) = 0 /\ Len(feeds_ids_to_delete'[s]) = 0
    BY <1>2
  <2>2. \A d \in Elems(sending'[s]) : WellFormed(d)
    BY <1>6
  <2>3. /\ \A i, j \in 1..Len(cmds'[s]) : cmds'[s][i].feed = cmds'[s][j].feed => i = j
        /\ \A i, j \in 1..Len(feeds_ids_to_delete'[s]) :
             feeds_ids_to_delete'[s][i] = feeds_ids_to_delete'[s][j] => i = j
    BY <2>1
  <2>. QED
    BY <1>6, <2>2, <2>3 DEF Once, WellFormed
<1>13. View(s)'
  <2>1. OwnAhead(s)' = {}
    <3>1. \A i \in Unread(s)' : ~(i > replay_end'[s])
      BY <1>2, PlacesAfter DEF Unread
    <3>2. OwnUnread(s)' = {}
      BY <3>1 DEF OwnUnread
    <3>. QED
      BY <1>6, <3>2 DEF OwnAhead
  <2>2. Len(manager_cmds'[s]) = 0
    BY <1>2
  <2>3. ASSUME NEW f
        PROVE  /\ Sees(s, f)' <=> f \in ConfigFeeds
               /\ Registered(f, offset[s])' <=> f \in ConfigFeeds
               /\ FindsAll(registry[s], manager_cmds[s], f)'
    BY <1>2, <2>2 DEF Sees, After, Registered, FindsAll
  <2>. QED
    BY <2>1, <2>3 DEF View
<1>14. \A t \in Sequencers : t # s => View(t)'
  <2>1. ASSUME NEW t \in Sequencers, t # s
        PROVE  View(t)'
    <3>1. topic' = topic \/ \E d \in Block : d.issuer # t /\ topic' = topic \o <<d>>
      BY <1>5, <2>1
    <3>. QED
      BY <1>3, <2>1, <3>1, ViewKept DEF IInv
  <2>. QED
    BY <2>1
<1>. QED
  BY <1>8, <1>10, <1>11, <1>12, <1>13, <1>14 DEF IInv

LEMMA NothingIInv == ASSUME TypeOK, IInv, UNCHANGED vars PROVE IInv'
<1>1. UNCHANGED <<registry, cmds, new_feeds_to_register, feeds_ids_to_delete, latest_block_height,
                  sending, manager_cmds, offset, topic, replay_end>>
  BY DEF vars, pending_vars, start_vars
<1>2. \A t \in Sequencers : Once(t)' /\ Accepted(t)' = Accepted(t)
  BY <1>1, OnceKept DEF IInv
<1>3. Heights'
  BY <1>1, <1>2 DEF IInv, Heights
<1>4. Paths'
  <2>1. TypeOK'
    BY NextTypes
  <2>2. \A t \in Sequencers : offset'[t] >= offset[t]
    BY <1>1, AcceptedTypes
  <2>. QED
    BY <1>1, <1>2, <2>1, <2>2, PathsKept DEF IInv
<1>5. \A t \in Sequencers : View(t)'
  BY <1>1, ViewKept DEF IInv
<1>. QED
  BY <1>2, <1>3, <1>4, <1>5 DEF IInv

LEMMA InitIInv == ASSUME Init PROVE IInv
<1>1. /\ topic = <<>> /\ Len(topic) = 0 /\ Elems(<<>>) = {} /\ Listed(<<>>, <<>>) = {}
      /\ Len(<<>>) = 0
  <2>1. Elems(<<>>) = {}
    BY DEF Elems
  <2>2. Len(<<>>) = 0
    OBVIOUS
  <2>. QED
    BY <2>1, <2>2 DEF Init, Listed
<1>2. ASSUME NEW s \in Sequencers
      PROVE  /\ cmds[s] = <<>> /\ new_feeds_to_register[s] = <<>> /\ feeds_ids_to_delete[s] = <<>>
             /\ sending[s] = <<>> /\ manager_cmds[s] = <<>> /\ offset[s] = 0 /\ replay_end[s] = 0
             /\ latest_block_height[s] = 0 /\ registry[s] = ConfigFeeds
  BY DEF Init
<1>3. ASSUME NEW s \in Sequencers
      PROVE  /\ Queued(s) = {} /\ Collected(s) = {} /\ Sent(s) = {} /\ Accepted(s) = {}
             /\ Unread(s) = {} /\ OwnUnread(s) = {} /\ OwnAhead(s) = {}
  <2>1. Queued(s) = {} /\ Collected(s) = {} /\ Sent(s) = {}
    BY <1>1, <1>2 DEF Queued, Collected, Sent
  <2>2. Unread(s) = {}
    BY <1>1, <1>2 DEF Unread
  <2>. QED
    BY <1>1, <1>2, <2>1, <2>2 DEF Accepted, OwnUnread, OwnAhead
<1>4. Heights
  BY <1>1, <1>2, <1>3 DEF Heights
<1>5. Paths
  BY <1>1, <1>3 DEF Paths, Alone, NoneUnread, NoneAfterOwn, Deletes
<1>6. ASSUME NEW s \in Sequencers
      PROVE  Once(s) /\ View(s)
  <2>1. Once(s)
    BY <1>1, <1>2, <1>3 DEF Once
  <2>2. \A f : (Sees(s, f) <=> f \in ConfigFeeds) /\ (Registered(f, offset[s]) <=> f \in ConfigFeeds)
    BY <1>1, <1>2 DEF Sees, After, Registered
  <2>3. \A f : FindsAll(registry[s], manager_cmds[s], f)
    BY <1>1, <1>2 DEF FindsAll
  <2>. QED
    BY <1>3, <2>1, <2>2, <2>3 DEF View
<1>. QED
  BY <1>4, <1>5, <1>6 DEF IInv

LEMMA NextIInv ==
  ASSUME Mishaps = {}, TypeOK, IInv, [Next]_vars
  PROVE  IInv'
<1>1. TypeOK'
  BY NextTypes
<1>2. CASE UNCHANGED vars
  BY <1>2, NothingIInv
<1>3. ASSUME NEW s \in Sequencers, NEW f \in Feeds, RegisterAssetFeed(s, f)
      PROVE  IInv'
  <2>1. Accept(s, f, "register")
    BY <1>3 DEF RegisterAssetFeed
  <2>. QED
    BY <1>1, <2>1, AcceptIInv
<1>4. ASSUME NEW s \in Sequencers, NEW f \in Feeds, DeleteAssetFeed(s, f)
      PROVE  IInv'
  <2>1. Accept(s, f, "delete") /\ f \in registry[s]
    BY <1>4 DEF DeleteAssetFeed
  <2>. QED
    BY <1>1, <2>1, AcceptIInv
<1>5. ASSUME NEW s \in Sequencers, RecvCmd(s)
      PROVE  IInv'
  BY <1>1, <1>5, RecvCmdIInv
<1>6. ASSUME NEW s \in Sequencers, GenerateBlock(s)
      PROVE  IInv'
  BY <1>1, <1>6, GenerateIInv
<1>7. ASSUME NEW s \in Sequencers, KafkaSendDone(s)
      PROVE  IInv'
  BY <1>1, <1>7, KafkaIInv
<1>8. ASSUME NEW s \in Sequencers, ReadBlock(s)
      PROVE  IInv'
  BY <1>1, <1>8, ReadIInv
<1>9. ASSUME NEW s \in Sequencers, HandleManagerCmd(s)
      PROVE  IInv'
  BY <1>1, <1>9, HandleIInv
<1>10. ASSUME NEW s \in Sequencers, Restart(s)
       PROVE  IInv'
  BY <1>1, <1>10, RestartIInv
<1>. QED
  BY <1>2, <1>3, <1>4, <1>5, <1>6, <1>7, <1>8, <1>9, <1>10 DEF Next

LEMMA IInvHolds ==
  ASSUME Mishaps = {}
  PROVE  Spec => []IInv
<1>1. Init => IInv
  BY InitIInv
<1>2. TypeOK /\ IInv /\ [Next]_vars => IInv'
  BY NextIInv
<1>. QED
  BY <1>1, <1>2, TypeCorrect, PTL DEF Spec

-----------------------------------------------------------------------------
(* What follows.                                                           *)

LEMMA UpToDateRegistry ==
  ASSUME TypeOK, IInv, NEW s \in Sequencers, UpToDate(s)
  PROVE  registry[s] = {f \in Feeds : Registered(f, Len(topic))}
<1>1. sending[s] = <<>> /\ manager_cmds[s] = <<>> /\ offset[s] = Len(topic)
  BY DEF UpToDate
<1>2. OwnAhead(s) = {}
  <2>1. Len(topic) \in Nat
    BY AcceptedTypes
  <2>2. Unread(s) = {}
    BY <1>1, <2>1 DEF Unread
  <2>3. Elems(sending[s]) = {}
    BY <1>1 DEF Elems
  <2>. QED
    BY <2>2, <2>3 DEF OwnAhead, OwnUnread
<1>3. ASSUME NEW f
      PROVE  Sees(s, f) <=> f \in registry[s]
  <2>1. Len(manager_cmds[s]) = 0
    BY <1>1
  <2>. QED
    BY <2>1 DEF Sees, After
<1>4. ASSUME NEW f \in Feeds
      PROVE  f \in registry[s] <=> Registered(f, Len(topic))
  BY <1>1, <1>2, <1>3 DEF IInv, View
<1>5. registry[s] \subseteq Feeds
  BY DEF TypeOK
<1>. QED
  BY <1>4, <1>5

(* A sequencer that has read the whole topic, has handled what it read and *)
(* has no block on its way has the registry that replaying the topic from  *)
(* the configuration gives (RegistryFollowsTopic), although it applies the *)
(* commands of its own blocks before they are in the topic, skips those    *)
(* blocks in process_block when it reads them, and after a restart reads   *)
(* them as it does its peers'.                                             *)
THEOREM RegistryFollowsTopicHolds ==
  ASSUME Mishaps = {}
  PROVE  Spec => []RegistryFollowsTopic
<1>1. TypeOK /\ IInv => RegistryFollowsTopic
  BY UpToDateRegistry, ReplayedIsRegistered DEF RegistryFollowsTopic
<1>. QED
  BY <1>1, TypeCorrect, IInvHolds, PTL

(* The tasks that have panicked: never the manager, and the block creator  *)
(* only on a feed that it cannot convert.                                  *)
Alive ==
  \A s \in Sequencers : /\ "feeds_slots_manager" \notin dead[s]
                        /\ Feeds \subseteq Convertible => dead[s] = {}

LEMMA AliveKept == ASSUME Alive, dead' = dead PROVE Alive'
BY DEF Alive

LEMMA GenerateAlive ==
  ASSUME TypeOK, Alive, NEW s \in Sequencers, GenerateBlock(s)
  PROVE  Alive'
<1>1. Elems(new_feeds_to_register[s]) \subseteq Feeds
  BY ElemsOf DEF TypeOK
<1>2. \/ dead' = dead
      \/ /\ dead' = [dead EXCEPT ![s] = @ \union {"block_creator"}]
         /\ ~(Feeds \subseteq Convertible)
  BY <1>1 DEF GenerateBlock
<1>3. ASSUME dead' = [dead EXCEPT ![s] = @ \union {"block_creator"}], ~(Feeds \subseteq Convertible),
             NEW t \in Sequencers
      PROVE  "feeds_slots_manager" \notin dead'[t]
  <2>1. dead'[t] \subseteq dead[t] \union {"block_creator"}
    BY <1>3 DEF TypeOK
  <2>. QED
    BY <2>1 DEF Alive
<1>. QED
  BY <1>2, <1>3, AliveKept DEF Alive

LEMMA HandleAlive ==
  ASSUME TypeOK, IInv, Alive, NEW s \in Sequencers, HandleManagerCmd(s)
  PROVE  Alive'
<1>. DEFINE q == manager_cmds[s]
            c == Head(q)
<1>1. q \in Seq(Cmd) /\ q # <<>>
  BY DEF TypeOK, HandleManagerCmd
<1>2. c \in Cmd
  BY <1>1, TailOf
<1>3. c.kind = "delete" => c.feed \in registry[s]
  <2>1. c.feed \in Feeds /\ (c.kind = "delete" => c = Delete(c.feed))
    BY <1>2, CmdFields
  <2>2. FindsAll(registry[s], q, c.feed)
    BY <2>1 DEF IInv, View
  <2>. QED
    BY <1>1, <2>1, <2>2, FindsAllTail
<1>4. dead' = dead
  BY <1>3 DEF HandleManagerCmd
<1>. QED
  BY <1>4, AliveKept

LEMMA NextAlive ==
  ASSUME TypeOK, IInv, Alive, [Next]_vars
  PROVE  Alive'
<1>1. CASE UNCHANGED vars
  BY <1>1, AliveKept DEF vars
<1>2. ASSUME NEW s \in Sequencers, NEW f \in Feeds, RegisterAssetFeed(s, f) \/ DeleteAssetFeed(s, f)
      PROVE  Alive'
  BY <1>2, AliveKept DEF RegisterAssetFeed, DeleteAssetFeed, Accept
<1>3. ASSUME NEW s \in Sequencers, RecvCmd(s)
      PROVE  Alive'
  BY <1>3, AliveKept DEF RecvCmd
<1>4. ASSUME NEW s \in Sequencers, GenerateBlock(s)
      PROVE  Alive'
  BY <1>4, GenerateAlive
<1>5. ASSUME NEW s \in Sequencers, KafkaSendDone(s) \/ ReadBlock(s)
      PROVE  Alive'
  BY <1>5, AliveKept DEF KafkaSendDone, ReadBlock
<1>6. ASSUME NEW s \in Sequencers, HandleManagerCmd(s)
      PROVE  Alive'
  BY <1>6, HandleAlive
<1>7. ASSUME NEW s \in Sequencers, Restart(s)
      PROVE  Alive'
  <2>1. dead' = [dead EXCEPT ![s] = {}]
    BY <1>7 DEF Restart
  <2>2. \A t \in Sequencers : dead'[t] \subseteq dead[t]
    BY <2>1 DEF TypeOK
  <2>. QED
    BY <2>2 DEF Alive
<1>. QED
  BY <1>1, <1>2, <1>3, <1>4, <1>5, <1>6, <1>7 DEF Next

LEMMA AliveHolds ==
  ASSUME Mishaps = {}
  PROVE  Spec => []Alive
<1>1. Init => Alive
  BY DEF Init, Alive
<1>2. TypeOK /\ IInv /\ Alive /\ [Next]_vars => Alive'
  BY NextAlive
<1>. QED
  BY <1>1, <1>2, TypeCorrect, IInvHolds, PTL DEF Spec

(* The task of the feeds slots manager never panics, whatever feeds the    *)
(* block creator can convert: every feed that it is told to delete is in   *)
(* the registry, although the command was checked against the registry of  *)
(* the sequencer that accepted it, at the time when it was accepted, and   *)
(* is applied also by sequencers that replay the topic.                    *)
THEOREM ManagerNeverPanics ==
  ASSUME Mishaps = {}
  PROVE  Spec => [](\A s \in Sequencers : "feeds_slots_manager" \notin dead[s])
<1>1. Alive => \A s \in Sequencers : "feeds_slots_manager" \notin dead[s]
  BY DEF Alive
<1>. QED
  BY <1>1, AliveHolds, PTL

(* No task of any sequencer panics (NoTaskDies) where all feeds fill whole *)
(* chunks, which is what the block creator's conversion expects.           *)
THEOREM NoTaskDiesHolds ==
  ASSUME Mishaps = {}, Feeds \subseteq Convertible
  PROVE  Spec => []NoTaskDies
<1>1. Alive => NoTaskDies
  BY DEF Alive, NoTaskDies
<1>. QED
  BY <1>1, AliveHolds, PTL

(* While nothing is lost: a feed that an accepted command concerns is      *)
(* wanted when the command registers it, and any other when the topic says *)
(* so.                                                                     *)
Wants ==
  ~lost => \A f \in Feeds :
             /\ \A s \in Sequencers : \A c \in Accepted(s) :
                  c.feed = f => (f \in wanted <=> c.kind = "register")
             /\ (\A s \in Sequencers : \A c \in Accepted(s) : c.feed # f)
                  => (f \in wanted <=> Registered(f, Len(topic)))

LEMMA WantsKept ==
  ASSUME Wants, topic' = topic, wanted' = wanted, lost => lost',
         ~lost' => \A t \in Sequencers : Accepted(t)' = Accepted(t)
  PROVE  Wants'
<1>1. \A f : Registered(f, Len(topic))' <=> Registered(f, Len(topic))
  BY DEF Registered, Adds, Removes
<1>. QED
  BY <1>1 DEF Wants

LEMMA AcceptWants ==
  ASSUME Mishaps = {}, TypeOK, Wants, NEW s \in Sequencers, NEW f \in Feeds,
         NEW kind \in {"register", "delete"}, Accept(s, f, kind)
  PROVE  Wants'
<1>. DEFINE c == [kind |-> kind, feed |-> f]
<1>1. c \in Cmd /\ c.kind = kind /\ c.feed = f
  BY DEF Cmd
<1>2. /\ cmds' = [cmds EXCEPT ![s] = Append(@, c)] /\ \A t \in Sequencers : ~UnderWay(f, t)
      /\ wanted' = IF kind = "register" THEN wanted \union {f} ELSE wanted \ {f}
      /\ new_feeds_to_register' = new_feeds_to_register /\ feeds_ids_to_delete' = feeds_ids_to_delete
      /\ sending' = sending /\ topic' = topic /\ lost' = lost
  BY DEF Accept, Coordinated, pending_vars, start_vars
<1>. HIDE DEF c
<1>3. \A t \in Sequencers : \A d \in Accepted(t) : d.feed # f
  BY <1>2, NotUnderWay
<1>4. /\ cmds[s] \in Seq(Cmd) /\ cmds'[s] = Append(cmds[s], c)
      /\ \A t \in Sequencers : t # s => cmds'[t] = cmds[t]
  BY <1>2 DEF TypeOK
<1>5. Elems(cmds'[s]) = Elems(cmds[s]) \union {c}
  BY <1>1, <1>4, PushedTo
<1>6. \A t \in Sequencers : Collected(t)' = Collected(t) /\ Sent(t)' = Sent(t)
  BY <1>2 DEF Collected, Sent
<1>7. /\ Accepted(s)' = Accepted(s) \union {c}
      /\ \A t \in Sequencers : t # s => Accepted(t)' = Accepted(t)
  BY <1>4, <1>5, <1>6 DEF Queued, Accepted
<1>8. \A t \in Sequencers : /\ Accepted(t) \subseteq Accepted(t)'
                            /\ \A d \in Accepted(t)' : d \in Accepted(t) \/ d = c
  BY <1>7
<1>9. \A g : Registered(g, Len(topic))' <=> Registered(g, Len(topic))
  BY <1>2 DEF Registered, Adds, Removes
<1>10. f \in wanted' <=> kind = "register"
  BY <1>2
<1>11. ASSUME ~lost, NEW g \in Feeds
       PROVE  /\ \A t \in Sequencers : \A d \in Accepted(t)' :
                   d.feed = g => (g \in wanted' <=> d.kind = "register")
              /\ (\A t \in Sequencers : \A d \in Accepted(t)' : d.feed # g)
                   => (g \in wanted' <=> Registered(g, Len(topic)))
  <2>1. CASE g = f
    <3>1. \A t \in Sequencers : \A d \in Accepted(t)' : d.feed = f => d = c
      BY <1>3, <1>8
    <3>2. c \in Accepted(s)'
      BY <1>7
    <3>. QED
      BY <1>1, <1>10, <2>1, <3>1, <3>2
  <2>2. CASE g # f
    <3>1. g \in wanted' <=> g \in wanted
      BY <1>2, <2>2
    <3>. QED
      BY <1>1, <1>8, <1>11, <2>2, <3>1 DEF Wants
  <2>. QED
    BY <2>1, <2>2
<1>. QED
  BY <1>2, <1>9, <1>11 DEF Wants

LEMMA RecvCmdWants ==
  ASSUME TypeOK, IInv, Wants, NEW s \in Sequencers, RecvCmd(s)
  PROVE  Wants'
<1>. DEFINE c == Head(cmds[s])
<1>1. /\ cmds[s] # <<>> /\ cmds' = [cmds EXCEPT ![s] = Tail(@)]
      /\ sending' = sending /\ topic' = topic /\ wanted' = wanted /\ (lost => lost')
  BY DEF RecvCmd, start_vars, env_vars
<1>2. /\ cmds[s] \in Seq(Cmd) /\ cmds'[s] = Tail(cmds[s])
      /\ \A t \in Sequencers : t # s => cmds'[t] = cmds[t]
  BY <1>1 DEF TypeOK
<1>3. Elems(cmds[s]) = Elems(Tail(cmds[s])) \union {Head(cmds[s])}
  BY <1>1, <1>2, TailOf
<1>4. /\ lost' \/ Collected(s)' = Collected(s) \union {c}
      /\ \A t \in Sequencers : t # s => /\ new_feeds_to_register'[t] = new_feeds_to_register[t]
                                        /\ feeds_ids_to_delete'[t] = feeds_ids_to_delete[t]
  BY <1>1, CollectedOneMore
<1>5. Queued(s) = Queued(s)' \union {c}
  BY <1>2, <1>3 DEF Queued
<1>. HIDE DEF c
<1>6. Sent(s)' = Sent(s)
  BY <1>1 DEF Sent
<1>7. lost' \/ Accepted(s)' = Accepted(s)
  BY <1>4, <1>5, <1>6 DEF Accepted
<1>8. \A t \in Sequencers : t # s => Accepted(t)' = Accepted(t)
  BY <1>1, <1>2, <1>4, OnceKept DEF IInv
<1>. QED
  BY <1>1, <1>7, <1>8, WantsKept

LEMMA GenerateWants ==
  ASSUME Feeds \subseteq Convertible, TypeOK, IInv, Wants, NEW s \in Sequencers, GenerateBlock(s)
  PROVE  Wants'
<1>. DEFINE b == NextBlock(s)
<1>1. Elems(new_feeds_to_register[s]) \subseteq Convertible
  <2>1. Elems(new_feeds_to_register[s]) \subseteq Feeds
    BY ElemsOf DEF TypeOK
  <2>. QED
    BY <2>1
<1>2. /\ sending[s] = <<>> /\ sending' = [sending EXCEPT ![s] = <<b>>]
      /\ new_feeds_to_register' = [new_feeds_to_register EXCEPT ![s] = <<>>]
      /\ feeds_ids_to_delete' = [feeds_ids_to_delete EXCEPT ![s] = <<>>]
      /\ cmds' = cmds /\ topic' = topic /\ wanted' = wanted /\ lost' = lost
  BY <1>1 DEF GenerateBlock, Creating, NextBlock, env_vars
<1>3. b.new_feeds = new_feeds_to_register[s] /\ b.feed_ids_to_rm = feeds_ids_to_delete[s]
  BY NextBlockTypes
<1>. HIDE DEF b
<1>4. /\ new_feeds_to_register'[s] = <<>> /\ feeds_ids_to_delete'[s] = <<>> /\ sending'[s] = <<b>>
      /\ \A t \in Sequencers : t # s => /\ new_feeds_to_register'[t] = new_feeds_to_register[t]
                                        /\ feeds_ids_to_delete'[t] = feeds_ids_to_delete[t]
                                        /\ sending'[t] = sending[t]
  BY <1>2 DEF TypeOK
<1>5. Collected(s)' = {} /\ Queued(s)' = Queued(s) /\ Sent(s)' = In(b)
  <2>1. Elems(<<>>) = {} /\ Elems(<<b>>) = {b}
    BY DEF Elems
  <2>2. Listed(<<>>, <<>>) = {}
    BY <2>1 DEF Listed
  <2>3. Elems(sending'[s]) = {b}
    BY <1>4, <2>1
  <2>. QED
    BY <1>2, <1>4, <2>2, <2>3 DEF Collected, Queued, Sent
<1>6. Sent(s) = {} /\ In(b) = Collected(s)
  <2>1. Sent(s) = {}
    BY <1>2, SentBlock DEF IInv
  <2>. QED
    BY <1>3, <2>1 DEF In, Collected
<1>7. Accepted(s)' = Accepted(s)
  BY <1>5, <1>6 DEF Accepted
<1>8. \A t \in Sequencers : t # s => Accepted(t)' = Accepted(t)
  BY <1>2, <1>4, OnceKept DEF IInv
<1>. QED
  BY <1>2, <1>7, <1>8, WantsKept

LEMMA KafkaWants ==
  ASSUME Mishaps = {}, TypeOK, IInv, Wants, NEW s \in Sequencers, KafkaSendDone(s)
  PROVE  Wants'
<1>1. /\ sending[s] # <<>> /\ sending' = [sending EXCEPT ![s] = <<>>] /\ topic' = topic \o sending[s]
      /\ cmds' = cmds /\ new_feeds_to_register' = new_feeds_to_register
      /\ feeds_ids_to_delete' = feeds_ids_to_delete /\ wanted' = wanted /\ lost' = lost
  BY DEF KafkaSendDone, pending_vars, env_vars
<1>2. PICK b \in Block : sending[s] = <<b>> /\ Elems(sending[s]) = {b} /\ Sent(s) = In(b)
  BY <1>1, SentBlock DEF IInv
<1>3. sending'[s] = <<>> /\ \A t \in Sequencers : t # s => sending'[t] = sending[t]
  BY <1>1 DEF TypeOK
<1>4. WellFormed(b) /\ In(b) \subseteq Accepted(s)
  BY <1>2 DEF IInv, Once, Accepted
<1>5. Sent(s)' = {} /\ Queued(s)' = Queued(s) /\ Collected(s)' = Collected(s)
  <2>1. Elems(sending'[s]) = {}
    BY <1>3 DEF Elems
  <2>. QED
    BY <1>1, <2>1 DEF Sent, Queued, Collected
<1>6. Accepted(s) = Accepted(s)' \union In(b)
  BY <1>2, <1>5 DEF Accepted
<1>7. \A t \in Sequencers : t # s => Accepted(t)' = Accepted(t)
  BY <1>1, <1>3, OnceKept DEF IInv
<1>8. \A t \in Sequencers : /\ Accepted(t)' \subseteq Accepted(t)
                            /\ \A d \in Accepted(t) : d \in Accepted(t)' \/ d \in In(b)
  BY <1>6, <1>7
<1>9. topic' = topic \o <<b>>
  BY <1>1, <1>2
<1>10. \A f : Registered(f, Len(topic))' <=> (Registered(f, Len(topic)) \/ f \in Elems(b.new_feeds))
                                                 /\ f \notin Elems(b.feed_ids_to_rm)
  BY <1>9, TopicGrown
<1>11. ASSUME ~lost, NEW f \in Feeds,
              \A t \in Sequencers : \A d \in Accepted(t)' : d.feed # f
       PROVE  f \in wanted <=> Registered(f, Len(topic))'
  <2>1. CASE f \in FeedsOf(b)
    <3>1. CASE f \in Elems(b.new_feeds)
      <4>1. Register(f) \in Accepted(s) /\ Register(f).feed = f /\ Register(f).kind = "register"
        BY <1>4, <3>1, InBlock, CmdFields
      <4>2. f \in wanted
        BY <1>11, <4>1 DEF Wants
      <4>3. f \notin Elems(b.feed_ids_to_rm)
        BY <1>4, <3>1 DEF WellFormed
      <4>. QED
        BY <1>10, <3>1, <4>2, <4>3
    <3>2. CASE f \in Elems(b.feed_ids_to_rm)
      <4>1. Delete(f) \in Accepted(s) /\ Delete(f).feed = f /\ Delete(f).kind = "delete"
        BY <1>4, <3>2, InBlock, CmdFields
      <4>2. f \notin wanted
        BY <1>11, <4>1 DEF Wants
      <4>. QED
        BY <1>10, <3>2, <4>2
    <3>. QED
      BY <2>1, <3>1, <3>2 DEF FeedsOf
  <2>2. CASE f \notin FeedsOf(b)
    <3>1. \A d \in In(b) : d.feed # f
      BY <2>2, InBlock
    <3>2. \A t \in Sequencers : \A d \in Accepted(t) : d.feed # f
      BY <1>8, <1>11, <3>1
    <3>3. f \in wanted <=> Registered(f, Len(topic))
      BY <1>11, <3>2 DEF Wants
    <3>. QED
      BY <1>10, <2>2, <3>3 DEF FeedsOf
  <2>. QED
    BY <2>1, <2>2
<1>12. ASSUME ~lost, NEW f \in Feeds
       PROVE  \A t \in Sequencers : \A d \in Accepted(t)' :
                d.feed = f => (f \in wanted <=> d.kind = "register")
  BY <1>8, <1>12 DEF Wants
<1>. QED
  BY <1>1, <1>11, <1>12 DEF Wants

LEMMA NextWants ==
  ASSUME Mishaps = {}, Feeds \subseteq Convertible, TypeOK, IInv, Wants, [Next]_vars
  PROVE  Wants'
<1>1. ASSUME UNCHANGED <<cmds, new_feeds_to_register, feeds_ids_to_delete, sending, topic, wanted, lost>>
      PROVE  Wants'
  <2>1. \A t \in Sequencers : Accepted(t)' = Accepted(t)
    BY <1>1, OnceKept DEF IInv
  <2>. QED
    BY <1>1, <2>1, WantsKept
<1>2. CASE UNCHANGED vars
  BY <1>1, <1>2 DEF vars, pending_vars, env_vars
<1>3. ASSUME NEW s \in Sequencers, NEW f \in Feeds, RegisterAssetFeed(s, f) \/ DeleteAssetFeed(s, f)
      PROVE  Wants'
  BY <1>3, AcceptWants DEF RegisterAssetFeed, DeleteAssetFeed
<1>4. ASSUME NEW s \in Sequencers, RecvCmd(s)
      PROVE  Wants'
  BY <1>4, RecvCmdWants
<1>5. ASSUME NEW s \in Sequencers, GenerateBlock(s)
      PROVE  Wants'
  BY <1>5, GenerateWants
<1>6. ASSUME NEW s \in Sequencers, KafkaSendDone(s)
      PROVE  Wants'
  BY <1>6, KafkaWants
<1>7. ASSUME NEW s \in Sequencers, ReadBlock(s)
      PROVE  Wants'
  BY <1>1, <1>7 DEF ReadBlock, pending_vars, env_vars
<1>8. ASSUME NEW s \in Sequencers, HandleManagerCmd(s)
      PROVE  Wants'
  BY <1>1, <1>8 DEF HandleManagerCmd, pending_vars, env_vars
<1>9. ASSUME NEW s \in Sequencers, Restart(s)
      PROVE  Wants'
  BY <1>9 DEF Restart, Wants
<1>. QED
  BY <1>2, <1>3, <1>4, <1>5, <1>6, <1>7, <1>8, <1>9 DEF Next

LEMMA WantsHolds ==
  ASSUME Mishaps = {}, Feeds \subseteq Convertible
  PROVE  Spec => []Wants
<1>1. Init => Wants
  <2>1. SUFFICES ASSUME Init
                 PROVE  Wants
    OBVIOUS
  <2>2. ASSUME NEW s \in Sequencers
        PROVE  Accepted(s) = {}
    <3>1. Elems(<<>>) = {}
      BY DEF Elems
    <3>2. /\ cmds[s] = <<>> /\ new_feeds_to_register[s] = <<>> /\ feeds_ids_to_delete[s] = <<>>
          /\ sending[s] = <<>>
      BY <2>1 DEF Init
    <3>. QED
      BY <3>1, <3>2 DEF Accepted, Queued, Collected, Listed, Sent
  <2>3. \A f : Registered(f, Len(topic)) <=> f \in ConfigFeeds
    <3>1. Len(topic) = 0
      BY <2>1 DEF Init
    <3>. QED
      BY <3>1 DEF Registered
  <2>. QED
    BY <2>1, <2>2, <2>3 DEF Init, Wants
<1>2. TypeOK /\ IInv /\ Wants /\ [Next]_vars => Wants'
  BY NextWants
<1>. QED
  BY <1>1, <1>2, TypeCorrect, IInvHolds, PTL DEF Spec

(* When everything is worked off and neither a full block nor a restart    *)
(* has lost a command, the registry of every sequencer is what the         *)
(* accepted commands make of the configuration (AcceptedTakesEffect),      *)
(* whichever sequencers accepted them and in whatever order their blocks   *)
(* got into the topic.                                                     *)
THEOREM AcceptedTakesEffectHolds ==
  ASSUME Mishaps = {}, Feeds \subseteq Convertible
  PROVE  Spec => []AcceptedTakesEffect
<1>1. ASSUME TypeOK, IInv, Wants, AllQuiet, ~lost, NEW s \in Sequencers
      PROVE  registry[s] = wanted
  <2>1. ASSUME NEW t \in Sequencers
        PROVE  Accepted(t) = {}
    <3>1. /\ cmds[t] = <<>> /\ sending[t] = <<>>
          /\ new_feeds_to_register[t] \o feeds_ids_to_delete[t] = <<>>
      BY <1>1 DEF AllQuiet, UpToDate
    <3>2. Elems(<<>>) = {}
      BY DEF Elems
    <3>3. Elems(new_feeds_to_register[t]) = {} /\ Elems(feeds_ids_to_delete[t]) = {}
      <4>1. new_feeds_to_register[t] \in Seq(Feeds) /\ feeds_ids_to_delete[t] \in Seq(Feeds)
        BY <1>1 DEF TypeOK
      <4>2. Elems(new_feeds_to_register[t] \o feeds_ids_to_delete[t])
              = Elems(new_feeds_to_register[t]) \union Elems(feeds_ids_to_delete[t])
        BY <4>1, JoinedTo
      <4>. QED
        BY <3>1, <3>2, <4>2
    <3>. QED
      BY <3>1, <3>2, <3>3 DEF Accepted, Queued, Collected, Listed, Sent
  <2>2. registry[s] = {f \in Feeds : Registered(f, Len(topic))}
    BY <1>1, UpToDateRegistry DEF AllQuiet
  <2>3. \A f \in Feeds : f \in wanted <=> Registered(f, Len(topic))
    BY <1>1, <2>1 DEF Wants
  <2>4. wanted \subseteq Feeds
    BY <1>1 DEF TypeOK
  <2>. QED
    BY <2>2, <2>3, <2>4
<1>2. TypeOK /\ IInv /\ Wants => AcceptedTakesEffect
  BY <1>1 DEF AcceptedTakesEffect
<1>. QED
  BY <1>2, TypeCorrect, IInvHolds, WantsHolds, PTL
=============================================================================
