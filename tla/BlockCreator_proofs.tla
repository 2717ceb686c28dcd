------------------------ MODULE BlockCreator_proofs ------------------------
(***************************************************************************)
(* Proofs about BlockCreator for every set of feeds and every capacity.    *)
(***************************************************************************)
EXTENDS BlockCreator, FiniteSetTheorems, SequenceTheorems, TLAPS

(* Appending to and cutting sequences, in the form the steps below use.    *)
LEMMA TailElems ==
  ASSUME NEW S, NEW q \in Seq(S), q # <<>>
  PROVE  /\ Head(q) \in S
         /\ Tail(q) \in Seq(S)
         /\ Len(Tail(q)) = Len(q) - 1
         /\ \A i \in 1..Len(Tail(q)) : Tail(q)[i] = q[i + 1]
  OBVIOUS

LEMMA AppendSeq ==
  ASSUME NEW S, NEW q \in Seq(S), NEW x \in S
  PROVE  Append(q, x) \in Seq(S)
  OBVIOUS

LEMMA SingleSeq ==
  ASSUME NEW S, NEW x \in S
  PROVE  <<x>> \in Seq(S) /\ Len(<<x>>) = 1
  OBVIOUS

LEMMA Heights ==
  ASSUME NEW q \in Seq(Block), NEW i \in DOMAIN q
  PROVE  q[i] \in Block /\ q[i].height \in Nat
<1>1. q[i] \in Block
  OBVIOUS
<1> QED BY <1>1 DEF Block

(* Adding an element to a finite set.                                      *)
LEMMA AddOne ==
  ASSUME NEW S, NEW x, IsFiniteSet(S)
  PROVE  /\ IsFiniteSet(S \union {x})
         /\ Cardinality(S) \in Nat /\ Cardinality(S \union {x}) \in Nat
         /\ Cardinality(S \union {x}) <= Cardinality(S) + 1
<1>1. Cardinality(S) \in Nat
  BY FS_CardinalityType
<1>2. /\ IsFiniteSet(S \union {x})
      /\ Cardinality(S \union {x}) \in {Cardinality(S), Cardinality(S) + 1}
  BY FS_AddElement
<1> QED BY <1>1, <1>2

(* What the refill loop reads of the backlog are elements of it.           *)
LEMMA FirstPerFeedElems ==
  ASSUME NEW S, NEW q \in Seq(S), NEW k \in 0..Len(q)
  PROVE  FirstPerFeed(q, k) \subseteq S
  BY DEF FirstPerFeed

LEMMA RefillType ==
  ASSUME NEW q \in Seq(Update), Refill(q)
  PROVE  /\ updates' \in SUBSET Update
         /\ backlog_updates' \in Seq(Update)
<1>1. PICK k \in 0..Len(q) :
        /\ updates' = FirstPerFeed(q, k)
        /\ backlog_updates' = SubSeq(q, Popped(q, k) + 1, Len(q))
  BY DEF Refill
<1>2. updates' \in SUBSET Update
  BY <1>1, FirstPerFeedElems
<1>3. Popped(q, k) \in 0..Len(q)
  BY DEF Popped
<1>4. backlog_updates' \in Seq(Update)
  BY <1>1, <1>3, SubSeqProperties
<1> QED BY <1>2, <1>4

-----------------------------------------------------------------------------
(* Type correctness: every variable of the block creator keeps its type    *)
(* and the timer is never armed for a slot that is still to come.          *)
THEOREM TypeCorrect == Spec => []TypeOK
<1>1. Init => TypeOK
  <2> SUFFICES ASSUME Init PROVE TypeOK
    OBVIOUS
  <2>1. \A S : <<>> \in Seq(S) /\ Len(<<>>) = 0
    BY EmptySeq
  <2>2. voted \in [Feeds -> Nat]
    BY DEF Init
  <2>3. sending \in Seq(Block) /\ Len(sending) <= 1
    BY <2>1 DEF Init
  <2>4. slot \in Nat /\ armed_slot \in Nat /\ armed_slot <= slot /\ n_cmds \in Nat
    BY DEF Init
  <2> QED BY <2>1, <2>2, <2>3, <2>4 DEF Init, TypeOK
<1>2. TypeOK /\ [Next]_vars => TypeOK'
  <2> SUFFICES ASSUME TypeOK, [Next]_vars
               PROVE  TypeOK'
    OBVIOUS
  <2> USE DEF TypeOK
  <2>1. ASSUME NEW f \in Feeds, Vote(f)
        PROVE  TypeOK'
    <3>1. [feed |-> f, ts |-> voted[f] + 1] \in Update
      BY DEF Update
    <3> QED BY <2>1, <3>1 DEF Vote, cmd_vars, block_vars, time_vars
  <2>2. ASSUME NEW c \in Cmd, AdminCmd(c)
        PROVE  TypeOK'
    BY <2>2 DEF AdminCmd, update_vars, block_vars, time_vars
  <2>3. CASE RecvFeedUpdate
    <3>1. Head(inbox) \in Update /\ Tail(inbox) \in Seq(Update)
      BY <2>3, TailElems DEF RecvFeedUpdate
    <3>2. KeepUpdate(Head(inbox)) =>
            updates' \in SUBSET Update /\ backlog_updates' \in Seq(Update)
      <4>1. Append(backlog_updates, Head(inbox)) \in Seq(Update)
        BY <3>1
      <4>2. Insert(updates, Head(inbox)) \in SUBSET Update
        BY <3>1 DEF Insert
      <4> QED BY <4>1, <4>2 DEF KeepUpdate
    <3> QED BY <2>3, <3>1, <3>2 DEF RecvFeedUpdate, Rearm, cmd_vars, block_vars
  <2>4. CASE RecvFeedManagementCmd
    <3>1. Head(cmd_inbox) \in Cmd /\ Tail(cmd_inbox) \in Seq(Cmd)
      BY <2>4, TailElems DEF RecvFeedManagementCmd
    <3>2. \A q \in Seq(Cmd) : PushCmd(q, Head(cmd_inbox)) \in Seq(Cmd)
      BY <3>1 DEF PushCmd
    <3> QED BY <2>4, <3>1, <3>2 DEF RecvFeedManagementCmd, Rearm, update_vars, block_vars
  <2>5. CASE EndOfSlotEmpty
    BY <2>5 DEF EndOfSlotEmpty, Rearm, update_vars, cmd_vars, block_vars
  <2>6. CASE EndOfSlot
    <3> DEFINE b == [height |-> NewBlockHeight,
                     new_feeds |-> new_feeds_to_register, feed_ids_to_rm |-> feeds_ids_to_delete]
    <3>1. b \in Block /\ b.height \in Nat
      BY DEF Block, NewBlockHeight
    <3>2. /\ UNCHANGED <<inbox, voted, cmd_inbox, n_cmds, kafka, slot>>
          /\ new_feeds_to_register' = <<>> /\ feeds_ids_to_delete' = <<>>
          /\ armed_slot' = slot
      BY <2>6 DEF EndOfSlot, Rearm
    <3>3. CASE HasCmds => BlockFits(b)
      <4>1. GenerateBlock(b) /\ Refill(backlog_updates) /\ UNCHANGED panicked
        BY <2>6, <3>3 DEF EndOfSlot
      <4>2. updates' \in SUBSET Update /\ backlog_updates' \in Seq(Update)
        BY <4>1, RefillType
      <4>3. batches' \in Seq([block_height : Nat, updates : SUBSET Update])
        <5> DEFINE e == [block_height |-> b.height, updates |-> updates]
        <5>1. e \in [block_height : Nat, updates : SUBSET Update]
          BY <3>1
        <5>2. batches' \in {batches, Append(batches, e)}
          BY <4>1 DEF GenerateBlock
        <5>3. Append(batches, e) \in Seq([block_height : Nat, updates : SUBSET Update])
          BY <5>1, AppendSeq
        <5> QED BY <5>2, <5>3
      <4>4. manager_cmds' \in Seq(Cmd)
        BY <4>1 DEF GenerateBlock
      <4>5. blockchain_db' \in Seq(Block) /\ sending' \in Seq(Block) /\ Len(sending') <= 1
        <5>1. <<b>> \in Seq(Block) /\ Len(<<b>>) = 1
          BY <3>1, SingleSeq
        <5>2. /\ blockchain_db' \in {blockchain_db, Append(blockchain_db, b)}
              /\ sending' \in {sending, <<b>>}
          BY <4>1 DEF GenerateBlock
        <5>3. Append(blockchain_db, b) \in Seq(Block)
          BY <3>1, AppendSeq
        <5>4. blockchain_db' \in Seq(Block)
          BY <5>2, <5>3
        <5>5. CASE sending' = sending
          BY <5>4, <5>5
        <5>6. CASE sending' = <<b>>
          BY <5>1, <5>4, <5>6
        <5> QED BY <5>2, <5>5, <5>6
      <4> QED BY <3>2, <4>1, <4>2, <4>3, <4>4, <4>5, EmptySeq
    <3>4. CASE ~(HasCmds => BlockFits(b))
      <4>1. /\ panicked' = TRUE /\ updates' = {}
            /\ UNCHANGED <<batches, manager_cmds, blockchain_db, sending, backlog_updates>>
        BY <2>6, <3>4 DEF EndOfSlot
      <4> QED BY <3>2, <4>1, EmptySeq
    <3> QED BY <3>3, <3>4
  <2>7. CASE KafkaSendDone
    <3>1. kafka' \in Seq(Block)
      <4>1. kafka' \in {kafka, kafka \o sending}
        BY <2>7 DEF KafkaSendDone
      <4>2. kafka \o sending \in Seq(Block)
        BY ConcatProperties
      <4> QED BY <4>1, <4>2
    <3>2. sending' \in Seq(Block) /\ Len(sending') <= 1
      BY <2>7, EmptySeq DEF KafkaSendDone
    <3> QED BY <2>7, <3>1, <3>2 DEF KafkaSendDone, Rearm, update_vars, cmd_vars
  <2>8. CASE NextSlot
    BY <2>8 DEF NextSlot, update_vars, cmd_vars, block_vars
  <2>9. CASE UNCHANGED vars
    BY <2>9 DEF vars, update_vars, cmd_vars, block_vars, time_vars
  <2> QED BY <2>1, <2>2, <2>3, <2>4, <2>5, <2>6, <2>7, <2>8, <2>9 DEF Next
<1> QED BY <1>1, <1>2, PTL DEF Spec

-----------------------------------------------------------------------------
(* The refill loop.                                                        *)

LEMMA FirstPerFeedStep ==
  ASSUME NEW S, NEW q \in Seq(S), NEW k \in 1..Len(q)
  PROVE  FirstPerFeed(q, k) \subseteq FirstPerFeed(q, k - 1) \union {q[k]}
  BY DEF FirstPerFeed

LEMMA FirstPerFeedFinite ==
  ASSUME NEW S, NEW q \in Seq(S), NEW k \in 0..Len(q)
  PROVE  IsFiniteSet(FirstPerFeed(q, k))
<1> DEFINE D == {j \in 1..k : \A i \in 1..(j - 1) : q[i].feed # q[j].feed}
           g == [j \in D |-> q[j]]
<1>1. IsFiniteSet(D)
  <2>1. IsFiniteSet(1..k)
    BY FS_Interval
  <2> QED BY <2>1, FS_Subset
<1>2. g \in Surjection(D, FirstPerFeed(q, k))
  BY DEF FirstPerFeed, Surjection
<1> QED BY <1>1, <1>2, FS_Surjection

(* After the refill the block is within its capacity, and full when        *)
(* something stays in the backlog.                                         *)
LEMMA RefillCapacity ==
  ASSUME NEW q \in Seq(Update), Refill(q)
  PROVE  /\ IsFiniteSet(updates')
         /\ Cardinality(updates') <= MaxUpdates
         /\ backlog_updates' # <<>> => Cardinality(updates') = MaxUpdates
<1>1. PICK k \in 0..Len(q) :
        /\ StopsAfter(q, k)
        /\ updates' = FirstPerFeed(q, k)
        /\ backlog_updates' = SubSeq(q, Popped(q, k) + 1, Len(q))
  BY DEF Refill
<1>2. IsFiniteSet(updates') /\ Cardinality(updates') \in Nat
  BY <1>1, FirstPerFeedFinite, FS_CardinalityType
<1>3. Cardinality(updates') <= MaxUpdates
  <2>1. CASE k = 0
    <3>1. updates' = {}
      BY <1>1, <2>1 DEF FirstPerFeed
    <3> QED BY <3>1, FS_EmptySet, BlockCreatorAssumption
  <2>2. CASE k \in 1..Len(q)
    <3> DEFINE F == FirstPerFeed(q, k - 1)
    <3>1. IsFiniteSet(F) /\ Cardinality(F) \in Nat /\ Cardinality(F) < MaxUpdates
      BY <1>1, <2>2, FirstPerFeedFinite, FS_CardinalityType DEF StopsAfter
    <3>2. updates' \subseteq F \union {q[k]}
      BY <1>1, <2>2, FirstPerFeedStep
    <3>3. IsFiniteSet(F \union {q[k]}) /\ Cardinality(F \union {q[k]}) <= Cardinality(F) + 1
      BY <3>1, AddOne
    <3>4. Cardinality(updates') <= Cardinality(F \union {q[k]})
      BY <3>2, <3>3, FS_Subset
    <3>5. Cardinality(F \union {q[k]}) \in Nat
      BY <3>3, FS_CardinalityType
    <3> HIDE DEF F
    <3> QED BY <1>2, <3>1, <3>3, <3>4, <3>5, BlockCreatorAssumption
  <2> QED BY <2>1, <2>2
<1>4. ASSUME backlog_updates' # <<>>
      PROVE  Cardinality(updates') = MaxUpdates
  <2>1. k # Len(q)
    <3> SUFFICES ASSUME k = Len(q) PROVE FALSE
      OBVIOUS
    <3>1. Len(q) \in Int /\ Popped(q, k) + 1 \in Int /\ Len(q) < Popped(q, k) + 1
      BY DEF Popped
    <3>2. backlog_updates' = <<>>
      BY <1>1, <3>1, SubSeqEmpty
    <3> QED BY <1>4, <3>2
  <2> QED BY <1>1, <2>1 DEF StopsAfter
<1> QED BY <1>2, <1>3, <1>4

(* The end of a slot that does not panic, and the one that would.          *)
LEMMA EndOfSlotCases ==
  ASSUME EndOfSlot
  PROVE  /\ sending = <<>> /\ slot > armed_slot
         /\ armed_slot' = slot /\ slot' = slot /\ kafka' = kafka
         /\ \/ /\ HasCmds => NewBlockHeight > LatestHeight
               /\ GenerateBlock([height |-> NewBlockHeight,
                                 new_feeds |-> new_feeds_to_register,
                                 feed_ids_to_rm |-> feeds_ids_to_delete])
               /\ Refill(backlog_updates)
               /\ panicked' = panicked
            \/ HasCmds /\ ~(NewBlockHeight > LatestHeight)
  BY DEF EndOfSlot, Rearm, Selecting, BlockFits

-----------------------------------------------------------------------------
(* The in-memory blockchain.  A block gets the number of the slot after    *)
(* the one that has just ended as its height, and the timer is armed for   *)
(* that slot at the latest from then on, so no block is higher than        *)
(* armed_slot + 1 and the next one, generated when a later slot has ended, *)
(* is higher than all of them.                                             *)
Higher(blocks, b) == \A i \in DOMAIN blocks : blocks[i].height < b.height
Increasing(blocks) ==
  \A i, j \in DOMAIN blocks : i < j => blocks[i].height < blocks[j].height

ChainInv ==
  /\ ~panicked
  /\ \A i \in DOMAIN blockchain_db : blockchain_db[i].height <= armed_slot + 1
  /\ Increasing(blockchain_db)
  /\ Increasing(kafka)
  /\ Elems(kafka) \subseteq Elems(blockchain_db)
  /\ sending # <<>> =>
       /\ sending = <<sending[1]>>
       /\ sending[1] \in Elems(blockchain_db)
       /\ Higher(kafka, sending[1])

LEMMA AppendBlock ==
  ASSUME NEW q \in Seq(Block), NEW b \in Block
  PROVE  /\ Elems(Append(q, b)) = Elems(q) \union {b}
         /\ Increasing(q) /\ Higher(q, b) => Increasing(Append(q, b))
<1>1. /\ Append(q, b) \in Seq(Block) /\ DOMAIN Append(q, b) = 1..(Len(q) + 1)
      /\ DOMAIN q = 1..Len(q)
      /\ \A i \in 1..Len(q) : Append(q, b)[i] = q[i]
      /\ Append(q, b)[Len(q) + 1] = b
  OBVIOUS
<1>2. Elems(Append(q, b)) = Elems(q) \union {b}
  BY <1>1 DEF Elems
<1>3. ASSUME Increasing(q), Higher(q, b)
      PROVE  Increasing(Append(q, b))
  <2> SUFFICES ASSUME NEW i \in 1..(Len(q) + 1), NEW j \in 1..(Len(q) + 1), i < j
               PROVE  Append(q, b)[i].height < Append(q, b)[j].height
    BY <1>1 DEF Increasing
  <2>1. i \in 1..Len(q)
    OBVIOUS
  <2>2. CASE j \in 1..Len(q)
    BY <1>1, <1>3, <2>1, <2>2 DEF Increasing
  <2>3. CASE j = Len(q) + 1
    BY <1>1, <1>3, <2>1, <2>3 DEF Higher
  <2> QED BY <2>2, <2>3
<1> QED BY <1>2, <1>3

LEMMA ChainHolds == Spec => []ChainInv
<1>1. Init => ChainInv
  BY DEF Init, ChainInv, Increasing, Higher, Elems
<1>2. TypeOK /\ ChainInv /\ [Next]_vars => ChainInv'
  <2> SUFFICES ASSUME TypeOK, ChainInv, [Next]_vars
               PROVE  ChainInv'
    OBVIOUS
  <2>1. CASE /\ UNCHANGED <<blockchain_db, kafka, sending, panicked>>
             /\ armed_slot' \in Nat /\ armed_slot <= armed_slot'
    <3>1. \A i \in DOMAIN blockchain_db : blockchain_db[i].height \in Nat
      BY Heights DEF TypeOK
    <3>2. \A i \in DOMAIN blockchain_db : blockchain_db[i].height <= armed_slot' + 1
      <4>1. \A i \in DOMAIN blockchain_db : blockchain_db[i].height <= armed_slot + 1
        BY DEF ChainInv
      <4>2. armed_slot \in Nat
        BY DEF TypeOK
      <4> QED BY <2>1, <3>1, <4>1, <4>2
    <3> QED BY <2>1, <3>2 DEF ChainInv, Increasing, Higher, Elems
  <2>2. CASE EndOfSlot
    <3> DEFINE b == [height |-> NewBlockHeight,
                     new_feeds |-> new_feeds_to_register, feed_ids_to_rm |-> feeds_ids_to_delete]
    <3>1. b \in Block /\ b.height = slot + 1
      BY DEF Block, NewBlockHeight, TypeOK
    <3>2. \A i \in DOMAIN blockchain_db : blockchain_db[i].height \in Nat
      BY Heights DEF TypeOK
    <3>3. Higher(blockchain_db, b)
      BY <2>2, <3>1, <3>2, EndOfSlotCases DEF Higher, ChainInv, TypeOK
    <3>4. NewBlockHeight > LatestHeight
      BY <3>1, <3>3 DEF Higher, LatestHeight, TypeOK
    <3>5. GenerateBlock(b) /\ ~panicked'
      BY <2>2, <3>4, EndOfSlotCases DEF ChainInv
    <3>6. CASE UNCHANGED <<blockchain_db, sending>>
      <4>1. /\ UNCHANGED <<blockchain_db, kafka, sending, panicked>>
            /\ armed_slot' \in Nat /\ armed_slot <= armed_slot'
        BY <2>2, <3>4, <3>6, EndOfSlotCases DEF NewBlockHeight, TypeOK
      <4> QED BY <2>1, <4>1
    <3>7. CASE blockchain_db' = Append(blockchain_db, b) /\ sending' = <<b>>
      <4>1. Elems(blockchain_db') = Elems(blockchain_db) \union {b} /\ Increasing(blockchain_db')
        BY <3>1, <3>3, <3>7, AppendBlock DEF ChainInv, TypeOK
      <4>2. Higher(kafka, b)
        BY <3>3 DEF Higher, Elems, ChainInv
      <4>3. \A i \in DOMAIN blockchain_db' : blockchain_db'[i].height <= armed_slot' + 1
        <5> SUFFICES ASSUME NEW i \in DOMAIN blockchain_db'
                     PROVE  blockchain_db'[i].height <= slot + 1
          BY <2>2, EndOfSlotCases
        <5>1. blockchain_db'[i] \in Elems(blockchain_db) \union {b}
          BY <4>1 DEF Elems
        <5> QED BY <3>1, <3>2, <3>3, <5>1 DEF Elems, Higher, TypeOK
      <4>4. sending' = <<sending'[1]>> /\ sending'[1] = b
        BY <3>7
      <4> QED BY <2>2, <3>5, <4>1, <4>2, <4>3, <4>4, EndOfSlotCases DEF ChainInv
    <3> QED BY <3>5, <3>6, <3>7 DEF GenerateBlock
  <2>3. CASE KafkaSendDone
    <3> DEFINE b == sending[1]
    <3>1. /\ UNCHANGED <<blockchain_db, panicked>> /\ sending' = <<>>
          /\ armed_slot' = slot /\ kafka' \in {kafka, kafka \o sending}
          /\ sending # <<>> /\ sending \in Seq(Block)
      BY <2>3 DEF KafkaSendDone, Rearm, TypeOK
    <3>2. b \in Block /\ sending = <<b>> /\ b \in Elems(blockchain_db) /\ Higher(kafka, b)
      BY <3>1 DEF ChainInv
    <3>3. kafka \o sending = Append(kafka, b)
      BY <3>2, AppendIsConcat DEF TypeOK
    <3>4. Increasing(kafka') /\ Elems(kafka') \subseteq Elems(blockchain_db)
      <4>1. kafka \in Seq(Block) /\ Increasing(kafka) /\ Elems(kafka) \subseteq Elems(blockchain_db)
        BY DEF ChainInv, TypeOK
      <4>2. /\ Elems(Append(kafka, b)) = Elems(kafka) \union {b}
            /\ Increasing(Append(kafka, b))
        BY <3>2, <4>1, AppendBlock
      <4>3. CASE kafka' = kafka
        BY <4>1, <4>3 DEF Increasing, Elems
      <4>4. CASE kafka' = Append(kafka, b)
        BY <3>2, <4>1, <4>2, <4>4 DEF Increasing, Elems
      <4> QED BY <3>1, <3>3, <4>3, <4>4
    <3>5. \A i \in DOMAIN blockchain_db : blockchain_db[i].height <= slot + 1
      <4>1. \A i \in DOMAIN blockchain_db : blockchain_db[i].height \in Nat
        BY Heights DEF TypeOK
      <4>2. \A i \in DOMAIN blockchain_db : blockchain_db[i].height <= armed_slot + 1
        BY DEF ChainInv
      <4>3. armed_slot \in Nat /\ slot \in Nat /\ armed_slot <= slot
        BY DEF TypeOK
      <4> QED BY <4>1, <4>2, <4>3
    <3> QED BY <3>1, <3>4, <3>5 DEF ChainInv
  <2>4. CASE RecvFeedUpdate \/ RecvFeedManagementCmd \/ EndOfSlotEmpty
    BY <2>1, <2>4
    DEF RecvFeedUpdate, RecvFeedManagementCmd, EndOfSlotEmpty, Rearm, block_vars, TypeOK
  <2>5. CASE NextSlot \/ UNCHANGED vars
    BY <2>1, <2>5 DEF NextSlot, vars, block_vars, time_vars, TypeOK
  <2>6. ASSUME (\E f \in Feeds : Vote(f)) \/ (\E c \in Cmd : AdminCmd(c))
        PROVE  ChainInv'
    <3>1. UNCHANGED <<block_vars, time_vars>>
      BY <2>6 DEF Vote, AdminCmd
    <3> QED BY <2>1, <3>1 DEF block_vars, time_vars, TypeOK
  <2> QED BY <2>2, <2>3, <2>4, <2>5, <2>6 DEF Next
<1> QED BY <1>1, <1>2, TypeCorrect, PTL DEF Spec

(* The block creator never dies of a block that the in-memory blockchain   *)
(* rejects.                                                                *)
THEOREM NeverPanicsHolds == Spec => []NeverPanics
<1>1. ChainInv => NeverPanics
  BY DEF ChainInv, NeverPanics
<1> QED BY <1>1, ChainHolds, PTL

(* The topic holds blocks of the chain, in the order of the chain.         *)
THEOREM KafkaFollowsChainHolds == Spec => []KafkaFollowsChain
<1>1. TypeOK /\ ChainInv => KafkaFollowsChain
  <2> SUFFICES ASSUME TypeOK, ChainInv PROVE KafkaFollowsChain
    OBVIOUS
  <2>1. Elems(sending) \subseteq Elems(blockchain_db)
    BY DEF ChainInv, Elems, TypeOK
  <2> QED BY <2>1 DEF ChainInv, KafkaFollowsChain, Increasing
<1> QED BY <1>1, TypeCorrect, ChainHolds, PTL

(* The block under construction: its updates stay within the capacity, and *)
(* the backlog is used only behind a full block.                           *)
Capacity ==
  /\ IsFiniteSet(updates)
  /\ Cardinality(updates) <= MaxUpdates
  /\ BacklogOnlyWhenFull

LEMMA CapacityHolds == Spec => []Capacity
<1>1. Init => Capacity
  BY FS_EmptySet, BlockCreatorAssumption DEF Init, Capacity, BacklogOnlyWhenFull
<1>2. TypeOK /\ Capacity /\ (NeverPanics)' /\ [Next]_vars => Capacity'
  <2> SUFFICES ASSUME TypeOK, Capacity, NeverPanics', [Next]_vars
               PROVE  Capacity'
    OBVIOUS
  <2>1. CASE UNCHANGED <<updates, backlog_updates>>
    BY <2>1 DEF Capacity, BacklogOnlyWhenFull
  <2>2. CASE RecvFeedUpdate
    <3>1. CASE KeepUpdate(Head(inbox)) /\ Cardinality(updates) < MaxUpdates
      <4> DEFINE u == Head(inbox)
      <4>1. backlog_updates' = backlog_updates /\ updates' = Insert(updates, u)
        BY <3>1 DEF KeepUpdate
      <4>2. backlog_updates = <<>>
        <5>1. Cardinality(updates) # MaxUpdates
          BY <3>1, FS_CardinalityType, BlockCreatorAssumption DEF Capacity
        <5> QED BY <5>1 DEF Capacity, BacklogOnlyWhenFull
      <4>3. /\ IsFiniteSet(updates \union {u})
            /\ Cardinality(updates \union {u}) <= Cardinality(updates) + 1
            /\ Cardinality(updates) \in Nat /\ Cardinality(updates \union {u}) \in Nat
        BY AddOne DEF Capacity
      <4>4. IsFiniteSet(updates') /\ Cardinality(updates') <= MaxUpdates
        BY <3>1, <4>1, <4>3, BlockCreatorAssumption DEF Insert, Capacity
      <4> QED BY <4>1, <4>2, <4>4 DEF Capacity, BacklogOnlyWhenFull
    <3>2. CASE KeepUpdate(Head(inbox)) /\ ~(Cardinality(updates) < MaxUpdates)
      <4>1. updates' = updates
        BY <3>2 DEF KeepUpdate
      <4>2. Cardinality(updates) = MaxUpdates
        BY <3>2, FS_CardinalityType, BlockCreatorAssumption DEF Capacity
      <4> QED BY <4>1, <4>2 DEF Capacity, BacklogOnlyWhenFull
    <3> QED BY <2>1, <2>2, <3>1, <3>2 DEF RecvFeedUpdate
  <2>3. CASE EndOfSlot
    <3>1. Refill(backlog_updates)
      BY <2>3 DEF EndOfSlot, NeverPanics
    <3> QED BY <3>1, RefillCapacity DEF Capacity, BacklogOnlyWhenFull, TypeOK
  <2>4. CASE RecvFeedManagementCmd \/ EndOfSlotEmpty \/ KafkaSendDone \/ NextSlot \/ UNCHANGED vars
    BY <2>1, <2>4
    DEF RecvFeedManagementCmd, EndOfSlotEmpty, KafkaSendDone, NextSlot, vars, update_vars
  <2>5. ASSUME (\E f \in Feeds : Vote(f)) \/ (\E c \in Cmd : AdminCmd(c))
        PROVE  Capacity'
    BY <2>1, <2>5 DEF Vote, AdminCmd, update_vars
  <2> QED BY <2>2, <2>3, <2>4, <2>5 DEF Next
<1> QED BY <1>1, <1>2, TypeCorrect, NeverPanicsHolds, PTL DEF Spec

(* Updates wait in the backlog only behind a full block.                   *)
THEOREM BacklogOnlyWhenFullHolds == Spec => []BacklogOnlyWhenFull
<1>1. Capacity => BacklogOnlyWhenFull
  BY DEF Capacity
<1> QED BY <1>1, CapacityHolds, PTL
=============================================================================
