------------------------- MODULE BlockStream_proofs -------------------------
(***************************************************************************)
(* Proofs that no feed goes back in time on its way through the block      *)
(* creator, and that BlockCreator implements BlockStream, for every set of *)
(* feeds and every capacity.                                               *)
(***************************************************************************)
EXTENDS BlockCreator_proofs

(* The updates of one feed in a set of updates are one.                    *)
OnePerFeed(S) == \A u, v \in S : u.feed = v.feed => u = v

(* Appending to a queue that is in order.                                  *)
LEMMA AppendUpdate ==
  ASSUME NEW q \in Seq(Update), NEW u \in Update
  PROVE  /\ Elems(Append(q, u)) = Elems(q) \union {u}
         /\ InOrder(q) /\ Earlier(Elems(q), {u}) => InOrder(Append(q, u))
<1>1. /\ Append(q, u) \in Seq(Update) /\ DOMAIN Append(q, u) = 1..(Len(q) + 1)
      /\ DOMAIN q = 1..Len(q) /\ Len(q) \in Nat
      /\ \A i \in 1..Len(q) : Append(q, u)[i] = q[i]
      /\ Append(q, u)[Len(q) + 1] = u
  OBVIOUS
<1>2. Elems(Append(q, u)) = Elems(q) \union {u}
  BY <1>1 DEF Elems
<1>3. ASSUME InOrder(q), Earlier(Elems(q), {u}),
             NEW i \in DOMAIN Append(q, u), NEW j \in DOMAIN Append(q, u),
             i < j, Append(q, u)[i].feed = Append(q, u)[j].feed
      PROVE  Append(q, u)[i].ts < Append(q, u)[j].ts
  <2>1. i \in 1..Len(q) /\ Append(q, u)[i] = q[i]
    BY <1>1, <1>3
  <2>2. CASE j = Len(q) + 1
    BY <1>1, <1>3, <2>1, <2>2 DEF Earlier, Elems
  <2>3. CASE j \in 1..Len(q)
    BY <1>1, <1>3, <2>1, <2>3 DEF InOrder
  <2> QED BY <1>1, <2>2, <2>3
<1> QED BY <1>2, <1>3 DEF InOrder

(* Taking the oldest update out of a queue that is in order.               *)
LEMMA TailUpdate ==
  ASSUME NEW q \in Seq(Update), q # <<>>, InOrder(q)
  PROVE  /\ Head(q) \in Elems(q) /\ Elems(Tail(q)) \subseteq Elems(q)
         /\ InOrder(Tail(q))
         /\ Earlier({Head(q)}, Elems(Tail(q)))
<1>1. /\ Len(q) \in Nat \ {0} /\ DOMAIN q = 1..Len(q)
      /\ Tail(q) \in Seq(Update) /\ DOMAIN Tail(q) = 1..(Len(q) - 1)
      /\ \A i \in 1..(Len(q) - 1) : Tail(q)[i] = q[i + 1]
      /\ Head(q) = q[1]
  BY TailElems
<1>2. \A i \in DOMAIN Tail(q) : i + 1 \in DOMAIN q /\ 1 < i + 1 /\ Tail(q)[i] = q[i + 1]
  BY <1>1
<1>3. 1 \in DOMAIN q
  BY <1>1
<1>4. Head(q) \in Elems(q) /\ Elems(Tail(q)) \subseteq Elems(q)
  BY <1>1, <1>2, <1>3 DEF Elems
<1>5. ASSUME NEW i \in DOMAIN Tail(q), NEW j \in DOMAIN Tail(q),
             i < j, Tail(q)[i].feed = Tail(q)[j].feed
      PROVE  Tail(q)[i].ts < Tail(q)[j].ts
  <2>1. i + 1 < j + 1
    BY <1>1, <1>5
  <2> QED BY <1>2, <1>5, <2>1 DEF InOrder
<1>6. ASSUME NEW u \in Elems(Tail(q)), Head(q).feed = u.feed
      PROVE  Head(q).ts < u.ts
  BY <1>1, <1>2, <1>3, <1>6 DEF Elems, InOrder
<1> QED BY <1>4, <1>5, <1>6 DEF InOrder, Earlier

(* What the refill puts into the next block is one update of a feed, older *)
(* than what it leaves in the backlog.                                     *)
LEMMA RefillOrder ==
  ASSUME NEW q \in Seq(Update), InOrder(q), Refill(q)
  PROVE  /\ updates' \subseteq Elems(q) /\ Elems(backlog_updates') \subseteq Elems(q)
         /\ Earlier(updates', Elems(backlog_updates'))
         /\ InOrder(backlog_updates')
         /\ OnePerFeed(updates')
<1>1. PICK k \in 0..Len(q) :
        /\ updates' = FirstPerFeed(q, k)
        /\ backlog_updates' = SubSeq(q, Popped(q, k) + 1, Len(q))
  BY DEF Refill
<1> DEFINE p == Popped(q, k)
<1>2. p \in 0..Len(q) /\ k <= p /\ Len(q) \in Nat /\ DOMAIN q = 1..Len(q)
  BY DEF Popped
<1> HIDE DEF p
<1>3. /\ DOMAIN backlog_updates' = 1..(Len(q) - p)
      /\ \A i \in 1..(Len(q) - p) : backlog_updates'[i] = q[i + p]
  BY <1>1, <1>2, SubSeqProperties DEF p
<1>4. \A u \in updates' : \E i \in 1..k : u = q[i]
  BY <1>1 DEF FirstPerFeed
<1>5. \A u \in Elems(backlog_updates') : \E j \in DOMAIN q : p < j /\ u = q[j]
  BY <1>2, <1>3 DEF Elems
<1>6. updates' \subseteq Elems(q) /\ Elems(backlog_updates') \subseteq Elems(q)
  BY <1>2, <1>4, <1>5 DEF Elems
<1>7. ASSUME NEW u \in updates', NEW v \in Elems(backlog_updates'), u.feed = v.feed
      PROVE  u.ts < v.ts
  BY <1>2, <1>4, <1>5, <1>7 DEF InOrder
<1>8. ASSUME NEW i \in DOMAIN backlog_updates', NEW j \in DOMAIN backlog_updates',
             i < j, backlog_updates'[i].feed = backlog_updates'[j].feed
      PROVE  backlog_updates'[i].ts < backlog_updates'[j].ts
  <2>1. i + p \in DOMAIN q /\ j + p \in DOMAIN q /\ i + p < j + p
    BY <1>2, <1>3, <1>8
  <2> QED BY <1>3, <1>8, <2>1 DEF InOrder
<1>9. OnePerFeed(updates')
  <2> SUFFICES ASSUME NEW u \in updates', NEW v \in updates', u.feed = v.feed
               PROVE  u = v
    BY DEF OnePerFeed
  <2>1. PICK i \in 1..k : u = q[i] /\ \A l \in 1..(i - 1) : q[l].feed # q[i].feed
    BY <1>1 DEF FirstPerFeed
  <2>2. PICK j \in 1..k : v = q[j] /\ \A l \in 1..(j - 1) : q[l].feed # q[j].feed
    BY <1>1 DEF FirstPerFeed
  <2>3. ~(i < j) /\ ~(j < i)
    BY <2>1, <2>2
  <2> QED BY <2>1, <2>2, <2>3
<1> QED BY <1>6, <1>7, <1>8, <1>9 DEF Earlier, InOrder

-----------------------------------------------------------------------------
(* The order of updates on their way.  It is inductive together with the   *)
(* fact that everything under way was voted, which makes a new vote later  *)
(* than all of it, and with Capacity, by which a vote goes straight into   *)
(* the next block only when nothing waits in the backlog.                  *)
UnderWay == Sent \union updates \union Elems(backlog_updates) \union Elems(inbox)

OrderInv ==
  /\ FeedsNeverGoBack
  /\ OnePerFeed(updates)
  /\ \A u \in UnderWay : u.ts \in 1..voted[u.feed]

Batch == [block_height : Nat, updates : SUBSET Update]

(* What a further batch adds to the updates sent.                          *)
LEMMA SentAppend ==
  ASSUME NEW b \in Batch, batches \in Seq(Batch), batches' = Append(batches, b)
  PROVE  /\ Sent' = Sent \union b.updates
         /\ \A i \in DOMAIN batches' :
              \/ i \in DOMAIN batches /\ batches'[i] = batches[i]
              \/ i = Len(batches) + 1 /\ batches'[i] = b
<1>1. /\ DOMAIN batches' = 1..(Len(batches) + 1) /\ DOMAIN batches = 1..Len(batches)
      /\ Len(batches) \in Nat
      /\ \A i \in 1..Len(batches) : batches'[i] = batches[i]
      /\ batches'[Len(batches) + 1] = b
  OBVIOUS
<1>2. Sent' = Sent \union b.updates
  BY <1>1 DEF Sent
<1> QED BY <1>1, <1>2

(* Everything under way is an update.                                      *)
LEMMA UnderWayType ==
  ASSUME TypeOK
  PROVE  /\ UnderWay \subseteq Update
         /\ \A u \in Update : u.feed \in Feeds /\ u.ts \in Nat
         /\ \A f \in Feeds : voted[f] \in Nat
<1>1. Sent \subseteq Update
  <2>1. batches \in Seq(Batch)
    BY DEF Batch, TypeOK
  <2>2. \A i \in DOMAIN batches : batches[i] \in Batch
    BY <2>1
  <2>3. \A i \in DOMAIN batches : batches[i].updates \in SUBSET Update
    BY <2>2 DEF Batch
  <2> QED BY <2>3 DEF Sent
<1>2. Elems(backlog_updates) \subseteq Update /\ Elems(inbox) \subseteq Update
  BY DEF Elems, TypeOK
<1>3. \A u \in Update : u.feed \in Feeds /\ u.ts \in Nat
  BY DEF Update
<1> QED BY <1>1, <1>2, <1>3 DEF UnderWay, TypeOK

(* A batch leaves later than all of its feed before it.                    *)
LEMMA BatchOrder ==
  ASSUME batches \in Seq(Batch), NEW b \in Batch, batches' = Append(batches, b),
         FeedsNeverGoBack, Earlier(Sent, b.updates)
  PROVE  \A i, j \in DOMAIN batches' :
           i < j => Earlier(batches'[i].updates, batches'[j].updates)
<1>1. \A i \in DOMAIN batches' :
        \/ i \in DOMAIN batches /\ batches'[i] = batches[i]
        \/ i = Len(batches) + 1 /\ batches'[i] = b
  BY SentAppend
<1> SUFFICES ASSUME NEW i \in DOMAIN batches', NEW j \in DOMAIN batches', i < j
             PROVE  Earlier(batches'[i].updates, batches'[j].updates)
  OBVIOUS
<1>2. DOMAIN batches' = 1..(Len(batches) + 1) /\ DOMAIN batches = 1..Len(batches)
      /\ Len(batches) \in Nat
  OBVIOUS
<1>3. i \in DOMAIN batches /\ batches'[i] = batches[i]
  BY <1>1, <1>2
<1>4. CASE j \in DOMAIN batches /\ batches'[j] = batches[j]
  BY <1>3, <1>4 DEF FeedsNeverGoBack
<1>5. CASE batches'[j] = b
  BY <1>3, <1>5 DEF Earlier, Sent
<1> QED BY <1>1, <1>4, <1>5

(* A new vote is later than everything under way.                          *)
LEMMA VoteOrder ==
  ASSUME TypeOK, OrderInv, NEW f \in Feeds, Vote(f)
  PROVE  OrderInv'
<1> DEFINE u == [feed |-> f, ts |-> voted[f] + 1]
<1>1. /\ inbox' = Append(inbox, u) /\ voted' = [voted EXCEPT ![f] = @ + 1]
      /\ updates' = updates /\ backlog_updates' = backlog_updates /\ batches' = batches
  BY DEF Vote
<1>2. u \in Update /\ u.feed = f /\ u.ts = voted[f] + 1
  BY UnderWayType DEF Update
<1> HIDE DEF u
<1>3. /\ Sent' = Sent
      /\ Elems(inbox') = Elems(inbox) \union {u}
      /\ InOrder(inbox) /\ Earlier(Elems(inbox), {u}) => InOrder(inbox')
  <2>1. inbox \in Seq(Update)
    BY DEF TypeOK
  <2>2. Sent' = Sent
    BY <1>1 DEF Sent
  <2> QED BY <1>1, <1>2, <2>1, <2>2, AppendUpdate
<1>4. Earlier(UnderWay, {u})
  <2> SUFFICES ASSUME NEW v \in UnderWay, v.feed = f
               PROVE  v.ts < voted[f] + 1
    BY <1>2 DEF Earlier
  <2>1. v.ts \in 1..voted[f] /\ voted[f] \in Nat
    BY UnderWayType DEF OrderInv
  <2> QED BY <2>1
<1>5. /\ Earlier(Sent, {u}) /\ Earlier(updates, {u})
      /\ Earlier(Elems(backlog_updates), {u}) /\ Earlier(Elems(inbox), {u})
  BY <1>4 DEF Earlier, UnderWay
<1>6. FeedsNeverGoBack'
  BY <1>1, <1>3, <1>5 DEF OrderInv, FeedsNeverGoBack, Earlier
<1>7. ASSUME NEW v \in UnderWay' PROVE v.ts \in 1..voted'[v.feed]
  <2>1. v \in UnderWay \/ v = u
    BY <1>1, <1>3 DEF UnderWay
  <2>2. voted'[f] = voted[f] + 1 /\ \A g \in Feeds : g # f => voted'[g] = voted[g]
    BY <1>1 DEF TypeOK
  <2>3. CASE v = u
    BY <1>2, <2>2, <2>3, UnderWayType
  <2>4. CASE v \in UnderWay
    <3>1. v.feed \in Feeds /\ v.ts \in 1..voted[v.feed] /\ voted[v.feed] \in Nat
      BY <2>4, UnderWayType DEF OrderInv
    <3> QED BY <2>2, <3>1
  <2> QED BY <2>1, <2>3, <2>4
<1> QED BY <1>1, <1>6, <1>7 DEF OrderInv, OnePerFeed

(* The update that is received goes into the next block, behind the        *)
(* backlog, or nowhere.                                                    *)
LEMMA RecvOrder ==
  ASSUME TypeOK, Capacity, OrderInv, RecvFeedUpdate
  PROVE  OrderInv'
<1> DEFINE u == Head(inbox)
<1>1. /\ inbox # <<>> /\ inbox' = Tail(inbox) /\ voted' = voted /\ batches' = batches
      /\ KeepUpdate(u) \/ (updates' = updates /\ backlog_updates' = backlog_updates)
  BY DEF RecvFeedUpdate
<1>2. /\ u \in Elems(inbox) /\ Elems(inbox') \subseteq Elems(inbox) /\ InOrder(inbox')
      /\ Earlier({u}, Elems(inbox')) /\ u \in Update
  BY <1>1, TailUpdate, TailElems DEF FeedsNeverGoBack, OrderInv, TypeOK
<1> HIDE DEF u
<1>3. Sent' = Sent
  BY <1>1 DEF Sent
<1>4. Earlier(Sent, {u}) /\ Earlier(updates, {u}) /\ Earlier(Elems(backlog_updates), {u})
  BY <1>2 DEF Earlier, OrderInv, FeedsNeverGoBack
<1>5. CASE updates' = updates /\ backlog_updates' = backlog_updates
  <2>1. FeedsNeverGoBack'
    BY <1>1, <1>2, <1>3, <1>5 DEF OrderInv, FeedsNeverGoBack, Earlier
  <2>2. UnderWay' \subseteq UnderWay
    BY <1>2, <1>3, <1>5 DEF UnderWay
  <2> QED BY <1>1, <1>5, <2>1, <2>2 DEF OrderInv, OnePerFeed
<1>6. CASE KeepUpdate(u) /\ Cardinality(updates) < MaxUpdates
  <2>1. updates' = Insert(updates, u) /\ backlog_updates' = backlog_updates
    BY <1>6 DEF KeepUpdate
  <2>2. updates' \subseteq updates \union {u} /\ OnePerFeed(updates')
    BY <2>1 DEF Insert, OrderInv, OnePerFeed
  <2>3. Elems(backlog_updates) = {}
    <3>1. Cardinality(updates) # MaxUpdates
      BY <1>6, FS_CardinalityType, BlockCreatorAssumption DEF Capacity
    <3>2. backlog_updates = <<>>
      BY <3>1 DEF Capacity, BacklogOnlyWhenFull
    <3> QED BY <3>2 DEF Elems
  <2>4. FeedsNeverGoBack'
    BY <1>1, <1>2, <1>3, <1>4, <2>1, <2>2, <2>3 DEF OrderInv, FeedsNeverGoBack, Earlier
  <2>5. UnderWay' \subseteq UnderWay
    BY <1>2, <1>3, <2>1, <2>2 DEF UnderWay
  <2> QED BY <1>1, <2>2, <2>4, <2>5 DEF OrderInv
<1>7. CASE KeepUpdate(u) /\ ~(Cardinality(updates) < MaxUpdates)
  <2>1. backlog_updates' = Append(backlog_updates, u) /\ updates' = updates
    BY <1>7 DEF KeepUpdate
  <2>2. Elems(backlog_updates') = Elems(backlog_updates) \union {u} /\ InOrder(backlog_updates')
    BY <1>2, <1>4, <2>1, AppendUpdate DEF TypeOK, OrderInv, FeedsNeverGoBack
  <2>3. FeedsNeverGoBack'
    BY <1>1, <1>2, <1>3, <1>4, <2>1, <2>2 DEF OrderInv, FeedsNeverGoBack, Earlier
  <2>4. UnderWay' \subseteq UnderWay
    BY <1>2, <1>3, <2>1, <2>2 DEF UnderWay
  <2> QED BY <1>1, <2>1, <2>3, <2>4 DEF OrderInv, OnePerFeed
<1> QED BY <1>1, <1>5, <1>6, <1>7

(* What the end of a slot does to the updates, when the task survives it.  *)
LEMMA EndOfSlotUpdates ==
  ASSUME TypeOK, EndOfSlot, ~panicked'
  PROVE  /\ Refill(backlog_updates) /\ inbox' = inbox /\ voted' = voted
         /\ NewBlockHeight = slot + 1
         /\ \/ updates = {} /\ batches' = batches
            \/ /\ updates # {}
               /\ batches' = Append(batches, [block_height |-> slot + 1, updates |-> updates])
<1>1. Refill(backlog_updates) /\ inbox' = inbox /\ voted' = voted
  BY DEF EndOfSlot
<1>2. GenerateBlock([height |-> NewBlockHeight,
                     new_feeds |-> new_feeds_to_register,
                     feed_ids_to_rm |-> feeds_ids_to_delete])
  BY DEF EndOfSlot
<1>3. NewBlockHeight = slot + 1
  BY DEF NewBlockHeight
<1>4. CASE updates = {}
  BY <1>1, <1>2, <1>3, <1>4 DEF GenerateBlock
<1>5. CASE updates # {}
  BY <1>1, <1>2, <1>3, <1>5 DEF GenerateBlock
<1> QED BY <1>4, <1>5

(* The batch that leaves is older than the block that the refill starts,   *)
(* and that is older than what stays in the backlog.                       *)
LEMMA EndOfSlotOrder ==
  ASSUME TypeOK, OrderInv, EndOfSlot, ~panicked'
  PROVE  OrderInv'
<1>1. /\ inbox' = inbox /\ voted' = voted
      /\ \/ updates = {} /\ batches' = batches
         \/ batches' = Append(batches, [block_height |-> slot + 1, updates |-> updates])
  BY EndOfSlotUpdates
<1>2. /\ updates' \subseteq Elems(backlog_updates)
      /\ Elems(backlog_updates') \subseteq Elems(backlog_updates)
      /\ Earlier(updates', Elems(backlog_updates')) /\ InOrder(backlog_updates')
      /\ OnePerFeed(updates')
  BY EndOfSlotUpdates, RefillOrder DEF TypeOK, OrderInv, FeedsNeverGoBack
<1>3. /\ Sent' = Sent \union updates
      /\ \A i, j \in DOMAIN batches' : i < j => Earlier(batches'[i].updates, batches'[j].updates)
  <2>1. CASE updates = {} /\ batches' = batches
    BY <2>1 DEF Sent, OrderInv, FeedsNeverGoBack
  <2>2. CASE batches' = Append(batches, [block_height |-> slot + 1, updates |-> updates])
    <3> DEFINE b == [block_height |-> slot + 1, updates |-> updates]
    <3>1. b \in Batch /\ b.updates = updates /\ batches \in Seq(Batch)
      BY DEF Batch, TypeOK
    <3>2. Earlier(Sent, b.updates) /\ FeedsNeverGoBack
      BY <3>1 DEF OrderInv, FeedsNeverGoBack, Earlier
    <3>3. batches' = Append(batches, b)
      BY <2>2
    <3> HIDE DEF b
    <3> QED BY <3>1, <3>2, <3>3, SentAppend, BatchOrder
  <2> QED BY <1>1, <2>1, <2>2
<1>4. /\ Earlier(Sent', updates' \union Elems(backlog_updates') \union Elems(inbox'))
      /\ Earlier(updates', Elems(inbox')) /\ Earlier(Elems(backlog_updates'), Elems(inbox'))
  BY <1>1, <1>2, <1>3 DEF OrderInv, FeedsNeverGoBack, Earlier
<1>5. FeedsNeverGoBack'
  BY <1>1, <1>2, <1>3, <1>4 DEF OrderInv, FeedsNeverGoBack, Earlier
<1>6. UnderWay' \subseteq UnderWay
  BY <1>1, <1>2, <1>3 DEF UnderWay
<1> QED BY <1>1, <1>2, <1>5, <1>6 DEF OrderInv

LEMMA OrderHolds == Spec => []OrderInv
<1>1. Init => OrderInv
  BY DEF Init, OrderInv, FeedsNeverGoBack, OnePerFeed, UnderWay, Sent, Elems, InOrder, Earlier
<1>2. TypeOK /\ Capacity /\ NeverPanics' /\ OrderInv /\ [Next]_vars => OrderInv'
  <2> SUFFICES ASSUME TypeOK, Capacity, NeverPanics', OrderInv, [Next]_vars
               PROVE  OrderInv'
    OBVIOUS
  <2>1. CASE UNCHANGED update_vars
    BY <2>1 DEF update_vars, OrderInv, FeedsNeverGoBack, OnePerFeed, UnderWay, Sent, Elems,
                InOrder, Earlier
  <2>2. ASSUME NEW f \in Feeds, Vote(f) PROVE OrderInv'
    BY <2>2, VoteOrder
  <2>3. CASE RecvFeedUpdate
    BY <2>3, RecvOrder
  <2>4. CASE EndOfSlot
    BY <2>4, EndOfSlotOrder DEF NeverPanics
  <2>5. ASSUME NEW c \in Cmd, AdminCmd(c) PROVE OrderInv'
    BY <2>1, <2>5 DEF AdminCmd
  <2>6. CASE RecvFeedManagementCmd \/ EndOfSlotEmpty \/ KafkaSendDone \/ NextSlot \/ UNCHANGED vars
    BY <2>1, <2>6 DEF RecvFeedManagementCmd, EndOfSlotEmpty, KafkaSendDone, NextSlot, vars
  <2> QED BY <2>2, <2>3, <2>4, <2>5, <2>6 DEF Next
<1> QED BY <1>1, <1>2, TypeCorrect, CapacityHolds, NeverPanicsHolds, PTL DEF Spec

(* Updates of a feed overtake each other nowhere between the vote and the  *)
(* batch: what is published never takes a feed back in time.               *)
THEOREM FeedsNeverGoBackHolds == Spec => []FeedsNeverGoBack
<1>1. OrderInv => FeedsNeverGoBack
  BY DEF OrderInv
<1> QED BY <1>1, OrderHolds, PTL

-----------------------------------------------------------------------------
(* The refinement.  A batch is higher than those before it because none of *)
(* them is above armed_slot + 1, as in ChainInv for the blockchain.        *)
HeightsInv == \A i \in DOMAIN batches : batches[i].block_height <= armed_slot + 1

LEMMA HeightsHold == Spec => []HeightsInv
<1>1. Init => HeightsInv
  BY DEF Init, HeightsInv
<1>2. TypeOK /\ NeverPanics' /\ HeightsInv /\ [Next]_vars => HeightsInv'
  <2> SUFFICES ASSUME TypeOK, NeverPanics', HeightsInv, [Next]_vars
               PROVE  HeightsInv'
    OBVIOUS
  <2>1. /\ batches \in Seq(Batch) /\ slot \in Nat /\ armed_slot \in Nat /\ armed_slot <= slot
    BY DEF Batch, TypeOK
  <2>2. \A i \in DOMAIN batches : batches[i].block_height \in Nat
    <3>1. \A i \in DOMAIN batches : batches[i] \in Batch
      BY <2>1
    <3> QED BY <3>1 DEF Batch
  <2>3. CASE batches' = batches /\ armed_slot' \in {armed_slot, slot}
    <3>1. armed_slot <= armed_slot' /\ armed_slot' \in Nat
      BY <2>1, <2>3
    <3> QED BY <2>1, <2>2, <2>3, <3>1 DEF HeightsInv
  <2>4. CASE EndOfSlot
    <3>1. armed_slot' = slot
      BY <2>4, EndOfSlotCases
    <3>2. CASE batches' = batches
      BY <2>3, <3>1, <3>2
    <3>3. CASE batches' = Append(batches, [block_height |-> slot + 1, updates |-> updates])
      <4> DEFINE b == [block_height |-> slot + 1, updates |-> updates]
      <4>1. b \in Batch /\ b.block_height = slot + 1
        BY <2>1 DEF Batch, TypeOK
      <4>2. batches' = Append(batches, b)
        BY <3>3
      <4> HIDE DEF b
      <4>3. \A i \in DOMAIN batches' :
              (i \in DOMAIN batches /\ batches'[i] = batches[i]) \/ batches'[i] = b
        BY <2>1, <4>1, <4>2, SentAppend
      <4>4. \A i \in DOMAIN batches : batches[i].block_height <= slot + 1
        BY <2>1, <2>2 DEF HeightsInv
      <4> QED BY <2>1, <3>1, <4>1, <4>3, <4>4 DEF HeightsInv
    <3> QED BY <2>4, <3>2, <3>3, EndOfSlotUpdates DEF NeverPanics
  <2>5. CASE RecvFeedUpdate \/ RecvFeedManagementCmd \/ EndOfSlotEmpty \/ KafkaSendDone
    BY <2>3, <2>5 DEF RecvFeedUpdate, RecvFeedManagementCmd, EndOfSlotEmpty, KafkaSendDone,
                      Rearm, update_vars
  <2>6. CASE NextSlot \/ UNCHANGED vars
    BY <2>3, <2>6 DEF NextSlot, vars, update_vars, time_vars
  <2>7. ASSUME (\E f \in Feeds : Vote(f)) \/ (\E c \in Cmd : AdminCmd(c))
        PROVE  HeightsInv'
    BY <2>3, <2>7 DEF Vote, AdminCmd, update_vars, time_vars
  <2> QED BY <2>4, <2>5, <2>6, <2>7 DEF Next
<1> QED BY <1>1, <1>2, TypeCorrect, NeverPanicsHolds, PTL DEF Spec

(* The end of a slot emits a batch that BlockStream admits, or none.       *)
LEMMA EndOfSlotEmits ==
  ASSUME TypeOK, Capacity, OrderInv, HeightsInv, EndOfSlot, ~panicked'
  PROVE  Stream!Emit \/ UNCHANGED Stream!vars
<1>1. voted' = voted /\ slot > armed_slot
  BY EndOfSlotUpdates, EndOfSlotCases
<1>2. CASE batches' = batches
  BY <1>1, <1>2 DEF Stream!vars
<1>3. CASE /\ updates # {}
           /\ batches' = Append(batches, [block_height |-> slot + 1, updates |-> updates])
  <2> DEFINE b == [block_height |-> slot + 1, updates |-> updates]
  <2>1. b \in Batch /\ b.block_height = slot + 1 /\ b.updates = updates /\ batches \in Seq(Batch)
    BY DEF Batch, TypeOK
  <2>2. batches' = Append(batches, b)
    BY <1>3
  <2> HIDE DEF b
  <2>3. batches' # batches /\ batches'[Len(batches')] = b
    BY <2>1, <2>2
  <2>4. \A u \in updates : u.feed \in Feeds /\ u.ts \in 1..voted[u.feed]
    BY UnderWayType DEF OrderInv, UnderWay
  <2>5. ASSUME NEW i \in DOMAIN batches
        PROVE  /\ batches[i].block_height < b.block_height
               /\ \A u \in batches[i].updates, v \in b.updates : u.feed = v.feed => u.ts < v.ts
    <3>1. batches[i].block_height < slot + 1
      <4>1. batches[i] \in Batch
        BY <2>1
      <4>2. batches[i].block_height \in Nat /\ batches[i].block_height <= armed_slot + 1
        BY <4>1 DEF Batch, HeightsInv
      <4>3. slot \in Nat /\ armed_slot \in Nat
        BY DEF TypeOK
      <4> QED BY <1>1, <4>2, <4>3
    <3>2. Earlier(Sent, updates)
      BY DEF OrderInv, FeedsNeverGoBack, Earlier
    <3> QED BY <2>1, <3>1, <3>2 DEF Earlier, Sent
  <2>6. Stream!Admissible(b)
    <3>1. b.updates # {} /\ Cardinality(b.updates) <= MaxUpdates
      BY <1>3, <2>1 DEF Capacity
    <3>2. \A u, v \in b.updates : u.feed = v.feed => u = v
      BY <2>1 DEF OrderInv, OnePerFeed
    <3>3. \A u \in b.updates : u.feed \in Feeds /\ u.ts \in 1..voted[u.feed]
      BY <2>1, <2>4
    <3>4. Stream!Cardinality(b.updates) = Cardinality(b.updates)
      BY DEF Cardinality, Stream!Cardinality
    <3> QED BY <2>5, <3>1, <3>2, <3>3, <3>4 DEF Stream!Admissible
  <2> QED BY <1>1, <2>2, <2>3, <2>6 DEF Stream!Emit
<1> QED BY <1>2, <1>3, EndOfSlotUpdates

(* The block creator implements the stream of batches that the publishing  *)
(* side relies on.                                                         *)
THEOREM BlockStreamIsRefined == Spec => RefinesBlockStream
<1>1. Init => Stream!Init
  BY DEF Init, Stream!Init
<1>2. /\ TypeOK /\ Capacity /\ NeverPanics' /\ OrderInv /\ HeightsInv
      /\ [Next]_vars
      => [Stream!Next]_(Stream!vars)
  <2> SUFFICES ASSUME TypeOK, Capacity, NeverPanics', OrderInv, HeightsInv, [Next]_vars
               PROVE  Stream!Next \/ UNCHANGED Stream!vars
    OBVIOUS
  <2>1. ASSUME NEW f \in Feeds, Vote(f) PROVE Stream!Next
    BY <2>1 DEF Vote, Stream!Vote, Stream!Next
  <2>2. CASE EndOfSlot
    BY <2>2, EndOfSlotEmits DEF NeverPanics, Stream!Next
  <2>3. CASE UNCHANGED <<voted, batches>>
    BY <2>3 DEF Stream!vars
  <2>4. ASSUME NEW c \in Cmd, AdminCmd(c) PROVE UNCHANGED <<voted, batches>>
    BY <2>4 DEF AdminCmd, update_vars
  <2>5. CASE RecvFeedUpdate \/ RecvFeedManagementCmd \/ EndOfSlotEmpty \/ KafkaSendDone
    BY <2>3, <2>5 DEF RecvFeedUpdate, RecvFeedManagementCmd, EndOfSlotEmpty, KafkaSendDone,
                      update_vars
  <2>6. CASE NextSlot \/ UNCHANGED vars
    BY <2>3, <2>6 DEF NextSlot, vars, update_vars
  <2> QED BY <2>1, <2>2, <2>3, <2>4, <2>5, <2>6 DEF Next
<1> QED
  BY <1>1, <1>2, TypeCorrect, CapacityHolds, NeverPanicsHolds, OrderHolds, HeightsHold, PTL
  DEF Spec, RefinesBlockStream, Stream!Spec
=============================================================================
