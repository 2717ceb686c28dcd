------------------------ MODULE AdfsPublish_proofs ------------------------
(***************************************************************************)
(* Whatever mishaps are allowed, the publishing path is type correct and   *)
(* the contract never refuses a batch for its block number.  Without them  *)
(* the counts agree with the chain, the path implements FeedStore, rings   *)
(* are in order and readers never go back.                                 *)
(*                                                                         *)
(* The inductive invariant of the first two is Types, and Heights: the     *)
(* block number, the transactions that may still be included, the one in   *)
(* hand and the queue stand in the order of their heights, and a           *)
(* transaction with the account's nonce is higher than the block number    *)
(* because the block number only grows together with the nonce.            *)
(*                                                                         *)
(* That of the other two is RefInv: only the transaction in hand may still *)
(* be included (Alone), a nonce that is used was used by it (Receipts),    *)
(* the counts lead to the place after the latest value, one further for    *)
(* the feeds of a transaction that has not taken effect yet (Counts), and  *)
(* the rows of that transaction point at what is shown now (Rows).         *)
(* RingInv adds that no value is later than the block number, from which   *)
(* and from RefInv the order of the rings follows: a value goes to the     *)
(* place after the latest one.                                             *)
(***************************************************************************)
EXTENDS AdfsPublish, SequenceTheorems, TLAPS

Batch == [height : 1..MaxHeight, feeds : SUBSET Feeds]
Calldata == UNION {[S -> Ordinals] : S \in SUBSET Feeds}
Tx == [nonce : Nat, height : Nat, values : Calldata, rows : Calldata]
SentTx == {t \in Tx : t.values # <<>> /\ t.height \in 1..MaxHeight}

Types ==
  /\ height \in 0..MaxHeight /\ is_enabled \in BOOLEAN
  /\ queue \in Seq(Batch)
  /\ pc \in {"recv", "nonce", "send", "receipt"}
  /\ pc = "recv" => tx = NoTx
  /\ pc # "recv" => tx \in SentTx
  /\ retries \in 0..(RetriesLimit + 1)
  /\ pc = "receipt" => retries <= RetriesLimit
  /\ rb_indices \in [Feeds -> Nat] /\ history \in [Feeds -> 0..MaxHeight]
  /\ has_address \in BOOLEAN /\ n_restarts \in 0..MaxRestarts
  /\ mempool \in SUBSET SentTx
  /\ chain_nonce \in Nat /\ included.ok \in BOOLEAN
  /\ block_number \in 0..MaxHeight
  /\ latest_index \in [Feeds -> Ordinals]
  /\ data \in [Feeds -> [Ordinals -> 0..MaxHeight]]

Assumption == MaxHeight \in Nat /\ MaxRestarts \in Nat /\ RetriesLimit \in Nat /\ Ring \in Nat \ {0, 1}

LEMMA Constants == Assumption
BY AdfsPublishAssumption DEF AdfsPublishAssumption, Assumption

LEMMA RingIndexType == ASSUME NEW n \in Nat PROVE RingIndex(n) \in Ordinals
BY Constants DEF RingIndex, Ordinals, Assumption

LEMMA NoTxType == NoTx \in Tx
<1>1. <<>> \in [{} -> Ordinals]
  OBVIOUS
<1>2. <<>> \in Calldata
  BY <1>1 DEF Calldata
<1>. QED
  BY <1>2 DEF NoTx, Tx

LEMMA SentTxType ==
  ASSUME NEW t \in SentTx
  PROVE  /\ t \in Tx /\ t # NoTx /\ t.height \in 1..MaxHeight /\ t.nonce \in Nat
         /\ DOMAIN t.values \in SUBSET Feeds /\ DOMAIN t.rows \in SUBSET Feeds
         /\ \A f \in DOMAIN t.values : t.values[f] \in Ordinals
         /\ \A f \in DOMAIN t.rows : t.rows[f] \in Ordinals
<1>1. t \in Tx /\ t.values # <<>> /\ t.height \in 1..MaxHeight
  BY DEF SentTx
<1>2. t.nonce \in Nat /\ t.values \in Calldata /\ t.rows \in Calldata
  BY <1>1 DEF Tx
<1>3. NoTx.values = <<>>
  BY DEF NoTx
<1>4. ASSUME NEW c \in Calldata
      PROVE  DOMAIN c \in SUBSET Feeds /\ \A f \in DOMAIN c : c[f] \in Ordinals
  BY DEF Calldata
<1>. QED
  BY <1>1, <1>2, <1>3, <1>4

LEMMA SerializeType ==
  ASSUME Types, NEW b \in Batch, NEW S \in SUBSET Feeds, S # {}
  PROVE  Serialize(b, S) \in SentTx
<1>. DEFINE v == [f \in S |-> RingIndex(rb_indices[f])]
            r == [f \in Neighbours(S) |-> RowIndex(f, S)]
<1>1. v \in [S -> Ordinals]
  BY RingIndexType DEF Types
<1>2. \A f \in Feeds : RowIndex(f, S) \in Ordinals
  <2>1. SUFFICES ASSUME NEW f \in Feeds PROVE RowIndex(f, S) \in Ordinals
    OBVIOUS
  <2>2. (IF f \in S \/ rb_indices[f] = 0 THEN rb_indices[f] ELSE rb_indices[f] - 1) \in Nat
    BY DEF Types
  <2>. QED
    BY <2>2, RingIndexType DEF RowIndex
<1>3. Neighbours(S) \in SUBSET Feeds
  BY DEF Neighbours
<1>4. r \in [Neighbours(S) -> Ordinals]
  BY <1>2, <1>3
<1>5. v \in Calldata /\ r \in Calldata
  BY <1>1, <1>3, <1>4 DEF Calldata
<1>6. v # <<>>
  <2>1. DOMAIN v = S
    OBVIOUS
  <2>2. DOMAIN <<>> = {}
    OBVIOUS
  <2>. QED
    BY <2>1, <2>2
<1>7. Serialize(b, S) = [nonce |-> 0, height |-> b.height, values |-> v, rows |-> r]
  BY DEF Serialize
<1>. HIDE DEF v, r
<1>8. b.height \in 1..MaxHeight /\ b.height \in Nat
  BY Constants DEF Batch, Assumption
<1>. QED
  BY <1>5, <1>6, <1>7, <1>8 DEF SentTx, Tx

LEMMA CountsType ==
  ASSUME Types, NEW S \in SUBSET Feeds
  PROVE  /\ IncrementFeedsRbIndices(S) => rb_indices' \in [Feeds -> Nat]
         /\ DecrementFeedRbIndices(S) => rb_indices' \in [Feeds -> Nat]
<1>1. rb_indices \in [Feeds -> Nat]
  BY DEF Types
<1>2. \A n \in Nat : n + 1 \in Nat /\ (n > 0 => n - 1 \in Nat)
  OBVIOUS
<1>3. IncrementFeedsRbIndices(S) => rb_indices' \in [Feeds -> Nat]
  BY <1>1, <1>2 DEF IncrementFeedsRbIndices
<1>4. DecrementFeedRbIndices(S) => rb_indices' \in [Feeds -> Nat]
  BY <1>1, <1>2 DEF DecrementFeedRbIndices
<1>. QED
  BY <1>3, <1>4

LEMMA EndBatchType ==
  ASSUME Types, pc # "recv", NEW status, EndBatch(status)
  PROVE  /\ pc' = "recv" /\ tx' = NoTx /\ retries' \in 0..(RetriesLimit + 1)
         /\ rb_indices' \in [Feeds -> Nat]
<1>1. DOMAIN tx.values \in SUBSET Feeds
  BY SentTxType DEF Types
<1>. QED
  BY <1>1, CountsType, Constants DEF EndBatch, Types, Assumption

-----------------------------------------------------------------------------
(* Types is preserved, action by action.                                   *)

LEMMA InitTypes == ASSUME Init PROVE Types
<1>1. 0 \in Ordinals /\ 0 \in 0..MaxHeight /\ 0 \in 0..MaxRestarts /\ 0 \in 0..(RetriesLimit + 1)
  BY Constants DEF Ordinals, Assumption
<1>2. data \in [Feeds -> [Ordinals -> 0..MaxHeight]]
  BY <1>1 DEF Init, Ordinals
<1>3. queue \in Seq(Batch)
  BY DEF Init
<1>4. /\ latest_index \in [Feeds -> Ordinals] /\ rb_indices \in [Feeds -> Nat]
      /\ history \in [Feeds -> 0..MaxHeight]
  BY <1>1 DEF Init
<1>5. included.ok \in BOOLEAN /\ mempool \in SUBSET SentTx
  BY DEF Init
<1>. QED
  BY <1>1, <1>2, <1>3, <1>4, <1>5 DEF Init, Types

LEMMA SendToRelayerTypes ==
  ASSUME Types, NEW S \in SUBSET Feeds, SendToRelayer(S)
  PROVE  Types'
<1>1. height + 1 \in 1..MaxHeight
  BY Constants DEF SendToRelayer, Types, Assumption
<1>2. [height |-> height + 1, feeds |-> S] \in Batch
  BY <1>1 DEF Batch
<1>3. queue' \in Seq(Batch)
  <2>1. queue \in Seq(Batch)
    BY DEF Types
  <2>2. Append(queue, [height |-> height + 1, feeds |-> S]) \in Seq(Batch)
    BY <1>2, <2>1, AppendProperties
  <2>. QED
    BY <2>1, <2>2 DEF SendToRelayer
<1>4. height' \in 0..MaxHeight
  BY <1>1 DEF SendToRelayer
<1>. QED
  BY <1>3, <1>4 DEF SendToRelayer, Types, provider_vars, network_vars, contract_vars

(* Taking a batch: nothing of it is left, it has no address, or it is sent. *)
LEMMA TakeBatchCases ==
  ASSUME Types, TakeBatch
  PROVE  /\ pc = "recv" /\ queue # <<>> /\ queue' = Tail(queue)
         /\ UNCHANGED <<source_vars, history, has_address, n_restarts, network_vars, contract_vars>>
         /\ \/ UNCHANGED <<pc, tx, retries, rb_indices>>
            \/ /\ UNCHANGED <<pc, tx, retries>>
               /\ rb_indices' \in [Feeds -> Nat]
            \/ /\ pc' = "nonce" /\ retries' = 0 /\ rb_indices' \in [Feeds -> Nat]
               /\ tx' \in SentTx /\ tx'.height = Head(queue).height
<1>1. /\ pc = "recv" /\ queue # <<>> /\ queue' = Tail(queue)
      /\ UNCHANGED <<source_vars, history, has_address, n_restarts, network_vars, contract_vars>>
  BY DEF TakeBatch
<1>2. PICK skipped \in SUBSET {f \in Head(queue).feeds \intersect Criteria : history[f] # 0} :
        LET S == Head(queue).feeds \ skipped
        IN  IF S = {}
            THEN UNCHANGED <<pc, tx, retries, rb_indices>>
            ELSE /\ IncrementFeedsRbIndices(S)
                 /\ IF has_address
                    THEN pc' = "nonce" /\ tx' = Serialize(Head(queue), S) /\ retries' = 0
                    ELSE UNCHANGED <<pc, tx, retries>>
  BY DEF TakeBatch
<1>. DEFINE S == Head(queue).feeds \ skipped
<1>3. Head(queue) \in Batch
  BY <1>1, HeadTailProperties DEF Types
<1>4. S \in SUBSET Feeds
  BY <1>3 DEF Batch
<1>. HIDE DEF S
<1>5. CASE S = {}
  BY <1>1, <1>2, <1>5 DEF S
<1>6. CASE S # {}
  <2>1. /\ IncrementFeedsRbIndices(S)
        /\ IF has_address
           THEN pc' = "nonce" /\ tx' = Serialize(Head(queue), S) /\ retries' = 0
           ELSE UNCHANGED <<pc, tx, retries>>
    BY <1>2, <1>6 DEF S
  <2>2. rb_indices' \in [Feeds -> Nat]
    BY <1>4, <2>1, CountsType
  <2>3. Serialize(Head(queue), S) \in SentTx
    BY <1>3, <1>4, <1>6, SerializeType
  <2>4. Serialize(Head(queue), S).height = Head(queue).height
    BY DEF Serialize
  <2>. QED
    BY <1>1, <2>1, <2>2, <2>3, <2>4
<1>. QED
  BY <1>5, <1>6

LEMMA TakeBatchTypes ==
  ASSUME Types, TakeBatch
  PROVE  Types'
<1>1. queue' \in Seq(Batch)
  <2>1. queue # <<>> /\ queue' = Tail(queue)
    BY TakeBatchCases
  <2>2. queue \in Seq(Batch)
    BY DEF Types
  <2>. QED
    BY <2>1, <2>2, HeadTailProperties
<1>2. 0 \in 0..(RetriesLimit + 1)
  BY Constants DEF Assumption
<1>. QED
  BY <1>1, <1>2, TakeBatchCases DEF Types, source_vars, network_vars, contract_vars

LEMMA RelayerTypes ==
  ASSUME Types, Relayer
  PROVE  Types'
<1>. USE Constants DEF Assumption
<1>1. CASE TakeBatch
  BY <1>1, TakeBatchTypes
<1>2. CASE GetNonce
  <2>1. ASSUME tx' = [tx EXCEPT !.nonce = chain_nonce] PROVE tx' \in SentTx
    BY <1>2, <2>1 DEF GetNonce, Types, SentTx, Tx
  <2>2. /\ pc' \in {"nonce", "send"} /\ tx' \in SentTx
        /\ retries' = 0 \/ (retries' = retries + 1 /\ retries <= RetriesLimit)
    BY <1>2, <2>1 DEF GetNonce, Inc, Types
  <2>3. retries' \in 0..(RetriesLimit + 1)
    BY <2>2 DEF Types
  <2>. QED
    BY <1>2, <2>2, <2>3 DEF GetNonce, Types, source_vars, provider_vars, network_vars, contract_vars
<1>3. CASE Send
  <2>1. mempool' \in SUBSET SentTx
    BY <1>3 DEF Send, Types
  <2>. QED
    BY <1>3, <2>1 DEF Send, Inc, Types, source_vars, provider_vars, contract_vars
<1>4. CASE SendFails
  BY <1>4 DEF SendFails, FailedTry, Inc, Types, source_vars, provider_vars, network_vars, contract_vars
<1>5. CASE ExecutionRevert
  <2>1. mempool' \in SUBSET SentTx
    BY <1>5 DEF ExecutionRevert, Forget, Types
  <2>2. /\ pc' = "recv" /\ tx' = NoTx /\ retries' \in 0..(RetriesLimit + 1)
        /\ rb_indices' \in [Feeds -> Nat]
    BY <1>5, EndBatchType DEF ExecutionRevert
  <2>. QED
    BY <1>5, <2>1, <2>2 DEF ExecutionRevert, Types, source_vars, contract_vars
<1>6. CASE NonceIsUsed
  <2>1. /\ pc' = "recv" /\ tx' = NoTx /\ retries' \in 0..(RetriesLimit + 1)
        /\ rb_indices' \in [Feeds -> Nat]
    BY <1>6, EndBatchType DEF NonceIsUsed
  <2>. QED
    BY <1>6, <2>1 DEF NonceIsUsed, Types, source_vars, network_vars, contract_vars
<1>7. CASE GetReceipt
  <2>1. /\ pc' = "recv" /\ tx' = NoTx /\ retries' \in 0..(RetriesLimit + 1)
        /\ rb_indices' \in [Feeds -> Nat]
    BY <1>7, EndBatchType DEF GetReceipt
  <2>2. history' \in [Feeds -> 0..MaxHeight]
    <3>1. tx.height \in 0..MaxHeight
      BY <1>7 DEF GetReceipt, Types, SentTx
    <3>. QED
      BY <1>7, <3>1 DEF GetReceipt, Types
  <2>. QED
    BY <1>7, <2>1, <2>2 DEF GetReceipt, Types, source_vars, network_vars, contract_vars
<1>8. CASE ReceiptTimesOut
  BY <1>8 DEF ReceiptTimesOut, FailedTry, Inc, Types, source_vars, provider_vars, network_vars,
              contract_vars
<1>9. CASE GiveUp
  <2>1. mempool' \in SUBSET SentTx
    BY <1>9 DEF GiveUp, Forget, Types
  <2>2. /\ pc' = "recv" /\ tx' = NoTx /\ retries' \in 0..(RetriesLimit + 1)
        /\ rb_indices' \in [Feeds -> Nat]
    BY <1>9, EndBatchType DEF GiveUp
  <2>. QED
    BY <1>9, <2>1, <2>2 DEF GiveUp, Types, source_vars, contract_vars
<1>. QED
  BY <1>1, <1>2, <1>3, <1>4, <1>5, <1>6, <1>7, <1>8, <1>9 DEF Relayer

LEMMA SetFeedsType ==
  ASSUME Types, NEW t \in SentTx, SetFeeds(t)
  PROVE  /\ block_number' \in 0..MaxHeight
         /\ latest_index' \in [Feeds -> Ordinals]
         /\ data' \in [Feeds -> [Ordinals -> 0..MaxHeight]]
<1>1. /\ t.height \in 0..MaxHeight
      /\ \A f \in DOMAIN t.values : t.values[f] \in Ordinals
      /\ \A f \in DOMAIN t.rows : t.rows[f] \in Ordinals
  BY SentTxType
<1>2. /\ latest_index \in [Feeds -> Ordinals]
      /\ data \in [Feeds -> [Ordinals -> 0..MaxHeight]]
  BY DEF Types
<1>3. ASSUME NEW f \in Feeds, f \in DOMAIN t.values
      PROVE  [data[f] EXCEPT ![t.values[f]] = t.height] \in [Ordinals -> 0..MaxHeight]
  BY <1>1, <1>2, <1>3
<1>4. data' \in [Feeds -> [Ordinals -> 0..MaxHeight]]
  BY <1>2, <1>3 DEF SetFeeds
<1>. QED
  BY <1>1, <1>2, <1>4 DEF SetFeeds

LEMMA IncludeTypes ==
  ASSUME Types, NEW t \in mempool, Include(t)
  PROVE  Types'
<1>1. t \in SentTx
  BY DEF Types
<1>2. /\ UNCHANGED <<source_vars, relayer_vars, provider_vars, n_restarts>>
      /\ chain_nonce' = chain_nonce + 1
      /\ mempool' = {m \in mempool : m.nonce # t.nonce}
      /\ included'.ok \in BOOLEAN
      /\ SetFeeds(t) \/ UNCHANGED contract_vars
  BY DEF Include
<1>3. /\ block_number' \in 0..MaxHeight
      /\ latest_index' \in [Feeds -> Ordinals]
      /\ data' \in [Feeds -> [Ordinals -> 0..MaxHeight]]
  <2>1. CASE SetFeeds(t)
    BY <1>1, <2>1, SetFeedsType
  <2>2. CASE UNCHANGED contract_vars
    BY <2>2 DEF contract_vars, Types
  <2>. QED
    BY <1>2, <2>1, <2>2
<1>. QED
  BY <1>2, <1>3 DEF Types, source_vars, relayer_vars, provider_vars

LEMMA RestartTypes ==
  ASSUME Types, Restart
  PROVE  Types'
<1>. USE Constants DEF Assumption
<1>1. \A f \in Feeds : NextIndex(f) \in Nat
  <2>1. SUFFICES ASSUME NEW f \in Feeds PROVE NextIndex(f) \in Nat
    OBVIOUS
  <2>2. latest_index[f] \in Nat
    BY DEF Types, Ordinals
  <2>3. latest_index[f] + 1 \in Nat
    BY <2>2
  <2>4. (latest_index[f] + 1) % Ring \in Nat
    BY <2>3
  <2>. QED
    BY <2>4 DEF NextIndex
<1>2. rb_indices' \in [Feeds -> Nat]
  BY <1>1 DEF Restart
<1>3. history' \in [Feeds -> 0..MaxHeight]
  BY DEF Restart
<1>4. mempool' \in SUBSET SentTx
  BY DEF Restart, Forget, Types
<1>5. queue' \in Seq(Batch) /\ retries' \in 0..(RetriesLimit + 1) /\ n_restarts' \in 0..MaxRestarts
  BY DEF Restart, Types
<1>. QED
  BY <1>2, <1>3, <1>4, <1>5 DEF Restart, HeightAfterRestart, Types, contract_vars

LEMMA NextTypes == ASSUME Types, [Next]_vars PROVE Types'
<1>1. ASSUME NEW S \in SUBSET Feeds \ {{}}, SendToRelayer(S) PROVE Types'
  BY <1>1, SendToRelayerTypes
<1>2. CASE SetIsEnabled
  BY <1>2 DEF SetIsEnabled, Types, relayer_vars, provider_vars, network_vars, contract_vars
<1>3. CASE SetContractAddress
  BY <1>3 DEF SetContractAddress, Types, source_vars, relayer_vars, network_vars, contract_vars
<1>4. CASE Relayer
  BY <1>4, RelayerTypes
<1>5. ASSUME NEW t \in mempool, Include(t) PROVE Types'
  BY <1>5, IncludeTypes
<1>6. CASE Restart
  BY <1>6, RestartTypes
<1>7. CASE UNCHANGED vars
  BY <1>7 DEF vars, Types, source_vars, relayer_vars, provider_vars, network_vars, contract_vars
<1>. QED
  BY <1>1, <1>2, <1>3, <1>4, <1>5, <1>6, <1>7 DEF Next

LEMMA TypesHold == Spec => []Types
<1>1. Init => Types
  BY InitTypes
<1>2. Types /\ [Next]_vars => Types'
  BY NextTypes
<1>. QED
  BY <1>1, <1>2, PTL DEF Spec

(* The state of the relayer, its provider, the account and the contract    *)
(* have their types; every index of calldata fits the ring.                *)
THEOREM TypeCorrect == Spec => []TypeOK
<1>1. Types => TypeOK
  <2>. SUFFICES ASSUME Types PROVE TypeOK
    OBVIOUS
  <2>1. tx \in Tx /\ (pc = "recv" <=> tx = NoTx)
    BY NoTxType, SentTxType DEF Types
  <2>2. \A t \in mempool : t.values # <<>> /\ t.height \in 1..MaxHeight
    BY DEF Types, SentTx
  <2>. QED
    BY <2>1, <2>2 DEF Types, TypeOK, Batch, Tx, Calldata
<1>. QED
  BY <1>1, TypesHold, PTL

-----------------------------------------------------------------------------
(* Heights.                                                                *)

Fresh(t) == t.nonce <= chain_nonce /\ (t.nonce = chain_nonce => t.height > block_number)

Heights ==
  /\ block_number <= height
  /\ \A i \in DOMAIN queue :
       /\ queue[i].height <= height /\ queue[i].height > block_number
       /\ pc # "recv" => queue[i].height > tx.height
       /\ \A t \in mempool : queue[i].height > t.height
       /\ \A j \in DOMAIN queue : i < j => queue[i].height < queue[j].height
  /\ pc # "recv" => tx.height <= height
  /\ \A t \in mempool :
       /\ t.height <= height /\ Fresh(t)
       /\ pc # "recv" => t.height <= tx.height
       /\ pc = "nonce" => t.height < tx.height
  /\ pc = "nonce" => tx.height > block_number
  /\ pc \in {"send", "receipt"} => Fresh(tx)

LEMMA InitHeights == ASSUME Init PROVE Heights
BY DEF Init, Heights

LEMMA QueueType ==
  ASSUME Types
  PROVE  /\ \A i \in DOMAIN queue : queue[i].height \in Nat
         /\ DOMAIN queue = 1..Len(queue) /\ Len(queue) \in Nat
<1>1. \A i \in DOMAIN queue : queue[i] \in Batch
  BY DEF Types
<1>. QED
  BY <1>1, Constants DEF Types, Batch, Assumption

LEMMA SendToRelayerHeights ==
  ASSUME Types, Heights, NEW S \in SUBSET Feeds, SendToRelayer(S)
  PROVE  Heights'
<1>. DEFINE b == [height |-> height + 1, feeds |-> S]
<1>1. /\ height' = height + 1
      /\ UNCHANGED <<pc, tx, mempool, chain_nonce, block_number>>
      /\ queue' = Append(queue, b) \/ queue' = queue
  BY DEF SendToRelayer, network_vars, contract_vars
<1>2. height \in Nat /\ block_number \in Nat /\ (pc # "recv" => tx.height \in Nat)
      /\ \A t \in mempool : t.height \in Nat
  BY Constants, SentTxType DEF Types, Assumption
<1>3. b.height = height + 1
  OBVIOUS
<1>. HIDE DEF b
<1>4. CASE queue' = queue
  BY <1>1, <1>2, <1>4, QueueType DEF Heights, Fresh
<1>5. CASE queue' = Append(queue, b)
  <2>1. /\ DOMAIN queue' = DOMAIN queue \union {Len(queue) + 1}
        /\ \A i \in DOMAIN queue : queue'[i] = queue[i] /\ i < Len(queue) + 1
        /\ queue'[Len(queue) + 1] = b /\ Len(queue) \in Nat /\ DOMAIN queue \subseteq Int
    BY <1>5, QueueType DEF Types
  <2>2. \A i \in DOMAIN queue' :
         /\ queue'[i].height <= height' /\ queue'[i].height > block_number
         /\ pc # "recv" => queue'[i].height > tx.height
         /\ \A t \in mempool : queue'[i].height > t.height
    BY <1>1, <1>2, <1>3, <2>1, QueueType DEF Heights
  <2>3. \A i, j \in DOMAIN queue' : i < j => queue'[i].height < queue'[j].height
    <3>1. SUFFICES ASSUME NEW i \in DOMAIN queue', NEW j \in DOMAIN queue', i < j
                   PROVE  queue'[i].height < queue'[j].height
      OBVIOUS
    <3>2. i \in DOMAIN queue
      BY <2>1, <3>1
    <3>3. CASE j \in DOMAIN queue
      BY <2>1, <3>1, <3>2, <3>3 DEF Heights
    <3>4. CASE j = Len(queue) + 1
      BY <1>2, <1>3, <2>1, <3>2, <3>4, QueueType DEF Heights
    <3>. QED
      BY <2>1, <3>3, <3>4
  <2>4. /\ block_number <= height'
        /\ pc # "recv" => tx.height <= height'
        /\ \A t \in mempool : t.height <= height'
    BY <1>1, <1>2 DEF Heights
  <2>. QED
    BY <1>1, <2>2, <2>3, <2>4 DEF Heights, Fresh
<1>. QED
  BY <1>1, <1>4, <1>5

(* The end of a batch.                                                     *)
LEMMA EndHeights ==
  ASSUME Heights, pc' = "recv", mempool' \subseteq mempool,
         UNCHANGED <<height, queue, chain_nonce, block_number>>
  PROVE  Heights'
BY DEF Heights, Fresh

LEMMA TakeBatchHeights ==
  ASSUME Types, Heights, TakeBatch
  PROVE  Heights'
<1>1. /\ queue # <<>> /\ queue' = Tail(queue)
      /\ UNCHANGED <<height, mempool, chain_nonce, block_number>>
      /\ \/ UNCHANGED <<pc, tx>>
         \/ pc' = "nonce" /\ tx' \in SentTx /\ tx'.height = Head(queue).height
      /\ pc = "recv"
  BY TakeBatchCases DEF source_vars, network_vars, contract_vars
<1>2. /\ DOMAIN queue' = 1..(Len(queue) - 1) /\ Len(queue) \in Nat \ {0}
      /\ \A i \in DOMAIN queue' : queue'[i] = queue[i + 1]
      /\ DOMAIN queue = 1..Len(queue) /\ Head(queue) = queue[1]
  <2>1. queue \in Seq(Batch)
    BY DEF Types
  <2>. QED
    BY <1>1, <2>1
<1>3. \A i \in DOMAIN queue' : i + 1 \in DOMAIN queue /\ 1 \in DOMAIN queue /\ i \in Nat \ {0}
  BY <1>2
<1>4. \A i, j \in DOMAIN queue' : i < j => queue'[i].height < queue'[j].height
  <2>1. SUFFICES ASSUME NEW i \in DOMAIN queue', NEW j \in DOMAIN queue', i < j
                 PROVE  queue'[i].height < queue'[j].height
    OBVIOUS
  <2>2. i + 1 < j + 1
    BY <1>3, <2>1
  <2>. QED
    BY <1>2, <1>3, <2>2 DEF Heights
<1>5. \A i \in DOMAIN queue' :
       /\ queue'[i].height <= height /\ queue'[i].height > block_number
       /\ \A t \in mempool : queue'[i].height > t.height
       /\ queue'[i].height > Head(queue).height
  <2>1. SUFFICES ASSUME NEW i \in DOMAIN queue'
                 PROVE  /\ queue'[i].height <= height /\ queue'[i].height > block_number
                        /\ \A t \in mempool : queue'[i].height > t.height
                        /\ queue'[i].height > Head(queue).height
    OBVIOUS
  <2>2. 1 < i + 1
    BY <1>3
  <2>3. Head(queue).height < queue[i + 1].height
    BY <1>2, <1>3, <2>2 DEF Heights
  <2>4. queue[i + 1].height \in Nat /\ Head(queue).height \in Nat
    BY <1>2, <1>3, QueueType
  <2>. QED
    BY <1>2, <1>3, <2>3, <2>4 DEF Heights
<1>6. CASE UNCHANGED <<pc, tx>>
  BY <1>1, <1>4, <1>5, <1>6 DEF Heights, Fresh
<1>7. CASE pc' = "nonce" /\ tx' \in SentTx /\ tx'.height = Head(queue).height
  <2>1. 1 \in DOMAIN queue
    BY <1>2
  <2>2. /\ tx'.height <= height /\ tx'.height > block_number
        /\ \A t \in mempool : t.height < tx'.height /\ t.height <= tx'.height
    <3>1. /\ tx'.height = queue[1].height /\ queue[1].height \in Nat
          /\ \A t \in mempool : t.height \in Nat
      BY <1>2, <1>7, <2>1, QueueType, SentTxType DEF Types
    <3>. QED
      BY <2>1, <3>1 DEF Heights
  <2>. QED
    BY <1>1, <1>4, <1>5, <1>7, <2>2 DEF Heights, Fresh
<1>. QED
  BY <1>1, <1>6, <1>7

LEMMA RelayerHeights ==
  ASSUME Types, Heights, Relayer
  PROVE  Heights'
<1>1. CASE TakeBatch
  BY <1>1, TakeBatchHeights
<1>2. CASE GetNonce
  <2>1. UNCHANGED <<height, queue, mempool, chain_nonce, block_number>> /\ pc = "nonce"
    BY <1>2 DEF GetNonce, source_vars, network_vars, contract_vars
  <2>2. \/ UNCHANGED <<pc, tx>>
        \/ pc' = "send" /\ tx'.height = tx.height /\ tx'.nonce = chain_nonce
    BY <1>2, SentTxType DEF GetNonce, Types, Tx
  <2>3. chain_nonce \in Nat
    BY DEF Types
  <2>. QED
    BY <2>1, <2>2, <2>3 DEF Heights, Fresh
<1>3. CASE Send
  <2>1. /\ UNCHANGED <<height, queue, tx, chain_nonce, block_number>>
        /\ pc = "send" /\ pc' \in {"send", "receipt"}
        /\ mempool' \subseteq mempool \union {tx}
    BY <1>3 DEF Send, source_vars, contract_vars
  <2>2. tx.height \in Nat
    BY <2>1, SentTxType DEF Types
  <2>. QED
    BY <2>1, <2>2 DEF Heights, Fresh
<1>4. CASE SendFails
  BY <1>4 DEF SendFails, source_vars, network_vars, contract_vars, Heights, Fresh
<1>5. CASE ExecutionRevert
  <2>1. mempool' \subseteq mempool
    BY <1>5 DEF ExecutionRevert, Forget
  <2>. QED
    BY <1>5, <2>1, EndHeights DEF ExecutionRevert, EndBatch, source_vars, contract_vars
<1>6. CASE NonceIsUsed
  BY <1>6, EndHeights DEF NonceIsUsed, EndBatch, source_vars, network_vars, contract_vars
<1>7. CASE GetReceipt
  BY <1>7, EndHeights DEF GetReceipt, EndBatch, source_vars, network_vars, contract_vars
<1>8. CASE ReceiptTimesOut
  BY <1>8 DEF ReceiptTimesOut, source_vars, network_vars, contract_vars, Heights, Fresh
<1>9. CASE GiveUp
  <2>1. mempool' \subseteq mempool
    BY <1>9 DEF GiveUp, Forget
  <2>. QED
    BY <1>9, <2>1, EndHeights DEF GiveUp, EndBatch, source_vars, contract_vars
<1>. QED
  BY <1>1, <1>2, <1>3, <1>4, <1>5, <1>6, <1>7, <1>8, <1>9 DEF Relayer

(* An inclusion uses up the nonce, and with it all that had this nonce.    *)
LEMMA IncludeHeights ==
  ASSUME Types, Heights, NEW t \in mempool, Include(t)
  PROVE  Heights'
<1>1. /\ UNCHANGED <<height, queue, pc, tx>>
      /\ t.nonce = chain_nonce /\ chain_nonce' = chain_nonce + 1
      /\ mempool' = {m \in mempool : m.nonce # chain_nonce}
      /\ block_number' = t.height \/ block_number' = block_number
  BY DEF Include, SetFeeds, source_vars, relayer_vars, contract_vars
<1>2. /\ chain_nonce \in Nat /\ block_number \in Nat
      /\ \A m \in mempool : m.nonce \in Nat /\ m.height \in Nat
      /\ pc # "recv" => tx.nonce \in Nat /\ tx.height \in Nat
  BY Constants, SentTxType DEF Types, Assumption
<1>3. \A m \in mempool' : Fresh(m)'
  BY <1>1, <1>2 DEF Heights, Fresh
<1>4. pc \in {"send", "receipt"} => Fresh(tx)'
  BY <1>1, <1>2 DEF Heights, Fresh
<1>. QED
  BY <1>1, <1>2, <1>3, <1>4 DEF Heights

LEMMA NextHeights == ASSUME Types, Heights, [Next]_vars PROVE Heights'
<1>1. ASSUME NEW S \in SUBSET Feeds \ {{}}, SendToRelayer(S) PROVE Heights'
  BY <1>1, SendToRelayerHeights
<1>2. CASE SetIsEnabled
  BY <1>2 DEF SetIsEnabled, Heights, Fresh, relayer_vars, network_vars, contract_vars
<1>3. CASE SetContractAddress
  BY <1>3 DEF SetContractAddress, Heights, Fresh, source_vars, relayer_vars, network_vars, contract_vars
<1>4. CASE Relayer
  BY <1>4, RelayerHeights
<1>5. ASSUME NEW t \in mempool, Include(t) PROVE Heights'
  BY <1>5, IncludeHeights
<1>6. CASE Restart
  BY <1>6 DEF Restart, HeightAfterRestart, Forget, Heights, Fresh, contract_vars
<1>7. CASE UNCHANGED vars
  BY <1>7 DEF vars, Heights, Fresh, source_vars, relayer_vars, network_vars, contract_vars
<1>. QED
  BY <1>1, <1>2, <1>3, <1>4, <1>5, <1>6, <1>7 DEF Next

(* setFeeds never refuses a transaction for its block number, after        *)
(* retries, timeouts, late inclusions and restarts, as long as the         *)
(* heights go on after a restart (HeightAfterRestart).                     *)
THEOREM NeverRefusedHolds == Spec => []NeverRefused
<1>1. Init => Heights
  BY InitHeights
<1>2. Types /\ Heights /\ [Next]_vars => Heights'
  BY NextHeights
<1>3. Heights => NeverRefused
  BY DEF Heights, Fresh, NeverRefused, Accepted
<1>. QED
  BY <1>1, <1>2, <1>3, TypesHold, PTL DEF Spec

-----------------------------------------------------------------------------
(* The refinement, without mishaps.                                        *)
(*                                                                         *)
(* Alone: no transaction but the one in hand can be included.  Receipts:   *)
(* a nonce that is used was used by the transaction in hand, which then    *)
(* did not revert unless its receipt is still awaited.  Counts: a feed is  *)
(* counted right after its latest value, not counting a transaction that   *)
(* has not taken effect.  Rows: such a transaction writes the latest       *)
(* indices of feeds that it does not update as they are.                   *)

Unpublished(f) == \A i \in Ordinals : data[f][i] = 0

Sending == pc \in {"send", "receipt"}
IsIncluded == Sending /\ tx.nonce # chain_nonce
TookEffect == IsIncluded /\ included.ok

Alone ==
  /\ mempool \subseteq {tx}
  /\ mempool # {} => Sending /\ tx.nonce = chain_nonce
  /\ ~has_address => pc = "recv" /\ \A f \in Feeds : Unpublished(f)

Receipts ==
  /\ included.tx # NoTx => included.tx.nonce < chain_nonce
  /\ Sending => tx.nonce <= chain_nonce
  /\ IsIncluded => included.tx = tx
  /\ IsIncluded /\ pc = "send" => included.ok /\ retries <= RetriesLimit

(* The count n of feed f leads to the place after the feed's latest value. *)
CountedAs(f, n) ==
  \/ Unpublished(f)
  \/ n # 0 /\ n % Ring = (latest_index[f] + 1) % Ring
  \/ n = 0 /\ latest_index[f] = 0

InHand(f) == pc # "recv" /\ f \in DOMAIN tx.values

Counts ==
  \A f \in Feeds :
    /\ InHand(f) => rb_indices[f] # 0 /\ tx.values[f] = (rb_indices[f] - 1) % Ring
    /\ CountedAs(f, IF InHand(f) /\ ~TookEffect THEN rb_indices[f] - 1 ELSE rb_indices[f])

RowsAreRight(t) ==
  /\ DOMAIN t.values \subseteq DOMAIN t.rows
  /\ \A f \in DOMAIN t.rows :
       IF f \in DOMAIN t.values THEN t.rows[f] = t.values[f]
       ELSE Unpublished(f) \/ t.rows[f] = latest_index[f]

Rows == pc # "recv" /\ ~IsIncluded => RowsAreRight(tx)

RefInv == Alone /\ Receipts /\ Counts /\ Rows

-----------------------------------------------------------------------------
(* Arithmetic of rings.                                                    *)

LEMMA Division ==
  ASSUME NEW n \in Nat, NEW R \in Nat \ {0}
  PROVE  /\ n \div R \in Nat /\ n % R \in 0..(R - 1)
         /\ n = R * (n \div R) + (n % R)
OBVIOUS

LEMMA Remainder ==
  ASSUME NEW R \in Nat \ {0}, NEW q \in Nat, NEW r \in 0..(R - 1), NEW n \in Nat, n = R * q + r
  PROVE  n % R = r
<1>. DEFINE p == n \div R
            s == n % R
<1>1. p \in Nat /\ s \in 0..(R - 1) /\ n = R * p + s
  BY Division
<1>. HIDE DEF p, s
<1>2. ~(p > q)
  <2>. SUFFICES ASSUME p >= q + 1 PROVE FALSE
    BY <1>1
  <2>1. R * p >= R * (q + 1)
    BY <1>1
  <2>2. R * (q + 1) = R * q + R
    OBVIOUS
  <2>3. R * p \in Nat /\ R * q \in Nat
    BY <1>1
  <2>. QED
    BY <1>1, <2>1, <2>2, <2>3
<1>3. ~(q > p)
  <2>. SUFFICES ASSUME q >= p + 1 PROVE FALSE
    BY <1>1
  <2>1. R * q >= R * (p + 1)
    BY <1>1
  <2>2. R * (p + 1) = R * p + R
    BY <1>1
  <2>3. R * p \in Nat /\ R * q \in Nat
    BY <1>1
  <2>. QED
    BY <1>1, <2>1, <2>2, <2>3
<1>4. p = q
  BY <1>1, <1>2, <1>3
<1>5. R * p \in Nat
  BY <1>1
<1>6. s = r
  BY <1>1, <1>4, <1>5
<1>. QED
  BY <1>6 DEF s

LEMMA Multiple ==
  ASSUME NEW R \in Nat \ {0}, NEW q \in Nat
  PROVE  (R * q) % R = 0
<1>1. PICK n \in Nat : n = R * q
  OBVIOUS
<1>2. PICK r \in 0..(R - 1) : r = 0
  OBVIOUS
<1>3. n = R * q + r
  BY <1>1, <1>2
<1>4. n % R = r
  BY <1>3, Remainder
<1>. QED
  BY <1>1, <1>2, <1>4

LEMMA Successor ==
  ASSUME NEW R \in Nat \ {0}, NEW n \in Nat
  PROVE  (n + 1) % R = ((n % R) + 1) % R
<1>. DEFINE p == n \div R
            s == n % R
<1>1. p \in Nat /\ s \in 0..(R - 1) /\ n = R * p + s
  BY Division
<1>. HIDE DEF p, s
<1>2. R * p \in Nat
  BY <1>1
<1>3. CASE s + 1 < R
  <2>1. n + 1 = R * p + (s + 1) /\ s + 1 \in 0..(R - 1)
    BY <1>1, <1>2, <1>3
  <2>2. (n + 1) % R = s + 1
    BY <1>1, <2>1, Remainder
  <2>3. s + 1 = R * 0 + (s + 1)
    BY <1>1
  <2>4. (s + 1) % R = s + 1
    BY <1>1, <2>1, <2>3, Remainder
  <2>. QED
    BY <2>2, <2>4 DEF s
<1>4. CASE s + 1 = R
  <2>1. R * (p + 1) = R * p + R
    BY <1>1
  <2>2. n + 1 = R * (p + 1) /\ p + 1 \in Nat /\ n + 1 \in Nat
    BY <1>1, <1>2, <1>4, <2>1
  <2>3. (n + 1) % R = 0
    BY <1>1, <2>2, Multiple
  <2>4. R = R * 1
    OBVIOUS
  <2>5. R % R = 0
    BY <2>4, Multiple
  <2>. QED
    BY <1>4, <2>3, <2>5 DEF s
<1>. QED
  BY <1>1, <1>3, <1>4

LEMMA Predecessor ==
  ASSUME NEW R \in Nat \ {0}, NEW n \in Nat, n # 0, NEW i \in 0..(R - 1),
         n % R = (i + 1) % R
  PROVE  (n - 1) % R = i
<1>. DEFINE s == (n - 1) % R
<1>1. s \in 0..(R - 1)
  BY Division
<1>2. n % R = (s + 1) % R
  <2>1. n - 1 \in Nat /\ (n - 1) + 1 = n
    OBVIOUS
  <2>. QED
    BY <2>1, Successor
<1>. HIDE DEF s
<1>3. \A j \in 0..(R - 1) : (j + 1) % R = IF j + 1 = R THEN 0 ELSE j + 1
  <2>1. SUFFICES ASSUME NEW j \in 0..(R - 1)
                 PROVE  (j + 1) % R = IF j + 1 = R THEN 0 ELSE j + 1
    OBVIOUS
  <2>2. CASE j + 1 = R
    <3>1. j + 1 = R * 1
      BY <2>2
    <3>. QED
      BY <2>2, <3>1, Multiple
  <2>3. CASE j + 1 # R
    <3>1. j + 1 = R * 0 + (j + 1) /\ j + 1 \in 0..(R - 1)
      BY <2>3
    <3>. QED
      BY <2>3, <3>1, Remainder
  <2>. QED
    BY <2>2, <2>3
<1>4. s = i
  BY <1>1, <1>2, <1>3
<1>. QED
  BY <1>4 DEF s

LEMMA RingIndexIsNext ==
  ASSUME NEW n \in Nat, n # 0
  PROVE  /\ n - 1 \in Nat
         /\ (n - 1) % Ring \in Ordinals
         /\ n % Ring = (((n - 1) % Ring) + 1) % Ring
<1>1. Ring \in Nat \ {0}
  BY Constants DEF Assumption
<1>2. n - 1 \in Nat /\ (n - 1) + 1 = n
  OBVIOUS
<1>3. (n - 1) % Ring \in Ordinals
  BY <1>1, <1>2, Division DEF Ordinals
<1>4. ((n - 1) + 1) % Ring = (((n - 1) % Ring) + 1) % Ring
  BY <1>1, <1>2, Successor
<1>. QED
  BY <1>2, <1>3, <1>4

LEMMA RingIndexIsLatest ==
  ASSUME NEW n \in Nat, n # 0, NEW i \in Ordinals, n % Ring = (i + 1) % Ring
  PROVE  (n - 1) % Ring = i
BY Constants, Predecessor DEF Assumption, Ordinals

-----------------------------------------------------------------------------
(* RefInv is preserved.                                                    *)

LEMMA InitRefInv == ASSUME Init PROVE RefInv
<1>1. \A f \in Feeds : Unpublished(f)
  BY DEF Init, Unpublished, Ordinals
<1>2. Alone /\ Receipts /\ Rows
  BY <1>1 DEF Init, Alone, Receipts, Rows, Sending, IsIncluded
<1>3. Counts
  BY <1>1 DEF Init, Counts, CountedAs, InHand
<1>. QED
  BY <1>2, <1>3 DEF RefInv

(* Steps that leave the contract, the counts and the transaction alone.    *)
LEMMA SameCounts ==
  ASSUME Counts, UNCHANGED <<tx, rb_indices, chain_nonce, included, contract_vars>>,
         pc' = pc \/ {pc, pc'} \subseteq {"send", "receipt"}
  PROVE  Counts'
BY DEF Counts, CountedAs, Unpublished, InHand, TookEffect, IsIncluded, Sending, contract_vars

LEMMA SameRows ==
  ASSUME Rows, UNCHANGED <<tx, chain_nonce, contract_vars>>,
         pc' = pc \/ {pc, pc'} \subseteq {"send", "receipt"}
  PROVE  Rows'
BY DEF Rows, RowsAreRight, Unpublished, IsIncluded, Sending, contract_vars

(* The end of a batch that took effect.                                    *)
LEMMA EndsIncluded ==
  ASSUME Types, RefInv, Sending, TookEffect, EndBatch("true"),
         UNCHANGED <<has_address, mempool, chain_nonce, included, contract_vars>>
  PROVE  RefInv'
<1>1. pc' = "recv" /\ rb_indices' = rb_indices
  BY DEF EndBatch
<1>2. Alone'
  BY <1>1 DEF RefInv, Alone, Sending, TookEffect, IsIncluded, Unpublished, contract_vars
<1>3. Receipts' /\ Rows'
  BY <1>1 DEF RefInv, Receipts, Rows, Sending, IsIncluded
<1>4. Counts'
  BY <1>1 DEF RefInv, Counts, CountedAs, Unpublished, InHand, contract_vars
<1>. QED
  BY <1>2, <1>3, <1>4 DEF RefInv

(* The end of a batch that did not.                                        *)
LEMMA EndsWithoutEffect ==
  ASSUME Types, RefInv, pc # "recv", ~TookEffect, NEW status, status # "true", EndBatch(status),
         mempool' = {}, UNCHANGED <<has_address, chain_nonce, included, contract_vars>>
  PROVE  RefInv'
<1>1. pc' = "recv" /\ DecrementFeedRbIndices(DOMAIN tx.values)
  BY DEF EndBatch
<1>2. Alone'
  BY <1>1 DEF RefInv, Alone, Sending, Unpublished, contract_vars
<1>3. Receipts' /\ Rows'
  BY <1>1 DEF RefInv, Receipts, Rows, Sending, IsIncluded
<1>4. Counts'
  <2>1. SUFFICES ASSUME NEW f \in Feeds
                 PROVE  CountedAs(f, rb_indices[f])'
    BY <1>1 DEF Counts, InHand
  <2>2. /\ InHand(f) => rb_indices[f] # 0
        /\ CountedAs(f, IF InHand(f) THEN rb_indices[f] - 1 ELSE rb_indices[f])
    BY DEF RefInv, Counts
  <2>3. rb_indices'[f] = IF InHand(f) THEN rb_indices[f] - 1 ELSE rb_indices[f]
    BY <1>1, <2>2 DEF DecrementFeedRbIndices, InHand, Types
  <2>. QED
    BY <2>2, <2>3 DEF CountedAs, Unpublished, contract_vars
<1>. QED
  BY <1>2, <1>3, <1>4 DEF RefInv

LEMMA TakeBatchRefInv ==
  ASSUME Types, RefInv, TakeBatch
  PROVE  RefInv'
<1>1. /\ pc = "recv" /\ queue # <<>>
      /\ UNCHANGED <<has_address, mempool, chain_nonce, included, contract_vars>>
  BY DEF TakeBatch, network_vars
<1>2. PICK skipped \in SUBSET {f \in Head(queue).feeds \intersect Criteria : history[f] # 0} :
        LET S == Head(queue).feeds \ skipped
        IN  IF S = {}
            THEN UNCHANGED <<pc, tx, retries, rb_indices>>
            ELSE /\ IncrementFeedsRbIndices(S)
                 /\ IF has_address
                    THEN pc' = "nonce" /\ tx' = Serialize(Head(queue), S) /\ retries' = 0
                    ELSE UNCHANGED <<pc, tx, retries>>
  BY DEF TakeBatch
<1>. DEFINE S == Head(queue).feeds \ skipped
<1>3. Head(queue) \in Batch
  BY <1>1, HeadTailProperties DEF Types
<1>4. S \in SUBSET Feeds
  BY <1>3 DEF Batch
<1>5. mempool = {} /\ \A f \in Feeds : CountedAs(f, rb_indices[f])
  BY <1>1 DEF RefInv, Alone, Counts, InHand, Sending
<1>. HIDE DEF S
<1>6. CASE UNCHANGED <<pc, tx, retries, rb_indices>>
  <2>1. Counts' /\ Rows'
    BY <1>1, <1>6, SameCounts, SameRows DEF RefInv
  <2>2. Alone' /\ Receipts'
    BY <1>1, <1>6 DEF RefInv, Alone, Receipts, Sending, IsIncluded, Unpublished, contract_vars
  <2>. QED
    BY <2>1, <2>2 DEF RefInv
<1>7. CASE UNCHANGED <<pc, tx, retries>> /\ ~has_address
  <2>1. \A f \in Feeds : Unpublished(f)'
    BY <1>1, <1>7 DEF RefInv, Alone, Unpublished, contract_vars
  <2>2. Counts'
    BY <1>1, <1>7, <2>1 DEF Counts, CountedAs, InHand
  <2>. QED
    BY <1>1, <1>5, <1>7, <2>1, <2>2 DEF RefInv, Alone, Receipts, Rows, Sending, IsIncluded
<1>8. CASE /\ pc' = "nonce" /\ tx' = Serialize(Head(queue), S) /\ has_address
           /\ IncrementFeedsRbIndices(S) /\ S # {}
  <2>1. /\ tx'.values = [f \in S |-> RingIndex(rb_indices[f])]
        /\ tx'.rows = [f \in Neighbours(S) |-> RowIndex(f, S)]
    BY <1>8 DEF Serialize
  <2>2. Alone' /\ Receipts'
    BY <1>1, <1>5, <1>8 DEF RefInv, Alone, Receipts, Sending, IsIncluded
  <2>3. Counts'
    <3>1. SUFFICES ASSUME NEW f \in Feeds,
                          NEW n, n = IF f \in S THEN rb_indices'[f] - 1 ELSE rb_indices'[f]
                   PROVE  /\ f \in S => rb_indices'[f] # 0 /\ tx'.values[f] = (rb_indices'[f] - 1) % Ring
                          /\ \/ Unpublished(f)'
                             \/ n # 0 /\ n % Ring = (latest_index'[f] + 1) % Ring
                             \/ n = 0 /\ latest_index'[f] = 0
      BY <1>8, <2>1 DEF Counts, CountedAs, InHand, TookEffect, IsIncluded, Sending
    <3>2. rb_indices[f] \in Nat
      BY DEF Types
    <3>3. rb_indices'[f] = IF f \in S THEN rb_indices[f] + 1 ELSE rb_indices[f]
      BY <1>8 DEF IncrementFeedsRbIndices
    <3>4. n = rb_indices[f]
      BY <3>1, <3>2, <3>3
    <3>5. CountedAs(f, rb_indices[f])
      BY <1>5
    <3>6. \/ Unpublished(f)'
          \/ n # 0 /\ n % Ring = (latest_index'[f] + 1) % Ring
          \/ n = 0 /\ latest_index'[f] = 0
      BY <1>1, <3>4, <3>5 DEF CountedAs, Unpublished, contract_vars
    <3>7. f \in S => rb_indices'[f] # 0 /\ tx'.values[f] = (rb_indices'[f] - 1) % Ring
      BY <2>1, <3>2, <3>3, <3>4 DEF RingIndex
    <3>. QED
      BY <3>6, <3>7
  <2>4. Rows'
    <3>1. S \subseteq Neighbours(S) /\ Neighbours(S) \subseteq Feeds
      BY <1>4 DEF Neighbours
    <3>2. ASSUME NEW f \in Neighbours(S)
          PROVE  IF f \in S THEN tx'.rows[f] = tx'.values[f]
                 ELSE Unpublished(f) \/ tx'.rows[f] = latest_index[f]
      <4>1. CASE f \in S
        BY <2>1, <4>1 DEF RowIndex
      <4>2. CASE f \notin S
        <5>1. rb_indices[f] \in Nat /\ latest_index[f] \in Ordinals /\ CountedAs(f, rb_indices[f])
          BY <1>5, <3>1 DEF Types
        <5>2. CASE rb_indices[f] = 0
          <6>1. 0 % Ring = 0
            BY Constants DEF Assumption
          <6>2. 0 % Ring = 0 /\ tx'.rows[f] = 0
            BY <2>1, <4>2, <5>2, <6>1 DEF RowIndex, RingIndex
          <6>. QED
            BY <4>2, <5>1, <5>2, <6>2 DEF CountedAs
        <5>3. CASE rb_indices[f] # 0
          <6>1. tx'.rows[f] = (rb_indices[f] - 1) % Ring
            BY <2>1, <4>2, <5>3 DEF RowIndex, RingIndex
          <6>. QED
            BY <4>2, <5>1, <5>3, <6>1, RingIndexIsLatest DEF CountedAs
        <5>. QED
          BY <5>2, <5>3
      <4>. QED
        BY <4>1, <4>2
    <3>3. RowsAreRight(tx)'
      BY <1>1, <2>1, <3>1, <3>2 DEF RowsAreRight, Unpublished, contract_vars
    <3>. QED
      BY <3>3 DEF Rows
  <2>. QED
    BY <2>2, <2>3, <2>4 DEF RefInv
<1>. QED
  BY <1>2, <1>6, <1>7, <1>8 DEF S

LEMMA GetNonceRefInv ==
  ASSUME Types, RefInv, GetNonce
  PROVE  RefInv'
<1>1. /\ pc = "nonce" /\ ~Sending
      /\ UNCHANGED <<rb_indices, has_address, mempool, chain_nonce, included, contract_vars>>
  BY DEF GetNonce, Sending, provider_vars, network_vars
<1>2. CASE UNCHANGED <<pc, tx>>
  <2>1. Counts' /\ Rows'
    BY <1>1, <1>2, SameCounts, SameRows DEF RefInv
  <2>2. Alone' /\ Receipts'
    BY <1>1, <1>2 DEF RefInv, Alone, Receipts, Sending, IsIncluded, Unpublished, contract_vars
  <2>. QED
    BY <2>1, <2>2 DEF RefInv
<1>3. CASE pc' = "send" /\ tx' = [tx EXCEPT !.nonce = chain_nonce]
  <2>1. tx'.values = tx.values /\ tx'.rows = tx.rows /\ tx'.nonce = chain_nonce
    BY <1>1, <1>3, SentTxType DEF Types, Tx
  <2>2. mempool = {} /\ has_address
    BY <1>1 DEF RefInv, Alone
  <2>3. ~IsIncluded /\ ~IsIncluded' /\ chain_nonce \in Nat
    BY <1>1, <2>1 DEF IsIncluded, Types
  <2>4. Alone' /\ Receipts'
    BY <1>1, <2>1, <2>2, <2>3 DEF RefInv, Alone, Receipts
  <2>5. Counts'
    BY <1>1, <1>3, <2>1, <2>3 DEF RefInv, Counts, CountedAs, Unpublished, InHand, TookEffect, contract_vars
  <2>6. Rows'
    BY <1>1, <2>1, <2>3 DEF RefInv, Rows, RowsAreRight, Unpublished, contract_vars
  <2>. QED
    BY <2>4, <2>5, <2>6 DEF RefInv
<1>. QED
  BY <1>2, <1>3 DEF GetNonce

LEMMA RelayerRefInv ==
  ASSUME Mishaps = {}, Types, RefInv, Relayer
  PROVE  RefInv'
<1>1. CASE TakeBatch
  BY <1>1, TakeBatchRefInv
<1>2. CASE GetNonce
  BY <1>2, GetNonceRefInv
<1>3. CASE Send
  <2>1. /\ UNCHANGED <<tx, rb_indices, has_address, chain_nonce, included, contract_vars>>
        /\ pc = "send" /\ pc' \in {"send", "receipt"}
        /\ tx.nonce = chain_nonce /\ mempool' \subseteq mempool \union {tx}
    BY <1>3 DEF Send, provider_vars
  <2>2. Counts' /\ Rows'
    BY <2>1, SameCounts, SameRows DEF RefInv
  <2>3. Alone' /\ Receipts'
    BY <2>1 DEF RefInv, Alone, Receipts, Sending, IsIncluded, Unpublished, contract_vars
  <2>. QED
    BY <2>2, <2>3 DEF RefInv
<1>4. CASE SendFails
  <2>1. /\ UNCHANGED <<pc, tx, rb_indices, has_address, mempool, chain_nonce, included, contract_vars>>
        /\ tx.nonce # chain_nonce => retries' <= RetriesLimit
    BY <1>4, Constants DEF SendFails, FailedTry, Inc, provider_vars, network_vars, Types, Assumption
  <2>2. Counts' /\ Rows'
    BY <2>1, SameCounts, SameRows DEF RefInv
  <2>3. Alone' /\ Receipts'
    BY <2>1 DEF RefInv, Alone, Receipts, Sending, IsIncluded, Unpublished, contract_vars
  <2>. QED
    BY <2>2, <2>3 DEF RefInv
<1>5. CASE ExecutionRevert
  BY <1>5, EndsWithoutEffect
     DEF ExecutionRevert, Forget, TookEffect, IsIncluded
<1>6. CASE NonceIsUsed
  <2>1. IsIncluded /\ pc = "send"
    BY <1>6 DEF NonceIsUsed, IsIncluded, Sending, Types
  <2>2. TookEffect /\ Sending
    BY <2>1 DEF RefInv, Receipts, TookEffect, Sending
  <2>. QED
    BY <1>6, <2>2, EndsIncluded DEF NonceIsUsed, network_vars
<1>7. CASE GetReceipt
  <2>1. pc = "receipt" /\ included.tx = tx /\ tx # NoTx /\ tx.nonce \in Nat /\ chain_nonce \in Nat
    BY <1>7, SentTxType DEF GetReceipt, HasReceipt, Types
  <2>2. IsIncluded /\ Sending
    BY <2>1 DEF RefInv, Receipts, IsIncluded, Sending
  <2>3. mempool = {}
    BY <2>2 DEF RefInv, Alone, IsIncluded
  <2>4. CASE included.ok
    BY <1>7, <2>2, <2>4, EndsIncluded DEF GetReceipt, TookEffect, network_vars
  <2>5. CASE ~included.ok
    BY <1>7, <2>1, <2>3, <2>5, EndsWithoutEffect DEF GetReceipt, TookEffect, network_vars
  <2>. QED
    BY <2>4, <2>5
<1>8. CASE ReceiptTimesOut
  <2>1. /\ UNCHANGED <<tx, rb_indices, has_address, mempool, chain_nonce, included, contract_vars>>
        /\ pc = "receipt" /\ pc' = "send"
        /\ tx.nonce # chain_nonce => retries' <= RetriesLimit
        /\ included.tx = tx => included.ok
    BY <1>8, Constants DEF ReceiptTimesOut, HasReceipt, FailedTry, Inc, provider_vars, network_vars,
                           Types, Assumption
  <2>2. Counts' /\ Rows'
    BY <2>1, SameCounts, SameRows DEF RefInv
  <2>3. Alone' /\ Receipts'
    BY <2>1 DEF RefInv, Alone, Receipts, Sending, IsIncluded, Unpublished, contract_vars
  <2>. QED
    BY <2>2, <2>3 DEF RefInv
<1>9. CASE GiveUp
  <2>1. ~IsIncluded
    BY <1>9, Constants DEF GiveUp, RefInv, Receipts, IsIncluded, Sending, Types, Assumption
  <2>. QED
    BY <1>9, <2>1, EndsWithoutEffect DEF GiveUp, Forget, TookEffect
<1>. QED
  BY <1>1, <1>2, <1>3, <1>4, <1>5, <1>6, <1>7, <1>8, <1>9 DEF Relayer

(* What an inclusion that does not revert does to the contract.            *)
LEMMA SetFeedsShows ==
  ASSUME Types, NEW t \in SentTx, SetFeeds(t), RowsAreRight(t), NEW f \in Feeds
  PROVE  IF f \in DOMAIN t.values
         THEN /\ latest_index'[f] = t.values[f]
              /\ data'[f][latest_index'[f]] = t.height
         ELSE /\ data'[f] = data[f]
              /\ Unpublished(f) \/ latest_index'[f] = latest_index[f]
<1>1. /\ DOMAIN t.values \subseteq DOMAIN t.rows
      /\ f \in DOMAIN t.values => t.values[f] \in Ordinals
  BY SentTxType DEF RowsAreRight
<1>2. /\ data' = [g \in Feeds |-> IF g \in DOMAIN t.values
                                  THEN [data[g] EXCEPT ![t.values[g]] = t.height] ELSE data[g]]
      /\ latest_index' = [g \in Feeds |-> IF g \in DOMAIN t.rows THEN t.rows[g] ELSE latest_index[g]]
  BY DEF SetFeeds
<1>3. data[f] \in [Ordinals -> 0..MaxHeight]
  BY DEF Types
<1>4. CASE f \in DOMAIN t.values
  <2>1. t.rows[f] = t.values[f]
    BY <1>1, <1>4 DEF RowsAreRight
  <2>2. latest_index'[f] = t.values[f]
    BY <1>1, <1>2, <1>4, <2>1
  <2>3. data'[f] = [data[f] EXCEPT ![t.values[f]] = t.height]
    BY <1>2, <1>4
  <2>. QED
    BY <1>1, <1>3, <1>4, <2>2, <2>3
<1>5. CASE f \notin DOMAIN t.values
  <2>1. data'[f] = data[f]
    BY <1>2, <1>5
  <2>2. f \in DOMAIN t.rows => Unpublished(f) \/ t.rows[f] = latest_index[f]
    BY <1>5 DEF RowsAreRight
  <2>. QED
    BY <1>2, <1>5, <2>1, <2>2
<1>. QED
  BY <1>4, <1>5

(* Without mishaps only the transaction in hand is included.               *)
LEMMA IncludesTheOneInHand ==
  ASSUME Types, RefInv, NEW t \in mempool, Include(t)
  PROVE  t = tx /\ t \in SentTx /\ Sending /\ tx.nonce = chain_nonce /\ RowsAreRight(t)
<1>1. t = tx /\ t \in SentTx /\ Sending /\ tx.nonce = chain_nonce
  BY DEF RefInv, Alone, Types
<1>2. RowsAreRight(t)
  BY <1>1 DEF RefInv, Rows, IsIncluded, Sending
<1>. QED
  BY <1>1, <1>2

LEMMA IncludeRefInv ==
  ASSUME Mishaps = {}, Types, RefInv, NEW t \in mempool, Include(t)
  PROVE  RefInv'
<1>1. t = tx /\ t \in SentTx /\ Sending /\ tx.nonce = chain_nonce /\ RowsAreRight(t)
  BY IncludesTheOneInHand
<1>2. /\ UNCHANGED <<pc, tx, retries, rb_indices, has_address>> /\ retries <= RetriesLimit
      /\ chain_nonce' = chain_nonce + 1 /\ chain_nonce \in Nat
      /\ mempool' = {m \in mempool : m.nonce # t.nonce}
  BY DEF Include, relayer_vars, provider_vars, Types
<1>3. PICK ok \in BOOLEAN : /\ ~ok => pc = "receipt"
                            /\ included' = [tx |-> t, ok |-> ok]
                            /\ IF ok THEN SetFeeds(t) ELSE UNCHANGED contract_vars
  BY DEF Include
<1>4. mempool' = {} /\ has_address /\ pc # "recv"
  BY <1>1, <1>2 DEF RefInv, Alone, Sending
<1>5. IsIncluded' /\ ~IsIncluded /\ (TookEffect' <=> ok) /\ ~TookEffect
  BY <1>1, <1>2, <1>3 DEF IsIncluded, TookEffect, Sending
<1>6. Alone' /\ Receipts' /\ Rows'
  BY <1>1, <1>2, <1>3, <1>4, <1>5 DEF Alone, Receipts, Rows, Sending, IsIncluded
<1>7. ASSUME NEW f \in Feeds
      PROVE  /\ InHand(f)' => rb_indices'[f] # 0 /\ tx'.values[f] = (rb_indices'[f] - 1) % Ring
             /\ CountedAs(f, IF InHand(f) /\ ~TookEffect THEN rb_indices[f] - 1 ELSE rb_indices[f])'
  <2>1. /\ InHand(f) => rb_indices[f] # 0 /\ tx.values[f] = (rb_indices[f] - 1) % Ring
        /\ CountedAs(f, IF InHand(f) THEN rb_indices[f] - 1 ELSE rb_indices[f])
    BY <1>5 DEF RefInv, Counts
  <2>2. (InHand(f)' <=> InHand(f)) /\ (InHand(f) <=> f \in DOMAIN t.values)
    BY <1>1, <1>2, <1>4 DEF InHand
  <2>3. CASE ~ok
    <3>1. CountedAs(f, IF InHand(f) /\ ~TookEffect THEN rb_indices[f] - 1 ELSE rb_indices[f])'
      BY <1>2, <1>3, <1>5, <2>1, <2>2, <2>3 DEF CountedAs, Unpublished, contract_vars
    <3>. QED
      BY <1>2, <2>1, <2>2, <3>1
  <2>4. CASE ok /\ InHand(f)
    <3>1. rb_indices[f] \in Nat
      BY DEF Types
    <3>2. latest_index'[f] = t.values[f]
      BY <1>1, <1>3, <2>2, <2>4, SetFeedsShows
    <3>3. rb_indices[f] % Ring = (((rb_indices[f] - 1) % Ring) + 1) % Ring
      BY <2>1, <2>4, <3>1, RingIndexIsNext
    <3>4. rb_indices[f] % Ring = (latest_index'[f] + 1) % Ring
      BY <1>1, <2>1, <2>4, <3>2, <3>3
    <3>5. CountedAs(f, IF InHand(f) /\ ~TookEffect THEN rb_indices[f] - 1 ELSE rb_indices[f])'
      BY <1>2, <1>5, <2>1, <2>4, <3>4 DEF CountedAs
    <3>. QED
      BY <1>2, <2>1, <2>2, <3>5
  <2>5. CASE ok /\ ~InHand(f)
    <3>1. /\ data'[f] = data[f]
          /\ Unpublished(f) \/ latest_index'[f] = latest_index[f]
      BY <1>1, <1>3, <2>2, <2>5, SetFeedsShows
    <3>2. CountedAs(f, IF InHand(f) /\ ~TookEffect THEN rb_indices[f] - 1 ELSE rb_indices[f])'
      BY <1>2, <1>5, <2>1, <2>2, <2>5, <3>1 DEF CountedAs, Unpublished
    <3>. QED
      BY <2>2, <2>5, <3>2
  <2>. QED
    BY <2>3, <2>4, <2>5
<1>8. Counts'
  BY <1>7 DEF Counts
<1>. QED
  BY <1>6, <1>8 DEF RefInv

LEMMA RestartRefInv ==
  ASSUME Mishaps = {}, Types, RefInv, Restart
  PROVE  RefInv'
<1>1. /\ UNCHANGED <<has_address, chain_nonce, included, contract_vars>>
      /\ pc' = "recv" /\ mempool' = {}
      /\ \A f \in Feeds : latest_index[f] # Ring - 1
      /\ rb_indices' = [f \in Feeds |-> NextIndex(f)]
  BY DEF Restart, Forget
<1>2. Alone' /\ Receipts' /\ Rows'
  BY <1>1 DEF RefInv, Alone, Receipts, Rows, Sending, IsIncluded, Unpublished, contract_vars
<1>3. ASSUME NEW f \in Feeds PROVE CountedAs(f, NextIndex(f))
  <2>1. latest_index[f] \in Nat /\ latest_index[f] + 1 < Ring /\ Ring \in Nat
    BY <1>1, Constants DEF Types, Ordinals, Assumption
  <2>2. CASE Loaded(f)
    <3>1. NextIndex(f) = latest_index[f] + 1
      BY <2>1, <2>2 DEF NextIndex
    <3>. QED
      BY <2>1, <3>1 DEF CountedAs
  <2>3. CASE ~Loaded(f)
    <3>1. NextIndex(f) = 0
      BY <2>3 DEF NextIndex
    <3>2. Unpublished(f) \/ latest_index[f] = 0
      BY <2>3 DEF Loaded, RefInv, Alone
    <3>. QED
      BY <3>1, <3>2 DEF CountedAs
  <2>. QED
    BY <2>2, <2>3
<1>4. Counts'
  <2>1. SUFFICES ASSUME NEW f \in Feeds PROVE CountedAs(f, rb_indices[f])'
    BY <1>1 DEF Counts, InHand
  <2>. QED
    BY <1>1, <1>3 DEF CountedAs, Unpublished, contract_vars
<1>. QED
  BY <1>2, <1>4 DEF RefInv

LEMMA NextRefInv == ASSUME Mishaps = {}, Types, RefInv, [Next]_vars PROVE RefInv'
<1>1. CASE /\ UNCHANGED <<pc, tx, retries, rb_indices>>
           /\ UNCHANGED <<mempool, chain_nonce, included, contract_vars>>
           /\ has_address' = has_address \/ has_address' = TRUE
  <2>1. Counts' /\ Rows'
    BY <1>1, SameCounts, SameRows DEF RefInv
  <2>2. Alone' /\ Receipts'
    BY <1>1 DEF RefInv, Alone, Receipts, Sending, IsIncluded, Unpublished, contract_vars
  <2>. QED
    BY <2>1, <2>2 DEF RefInv
<1>2. ASSUME NEW S \in SUBSET Feeds \ {{}}, SendToRelayer(S) PROVE RefInv'
  BY <1>1, <1>2 DEF SendToRelayer, provider_vars, network_vars
<1>3. CASE SetIsEnabled
  BY <1>1, <1>3 DEF SetIsEnabled, relayer_vars, provider_vars, network_vars
<1>4. CASE SetContractAddress
  BY <1>1, <1>4 DEF SetContractAddress, relayer_vars, network_vars
<1>5. CASE Relayer
  BY <1>5, RelayerRefInv
<1>6. ASSUME NEW t \in mempool, Include(t) PROVE RefInv'
  BY <1>6, IncludeRefInv
<1>7. CASE Restart
  BY <1>7, RestartRefInv
<1>8. CASE UNCHANGED vars
  BY <1>1, <1>8 DEF vars, relayer_vars, provider_vars, network_vars
<1>. QED
  BY <1>2, <1>3, <1>4, <1>5, <1>6, <1>7, <1>8 DEF Next

LEMMA RefInvHolds == ASSUME Mishaps = {} PROVE Spec => []RefInv
<1>1. Init => RefInv
  BY InitRefInv
<1>2. Types /\ RefInv /\ [Next]_vars => RefInv'
  BY NextRefInv
<1>. QED
  BY <1>1, <1>2, TypesHold, PTL DEF Spec

(* A relayer that waits for a batch would write every feed that has a      *)
(* value right after its latest one, after reverted and abandoned          *)
(* transactions, retries and restarts, where the ring buffers wrap too     *)
(* (CountsFollowChain).                                                    *)
THEOREM CountsFollowChainHolds ==
  ASSUME Mishaps = {}
  PROVE  Spec => []CountsFollowChain
<1>1. Types /\ RefInv => CountsFollowChain
  BY DEF Types, RefInv, Counts, CountedAs, InHand, Unpublished, CountsFollowChain, LatestData
<1>. QED
  BY <1>1, TypesHold, RefInvHolds, PTL

(* Every step is a step of FeedStore, or changes nothing for a reader.     *)
LEMMA NextIsStoreStep ==
  ASSUME Mishaps = {}, Types, RefInv, [Next]_vars
  PROVE  [Store!Next]_(Store!vars)
<1>1. CASE UNCHANGED contract_vars
  BY <1>1 DEF contract_vars, Store!vars, LatestData
<1>2. ASSUME NEW t \in mempool, Include(t), SetFeeds(t), Accepted(t) PROVE Store!Next
  <2>1. t \in SentTx /\ RowsAreRight(t)
    BY <1>2, IncludesTheOneInHand
  <2>2. block_number' = t.height /\ t.height \in Nat /\ t.height > block_number
    BY <1>2, <2>1, SentTxType DEF SetFeeds, Accepted
  <2>3. DOMAIN t.values \in SUBSET Feeds
    BY <2>1, SentTxType
  <2>4. DOMAIN t.values # {}
    <3>1. PICK S \in SUBSET Feeds : t.values \in [S -> Ordinals]
      BY <2>1 DEF SentTx, Tx, Calldata
    <3>2. t.values = [f \in S |-> t.values[f]] /\ DOMAIN t.values = S
      BY <3>1
    <3>3. CASE S = {}
      <4>1. t.values = [f \in {} |-> t.values[f]]
        BY <3>2, <3>3
      <4>2. [f \in {} |-> t.values[f]] = <<>>
        OBVIOUS
      <4>. QED
        BY <2>1, <4>1, <4>2 DEF SentTx
    <3>. QED
      BY <3>2, <3>3
  <2>5. ASSUME NEW f \in Feeds
        PROVE  LatestData(f)' = IF f \in DOMAIN t.values THEN block_number' ELSE LatestData(f)
    <3>1. CASE f \in DOMAIN t.values
      BY <1>2, <2>1, <2>2, <3>1, SetFeedsShows DEF LatestData
    <3>2. CASE f \notin DOMAIN t.values
      <4>1. /\ data'[f] = data[f]
            /\ Unpublished(f) \/ latest_index'[f] = latest_index[f]
        BY <1>2, <2>1, <3>2, SetFeedsShows
      <4>2. latest_index[f] \in Ordinals /\ latest_index'[f] \in Ordinals
        BY <1>2, <2>1, SetFeedsType DEF Types
      <4>. QED
        BY <3>2, <4>1, <4>2 DEF LatestData, Unpublished
    <3>. QED
      BY <3>1, <3>2
  <2>6. Store!Publish(DOMAIN t.values)
    BY <2>2, <2>4, <2>5 DEF Store!Publish
  <2>. QED
    BY <2>3, <2>6 DEF Store!Next
<1>3. ASSUME NEW S \in SUBSET Feeds \ {{}}, SendToRelayer(S) PROVE UNCHANGED contract_vars
  BY <1>3 DEF SendToRelayer
<1>4. CASE SetIsEnabled \/ SetContractAddress \/ Restart
  BY <1>1, <1>4 DEF SetIsEnabled, SetContractAddress, Restart
<1>5. CASE Relayer
  BY <1>1, <1>5 DEF Relayer, TakeBatch, GetNonce, Send, SendFails, ExecutionRevert, NonceIsUsed,
                    GetReceipt, ReceiptTimesOut, GiveUp
<1>6. ASSUME NEW t \in mempool, Include(t) PROVE Store!Next \/ UNCHANGED contract_vars
  BY <1>2, <1>6 DEF Include
<1>7. CASE UNCHANGED vars
  BY <1>1, <1>7 DEF vars
<1>. QED
  BY <1>1, <1>3, <1>4, <1>5, <1>6, <1>7 DEF Next

(* Every step is a step of FeedStore, or changes nothing for a reader of   *)
(* the contract: an inclusion shows the values of its batch, and of the    *)
(* other feeds of its rows what was shown before (ImplementsFeedStore).    *)
THEOREM ImplementsFeedStoreHolds ==
  ASSUME Mishaps = {}
  PROVE  Spec => ImplementsFeedStore
<1>1. Init => Store!Init
  <2>1. 0 \in Ordinals
    BY Constants DEF Assumption, Ordinals
  <2>. QED
    BY <2>1 DEF Init, Store!Init, LatestData, Ordinals
<1>2. Types /\ RefInv /\ [Next]_vars => [Store!Next]_(Store!vars)
  BY NextIsStoreStep
<1>. QED
  BY <1>1, <1>2, TypesHold, RefInvHolds, PTL DEF Spec, ImplementsFeedStore, Store!Spec

-----------------------------------------------------------------------------
(* The order of the ring, and what it means for readers.                   *)

(* No value is later than the last batch that took effect.                 *)
UpToBlock == \A f \in Feeds : \A i \in Ordinals : data[f][i] <= block_number

RingInv == UpToBlock /\ RingInOrder

(* The place i steps back from place l.                                    *)
LEMMA PlaceBack ==
  ASSUME NEW l \in Ordinals, NEW i \in Ordinals
  PROVE  (l - i) % Ring = IF i <= l THEN l - i ELSE l - i + Ring
<1>1. Ring \in Nat \ {0}
  BY Constants DEF Assumption
<1>2. CASE i <= l
  <2>1. l - i = Ring * 0 + (l - i) /\ l - i \in 0..(Ring - 1)
    BY <1>1, <1>2 DEF Ordinals
  <2>. QED
    BY <1>1, <1>2, <2>1, Remainder
<1>3. CASE ~(i <= l)
  <2>. DEFINE q == (l - i) \div Ring
              r == (l - i) % Ring
  <2>1. q \in Int /\ r \in 0..(Ring - 1) /\ l - i = Ring * q + r
    BY <1>1 DEF Ordinals
  <2>2. l - i < 0 /\ l - i > 0 - Ring /\ l \in Int /\ i \in Int
    BY <1>1, <1>3 DEF Ordinals
  <2>. HIDE DEF q, r
  <2>3. ~(q >= 0)
    <3>. SUFFICES ASSUME q >= 0 PROVE FALSE
      OBVIOUS
    <3>1. Ring * q >= 0 /\ Ring * q \in Int
      BY <1>1, <2>1
    <3>. QED
      BY <1>1, <2>1, <2>2, <3>1
  <2>4. ~(q <= -2)
    <3>. SUFFICES ASSUME q <= -2 PROVE FALSE
      OBVIOUS
    <3>1. Ring * q <= Ring * (-2)
      BY <1>1, <2>1
    <3>2. Ring * (-2) = 0 - Ring - Ring /\ Ring * q \in Int
      BY <1>1, <2>1
    <3>. QED
      BY <1>1, <2>1, <2>2, <3>1, <3>2
  <2>5. q = -1
    BY <2>1, <2>3, <2>4
  <2>6. Ring * (-1) = 0 - Ring
    BY <1>1
  <2>7. r = l - i + Ring
    BY <1>1, <2>1, <2>2, <2>5, <2>6
  <2>. QED
    BY <1>3, <2>7 DEF r
<1>. QED
  BY <1>2, <1>3

(* Steps back from a place lead to all the places, each of them once; from *)
(* the place after l they lead to l and then as from l.                    *)
LEMMA PlacesBack ==
  ASSUME NEW l \in Ordinals, NEW i \in Ordinals
  PROVE  /\ (l - i) % Ring \in Ordinals
         /\ (l - i) % Ring = l <=> i = 0
         /\ i # 0 => /\ i - 1 \in Ordinals /\ (l + 1) % Ring \in Ordinals
                     /\ (((l + 1) % Ring) - i) % Ring = (l - (i - 1)) % Ring
<1>1. Ring \in Nat \ {0, 1} /\ l \in 0..(Ring - 1) /\ i \in 0..(Ring - 1)
  BY Constants DEF Assumption, Ordinals
<1>2. (l - i) % Ring = IF i <= l THEN l - i ELSE l - i + Ring
  BY PlaceBack
<1>3. ASSUME i # 0
      PROVE  /\ i - 1 \in Ordinals /\ (l + 1) % Ring \in Ordinals
             /\ (((l + 1) % Ring) - i) % Ring = (l - (i - 1)) % Ring
  <2>. DEFINE m == IF l + 1 = Ring THEN 0 ELSE l + 1
  <2>1. (l + 1) % Ring = m
    <3>1. CASE l + 1 = Ring
      <4>1. l + 1 = Ring * 1
        BY <1>1, <3>1
      <4>2. Ring \in Nat \ {0}
        BY <1>1
      <4>. QED
        BY <3>1, <4>1, <4>2, Multiple
    <3>2. CASE l + 1 # Ring
      <4>1. l + 1 = Ring * 0 + (l + 1) /\ l + 1 \in 0..(Ring - 1) /\ Ring \in Nat \ {0}
        BY <1>1, <3>2
      <4>. QED
        BY <3>2, <4>1, Remainder
    <3>. QED
      BY <3>1, <3>2
  <2>2. m \in Ordinals /\ i - 1 \in Ordinals
    BY <1>1, <1>3 DEF Ordinals
  <2>3. (m - i) % Ring = IF i <= m THEN m - i ELSE m - i + Ring
    BY <2>2, PlaceBack
  <2>4. (l - (i - 1)) % Ring = IF i - 1 <= l THEN l - (i - 1) ELSE l - (i - 1) + Ring
    BY <2>2, PlaceBack
  <2>5. (m - i) % Ring = (l - (i - 1)) % Ring
    BY <1>1, <1>3, <2>3, <2>4
  <2>. QED
    BY <2>1, <2>2, <2>5
<1>. QED
  BY <1>1, <1>2, <1>3 DEF Ordinals

(* Where a batch writes the value of a feed: to the first place of a new   *)
(* feed, to the place after the latest value, or over the only place that  *)
(* a restart takes for none.                                               *)
LEMMA WritesNext ==
  ASSUME Types, RefInv, Sending, ~IsIncluded, NEW f \in Feeds, f \in DOMAIN tx.values
  PROVE  \/ Unpublished(f)
         \/ tx.values[f] = (latest_index[f] + 1) % Ring
         \/ tx.values[f] = latest_index[f]
<1>1. InHand(f) /\ ~TookEffect
  BY DEF InHand, Sending, TookEffect
<1>2. rb_indices[f] # 0 /\ tx.values[f] = (rb_indices[f] - 1) % Ring
  BY <1>1 DEF RefInv, Counts
<1>3. CountedAs(f, rb_indices[f] - 1)
  BY <1>1 DEF RefInv, Counts
<1>4. CASE rb_indices[f] - 1 = 0 /\ latest_index[f] = 0
  <2>1. Ring \in Nat \ {0} /\ 0 = Ring * 0 + 0 /\ 0 \in 0..(Ring - 1)
    BY Constants DEF Assumption
  <2>2. 0 % Ring = 0
    BY <2>1, Remainder
  <2>. QED
    BY <1>2, <1>4, <2>2
<1>. QED
  BY <1>2, <1>3, <1>4 DEF CountedAs

(* A new value keeps a ring in order.                                      *)
LEMMA WriteKeepsOrder ==
  ASSUME NEW d \in [Ordinals -> Nat], NEW l \in Ordinals, NEW m \in Ordinals, NEW h \in Nat,
         \A i \in Ordinals : d[i] < h,
         \/ \A i \in Ordinals : d[i] = 0
         \/ m = (l + 1) % Ring
         \/ m = l,
         \A i, j \in Ordinals :
           i < j /\ d[(l - i) % Ring] # 0 /\ d[(l - j) % Ring] # 0
             => d[(l - j) % Ring] < d[(l - i) % Ring],
         NEW i \in Ordinals, NEW j \in Ordinals, i < j,
         [d EXCEPT ![m] = h][(m - i) % Ring] # 0,
         [d EXCEPT ![m] = h][(m - j) % Ring] # 0
  PROVE  [d EXCEPT ![m] = h][(m - j) % Ring] < [d EXCEPT ![m] = h][(m - i) % Ring]
<1>. DEFINE e == [d EXCEPT ![m] = h]
            p == (m - i) % Ring
            r == (m - j) % Ring
<1>1. p \in Ordinals /\ r \in Ordinals /\ (p = m <=> i = 0) /\ r # m
  <2>1. i \in Nat /\ j \in Nat
    BY DEF Ordinals
  <2>. QED
    BY <2>1, PlacesBack
<1>2. e[r] = d[r] /\ e[p] = IF i = 0 THEN h ELSE d[p]
  BY <1>1
<1>3. CASE i = 0
  BY <1>1, <1>2, <1>3
<1>4. CASE i # 0 /\ m = l
  BY <1>2, <1>4
<1>5. CASE i # 0 /\ m = (l + 1) % Ring
  <2>1. /\ i - 1 \in Ordinals /\ p = (l - (i - 1)) % Ring
        /\ j - 1 \in Ordinals /\ r = (l - (j - 1)) % Ring
        /\ i - 1 < j - 1
    <3>1. i \in Nat /\ j \in Nat /\ j # 0
      BY DEF Ordinals
    <3>. QED
      BY <1>5, <3>1, PlacesBack
  <2>2. d[p] # 0 /\ d[r] # 0
    BY <1>2, <1>5
  <2>. HIDE DEF e, p, r
  <2>3. d[r] < d[p]
    BY <2>1, <2>2
  <2>. QED
    BY <1>2, <1>5, <2>3 DEF e, p, r
<1>6. CASE \A k \in Ordinals : d[k] = 0
  BY <1>1, <1>2, <1>6
<1>. QED
  BY <1>3, <1>4, <1>5, <1>6

LEMMA IncludeRingInv ==
  ASSUME Mishaps = {}, Types, RefInv, RingInv, NEW t \in mempool, Include(t)
  PROVE  RingInv'
<1>1. t = tx /\ t \in SentTx /\ Sending /\ tx.nonce = chain_nonce /\ RowsAreRight(t)
  BY IncludesTheOneInHand
<1>2. CASE UNCHANGED contract_vars
  BY <1>2 DEF RingInv, UpToBlock, RingInOrder, contract_vars
<1>3. CASE SetFeeds(t) /\ Accepted(t)
  <2>1. block_number' = t.height /\ t.height \in Nat /\ block_number \in Nat
        /\ t.height > block_number
    BY <1>1, <1>3, SentTxType DEF SetFeeds, Accepted, Types
  <2>2. ASSUME NEW f \in Feeds
        PROVE  /\ data[f] \in [Ordinals -> Nat] /\ latest_index[f] \in Ordinals
               /\ \A i \in Ordinals : data[f][i] <= block_number /\ data[f][i] < t.height
    <3>1. data[f] \in [Ordinals -> 0..MaxHeight] /\ latest_index[f] \in Ordinals
      BY DEF Types
    <3>2. data[f] \in [Ordinals -> Nat]
      BY <3>1, Constants DEF Assumption
    <3>3. \A i \in Ordinals : data[f][i] <= block_number
      BY DEF RingInv, UpToBlock
    <3>. QED
      BY <2>1, <3>1, <3>2, <3>3
  <2>3. ASSUME NEW f \in Feeds, f \in DOMAIN t.values
        PROVE  /\ data'[f] = [data[f] EXCEPT ![t.values[f]] = t.height]
               /\ latest_index'[f] = t.values[f] /\ t.values[f] \in Ordinals
               /\ \/ \A i \in Ordinals : data[f][i] = 0
                  \/ t.values[f] = (latest_index[f] + 1) % Ring
                  \/ t.values[f] = latest_index[f]
    <3>1. data'[f] = [data[f] EXCEPT ![t.values[f]] = t.height]
      BY <1>3, <2>3 DEF SetFeeds
    <3>2. latest_index'[f] = t.values[f] /\ t.values[f] \in Ordinals
      BY <1>1, <1>3, <2>3, SetFeedsShows, SentTxType
    <3>3. ~IsIncluded
      BY <1>1 DEF IsIncluded
    <3>. QED
      BY <1>1, <2>3, <3>1, <3>2, <3>3, WritesNext DEF Unpublished
  <2>4. ASSUME NEW f \in Feeds, f \notin DOMAIN t.values
        PROVE  data'[f] = data[f] /\ (Unpublished(f) \/ latest_index'[f] = latest_index[f])
    BY <1>1, <1>3, <2>4, SetFeedsShows
  <2>5. ASSUME NEW f \in Feeds, NEW i \in Ordinals PROVE data'[f][i] <= block_number'
    <3>1. data[f] \in [Ordinals -> Nat] /\ data[f][i] \in Nat /\ data[f][i] <= block_number
      BY <2>2
    <3>2. data'[f][i] = t.height \/ data'[f][i] = data[f][i]
      BY <2>3, <2>4, <3>1
    <3>. QED
      BY <2>1, <3>1, <3>2
  <2>6. ASSUME NEW f \in Feeds, NEW i \in Ordinals, NEW j \in Ordinals, i < j,
               data'[f][(latest_index'[f] - i) % Ring] # 0,
               data'[f][(latest_index'[f] - j) % Ring] # 0
        PROVE  data'[f][(latest_index'[f] - j) % Ring] < data'[f][(latest_index'[f] - i) % Ring]
    <3>. DEFINE d == data[f]
                l == latest_index[f]
    <3>1. /\ d \in [Ordinals -> Nat] /\ l \in Ordinals
          /\ \A k \in Ordinals : d[k] < t.height
      BY <2>2
    <3>2. \A a, b \in Ordinals :
            a < b /\ d[(l - a) % Ring] # 0 /\ d[(l - b) % Ring] # 0
              => d[(l - b) % Ring] < d[(l - a) % Ring]
      BY DEF RingInv, RingInOrder
    <3>3. CASE f \in DOMAIN t.values
      <4>. DEFINE m == t.values[f]
                  h == t.height
      <4>1. /\ data'[f] = [d EXCEPT ![m] = h] /\ latest_index'[f] = m /\ m \in Ordinals
            /\ h \in Nat
            /\ \/ \A k \in Ordinals : d[k] = 0
               \/ m = (l + 1) % Ring
               \/ m = l
        BY <2>1, <2>3, <3>3
      <4>2. /\ [d EXCEPT ![m] = h][(m - i) % Ring] # 0
            /\ [d EXCEPT ![m] = h][(m - j) % Ring] # 0
        BY <2>6, <4>1
      <4>3. \A k \in Ordinals : d[k] < h
        BY <3>1
      <4>. HIDE DEF d, l, m, h
      <4>4. [d EXCEPT ![m] = h][(m - j) % Ring] < [d EXCEPT ![m] = h][(m - i) % Ring]
        BY <2>6, <3>1, <3>2, <4>1, <4>2, <4>3, WriteKeepsOrder
      <4>. QED
        BY <4>1, <4>4
    <3>4. CASE f \notin DOMAIN t.values
      <4>1. data'[f] = d /\ (Unpublished(f) \/ latest_index'[f] = l)
        BY <2>4, <3>4
      <4>2. CASE latest_index'[f] = l
        BY <2>6, <3>2, <4>1, <4>2
      <4>3. CASE Unpublished(f)
        <5>1. latest_index'[f] \in Ordinals
          BY <1>1, <1>3, SetFeedsType
        <5>2. (latest_index'[f] - i) % Ring \in Ordinals
          BY <5>1, PlacesBack
        <5>. QED
          BY <2>6, <4>1, <4>3, <5>2 DEF Unpublished
      <4>. QED
        BY <4>1, <4>2, <4>3
    <3>. QED
      BY <3>3, <3>4
  <2>. QED
    BY <2>5, <2>6 DEF RingInv, UpToBlock, RingInOrder
<1>. QED
  BY <1>2, <1>3 DEF Include

LEMMA NextRingInv ==
  ASSUME Mishaps = {}, Types, RefInv, RingInv, [Next]_vars
  PROVE  RingInv'
<1>1. CASE UNCHANGED contract_vars
  BY <1>1 DEF RingInv, UpToBlock, RingInOrder, contract_vars
<1>2. ASSUME NEW S \in SUBSET Feeds \ {{}}, SendToRelayer(S) PROVE UNCHANGED contract_vars
  BY <1>2 DEF SendToRelayer
<1>3. CASE SetIsEnabled \/ SetContractAddress \/ Restart
  BY <1>1, <1>3 DEF SetIsEnabled, SetContractAddress, Restart
<1>4. CASE Relayer
  BY <1>1, <1>4 DEF Relayer, TakeBatch, GetNonce, Send, SendFails, ExecutionRevert, NonceIsUsed,
                    GetReceipt, ReceiptTimesOut, GiveUp
<1>5. ASSUME NEW t \in mempool, Include(t) PROVE RingInv'
  BY <1>5, IncludeRingInv
<1>6. CASE UNCHANGED vars
  BY <1>1, <1>6 DEF vars
<1>. QED
  BY <1>1, <1>2, <1>3, <1>4, <1>5, <1>6 DEF Next

LEMMA RingInvHolds == ASSUME Mishaps = {} PROVE Spec => []RingInv
<1>1. Init => RingInv
  <2>1. ASSUME Init, NEW f \in Feeds, NEW i \in Ordinals
        PROVE  data[f][i] = 0 /\ data[f][(latest_index[f] - i) % Ring] = 0 /\ block_number = 0
    <3>1. 0 \in Ordinals
      BY Constants DEF Assumption, Ordinals
    <3>2. latest_index[f] \in Ordinals
      BY <2>1, <3>1 DEF Init
    <3>3. (latest_index[f] - i) % Ring \in Ordinals
      BY <3>2, PlacesBack
    <3>. QED
      BY <2>1, <3>3 DEF Init, Ordinals
  <2>. QED
    BY <2>1 DEF RingInv, UpToBlock, RingInOrder
<1>2. Types /\ RefInv /\ RingInv /\ [Next]_vars => RingInv'
  BY NextRingInv
<1>. QED
  BY <1>1, <1>2, TypesHold, RefInvHolds, PTL DEF Spec

(* Whoever goes back through a feed's ring from its latest value finds its *)
(* values in the order of their blocks, after wraps, retries and restarts  *)
(* too (RingInOrder).                                                      *)
THEOREM RingInOrderHolds ==
  ASSUME Mishaps = {}
  PROVE  Spec => []RingInOrder
<1>1. RingInv => RingInOrder
  BY DEF RingInv
<1>. QED
  BY <1>1, RingInvHolds, PTL

(* What a reader gets for a feed is never replaced by an older value, also *)
(* when another feed of its row is published (ReadersNeverGoBack); a       *)
(* restart at the end of the ring breaks this.                             *)
THEOREM ReadersNeverGoBackHolds ==
  ASSUME Mishaps = {}
  PROVE  Spec => ReadersNeverGoBack
<1>1. ASSUME Types, RefInv, RingInv, [Next]_vars, NEW f \in Feeds
      PROVE  LatestData(f)' >= LatestData(f)
  <2>1. LatestData(f) \in Nat /\ LatestData(f) <= block_number /\ block_number \in Nat
    <3>1. latest_index[f] \in Ordinals /\ data[f] \in [Ordinals -> 0..MaxHeight]
      BY <1>1 DEF Types
    <3>. QED
      BY <1>1, <3>1, Constants DEF LatestData, RingInv, UpToBlock, Types, Assumption
  <2>2. [Store!Next]_(Store!vars)
    BY <1>1, NextIsStoreStep
  <2>3. ASSUME NEW S \in SUBSET Feeds, Store!Publish(S) PROVE LatestData(f)' >= LatestData(f)
    <3>1. /\ LatestData(f)' = IF f \in S THEN block_number' ELSE LatestData(f)
          /\ block_number' \in Nat /\ block_number' > block_number
      BY <2>3 DEF Store!Publish
    <3>. QED
      BY <2>1, <3>1
  <2>4. CASE UNCHANGED Store!vars
    <3>1. LatestData(f)' = LatestData(f)
      BY <2>4 DEF Store!vars
    <3>. QED
      BY <2>1, <3>1
  <2>. QED
    BY <2>2, <2>3, <2>4 DEF Store!Next
<1>2. Types /\ RefInv /\ RingInv /\ [Next]_vars
        => [\A f \in Feeds : LatestData(f)' >= LatestData(f)]_vars
  BY <1>1
<1>. QED
  BY <1>2, TypesHold, RefInvHolds, RingInvHolds, PTL DEF Spec, ReadersNeverGoBack
=============================================================================
