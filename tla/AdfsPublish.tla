---------------------------- MODULE AdfsPublish ----------------------------
(***************************************************************************)
(* The direct publishing path to one network: eth_batch_send_to_all_-      *)
(* contracts queues the batch of a block for the network's relayer, the    *)
(* relayer turns it into calldata and sends it with retries under one      *)
(* nonce, and the contract AggregatedDataFeedStore applies it.             *)
(*                                                                         *)
(* Each feed has a ring of values in the contract and a latest index; the  *)
(* latest indices of neighbouring feeds share one storage row, which a     *)
(* transaction overwrites as a whole.  The relayer therefore writes the    *)
(* index of feeds that its batch does not update from its own count of     *)
(* their updates, rb_indices, which it adjusts for every transaction       *)
(* before it knows what becomes of it and reads back from the chain after  *)
(* a restart.                                                              *)
(***************************************************************************)
EXTENDS Integers, Sequences, FiniteSets

CONSTANTS
  Feeds,         \* the encoded feed ids
  Row,           \* feed -> the row of its latest index (calc_row_index)
  Configured,    \* the feeds of the configuration file; the others were registered later
  Criteria,      \* the feeds with publishing criteria on this network
  RetriesLimit,  \* transaction_retries_count_limit
  Ring,          \* MAX_HISTORY_ELEMENTS_PER_FEED
  Mishaps,       \* what may go wrong beyond failures, timeouts and restarts
  MaxHeight,     \* bound: how many blocks with updates there are
  MaxRestarts    \* bound: how often the sequencer is restarted

(* "late": a transaction may be included although the relayer has given it *)
(* up or was restarted.  "unread_revert": a transaction may revert without *)
(* its receipt being seen.  "ring_end": a restart may find a latest index  *)
(* at the end of the ring.  "load_failed": a restart may fail to read the  *)
(* latest indices, or be configured not to.                                *)
AllMishaps == {"late", "unread_revert", "ring_end", "load_failed"}

ASSUME AdfsPublishAssumption ==
  /\ IsFiniteSet(Feeds) /\ Configured \subseteq Feeds /\ Criteria \subseteq Feeds
  /\ DOMAIN Row = Feeds
  /\ \A f \in Feeds : \E g \in Configured : Row[f] = Row[g]
  /\ RetriesLimit \in Nat /\ Ring \in Nat \ {0, 1}
  /\ Mishaps \subseteq AllMishaps
  /\ MaxHeight \in Nat /\ MaxRestarts \in Nat

VARIABLES
  height,        \* the height of the last block with updates
  is_enabled,    \* is_enabled of the network's settings
  queue,         \* the network's entry of relayers_send_channels
  pc,            \* where the relayer is: "recv", "nonce", "send", "receipt"
  tx,            \* the transaction in hand, NoTx if none
  retries,       \* transaction_retries_count, or nonce_get_retries_count before it
  rb_indices,    \* RpcProvider.rb_indices: how many updates were sent, per feed
  history,       \* RpcProvider.history: feed -> its last entry, 0 if none
  has_address,   \* whether the contract's address is known
  n_restarts,
  mempool,       \* external: transactions that may still be included
  chain_nonce,   \* external: the account's latest nonce
  included,      \* external: the transaction included last, and its status
  block_number,  \* contract: storage slot 0
  latest_index,  \* contract: the ring buffer index table
  data           \* contract: feed -> ring index -> value, 0 if never written

source_vars == <<height, is_enabled>>
relayer_vars == <<queue, pc, tx, retries>>
provider_vars == <<rb_indices, history, has_address>>
network_vars == <<mempool, chain_nonce, included>>
contract_vars == <<block_number, latest_index, data>>
vars == <<source_vars, relayer_vars, provider_vars, n_restarts, network_vars, contract_vars>>

(* A transaction: the calldata of setFeeds is the block number, the ring   *)
(* index of every value in it and the indices of the rows it overwrites.   *)
NoTx == [nonce |-> 0, height |-> 0, values |-> <<>>, rows |-> <<>>]

Init ==
  /\ height = 0 /\ is_enabled = TRUE
  /\ queue = <<>> /\ pc = "recv" /\ tx = NoTx /\ retries = 0
  /\ rb_indices = [f \in Feeds |-> 0]
  /\ history = [f \in Feeds |-> 0]
  /\ has_address \in BOOLEAN
  /\ n_restarts = 0
  /\ mempool = {} /\ chain_nonce = 0 /\ included = [tx |-> NoTx, ok |-> TRUE]
  /\ block_number = 0
  /\ latest_index = [f \in Feeds |-> 0]
  /\ data = [f \in Feeds |-> [i \in 0..(Ring - 1) |-> 0]]

-----------------------------------------------------------------------------
(* The batches.  (A Mut... operator is a defect of the operator after it   *)
(* that one of the properties below catches.)                              *)

(* eth_batch_send_to_all_contracts: the batch of the next block goes into  *)
(* the queue of a network that is enabled.                                 *)
SendToRelayer(S) ==
  /\ height < MaxHeight
  /\ height' = height + 1
  /\ queue' = IF is_enabled THEN Append(queue, [height |-> height + 1, feeds |-> S]) ELSE queue
  /\ UNCHANGED <<is_enabled, pc, tx, retries, provider_vars, n_restarts, network_vars, contract_vars>>

(* set_provider_is_enabled: batches in the queue are sent all the same.    *)
SetIsEnabled ==
  /\ is_enabled' = ~is_enabled
  /\ UNCHANGED <<height, relayer_vars, provider_vars, n_restarts, network_vars, contract_vars>>

(* deploy_contract sets the address in the provider.                       *)
SetContractAddress ==
  /\ ~has_address /\ pc = "recv"
  /\ has_address' = TRUE
  /\ UNCHANGED <<source_vars, relayer_vars, rb_indices, history, n_restarts,
                 network_vars, contract_vars>>

-----------------------------------------------------------------------------
(* The calldata.                                                           *)

Neighbours(S) == {f \in Feeds : \E g \in S : Row[f] = Row[g]}

MutRingIndex(n) == n
RingIndex(n) == n % Ring

(* adfs_serialize_updates: the row of a feed that is not updated gets the  *)
(* index of its last value.                                                *)
MutRowIndex(f, S) == RingIndex(rb_indices[f])
RowIndex(f, S) ==
  RingIndex(IF f \in S \/ rb_indices[f] = 0 THEN rb_indices[f] ELSE rb_indices[f] - 1)

Serialize(b, S) ==
  [nonce |-> 0, height |-> b.height,
   values |-> [f \in S |-> RingIndex(rb_indices[f])],
   rows |-> [f \in Neighbours(S) |-> RowIndex(f, S)]]

IncrementFeedsRbIndices(S) ==
  rb_indices' = [f \in Feeds |-> IF f \in S THEN rb_indices[f] + 1 ELSE rb_indices[f]]

MutDecrementFeedRbIndices(S) == rb_indices' = rb_indices
DecrementFeedRbIndices(S) ==
  rb_indices' = [f \in Feeds |-> IF f \in S /\ rb_indices[f] > 0 THEN rb_indices[f] - 1
                                 ELSE rb_indices[f]]

-----------------------------------------------------------------------------
(* The relayer: loop_processing_batch_of_updates.                          *)

(* The next batch, without the feeds whose publishing criteria say that    *)
(* the value changed too little since the last one in the history.         *)
TakeBatch ==
  /\ pc = "recv" /\ queue # <<>>
  /\ queue' = Tail(queue)
  /\ \E skipped \in SUBSET {f \in Head(queue).feeds \intersect Criteria : history[f] # 0} :
       LET S == Head(queue).feeds \ skipped
       IN  IF S = {}
           THEN UNCHANGED <<pc, tx, retries, rb_indices>>
           ELSE /\ IncrementFeedsRbIndices(S)
                /\ IF has_address
                   THEN pc' = "nonce" /\ tx' = Serialize(Head(queue), S) /\ retries' = 0
                   ELSE UNCHANGED <<pc, tx, retries>>
  /\ UNCHANGED <<source_vars, history, has_address, n_restarts, network_vars, contract_vars>>

(* The end of eth_batch_send_to_contract and what the loop makes of its    *)
(* status.                                                                 *)
EndBatch(status) ==
  /\ pc' = "recv" /\ tx' = NoTx /\ retries' = 0
  /\ IF status = "true" THEN UNCHANGED rb_indices ELSE DecrementFeedRbIndices(DOMAIN tx.values)

MutInc == retries' = retries
Inc == retries' = retries + 1

GetNonce ==
  /\ pc = "nonce" /\ retries <= RetriesLimit
  /\ \/ pc' = "send" /\ retries' = 0 /\ tx' = [tx EXCEPT !.nonce = chain_nonce]
     \/ Inc /\ UNCHANGED <<pc, tx>>
  /\ UNCHANGED <<queue, source_vars, provider_vars, n_restarts, network_vars, contract_vars>>

(* The top of the retry loop and send_transaction.  The transaction may    *)
(* reach the network and the answer be lost, and the other way round.      *)
Send ==
  /\ pc = "send" /\ retries <= RetriesLimit /\ chain_nonce = tx.nonce
  /\ \E reached \in BOOLEAN :
       mempool' = IF reached THEN mempool \union {tx} ELSE mempool
  /\ \/ pc' = "receipt" /\ UNCHANGED retries
     \/ Inc /\ UNCHANGED pc
  /\ UNCHANGED <<queue, tx, source_vars, provider_vars, n_restarts, chain_nonce, included,
                 contract_vars>>

(* A failed try.  That the last one fails when the transaction is already  *)
(* included counts as "late".                                              *)
FailedTry ==
  /\ Inc
  /\ "late" \in Mishaps \/ retries < RetriesLimit \/ chain_nonce = tx.nonce

(* A step before send_transaction fails or times out.                      *)
SendFails ==
  /\ pc = "send" /\ retries <= RetriesLimit
  /\ FailedTry
  /\ UNCHANGED <<pc, queue, tx, source_vars, provider_vars, n_restarts, network_vars, contract_vars>>

(* What becomes of transactions that nobody waits for any more.            *)
Forget == mempool' = IF "late" \in Mishaps THEN mempool ELSE {}

(* The node refuses a transaction that would revert.                       *)
ExecutionRevert ==
  /\ pc = "send" /\ retries <= RetriesLimit /\ chain_nonce = tx.nonce
  /\ EndBatch("false")
  /\ Forget
  /\ UNCHANGED <<queue, source_vars, history, has_address, n_restarts, chain_nonce, included,
                 contract_vars>>

(* The nonce was used meanwhile.  The code does not look at what by.       *)
NonceIsUsed ==
  /\ pc = "send" /\ retries <= RetriesLimit /\ chain_nonce > tx.nonce
  /\ EndBatch("true")
  /\ UNCHANGED <<queue, source_vars, history, has_address, n_restarts, network_vars, contract_vars>>

(* A receipt is the one of the transaction's own hash.                     *)
HasReceipt == included.tx = tx

GetReceipt ==
  /\ pc = "receipt" /\ HasReceipt
  /\ history' = [f \in Feeds |-> IF f \in DOMAIN tx.values THEN tx.height ELSE history[f]]
  /\ EndBatch(IF included.ok THEN "true" ELSE "false")
  /\ UNCHANGED <<queue, source_vars, has_address, n_restarts, network_vars, contract_vars>>

ReceiptTimesOut ==
  /\ pc = "receipt"
  /\ HasReceipt => included.ok \/ "unread_revert" \in Mishaps
  /\ pc' = "send" /\ FailedTry
  /\ UNCHANGED <<queue, tx, source_vars, provider_vars, n_restarts, network_vars, contract_vars>>

(* No try is left: the code does not look at the nonce again.              *)
GiveUp ==
  /\ pc \in {"nonce", "send"} /\ retries > RetriesLimit
  /\ EndBatch("timeout")
  /\ Forget
  /\ UNCHANGED <<queue, source_vars, history, has_address, n_restarts, chain_nonce, included,
                 contract_vars>>

-----------------------------------------------------------------------------
(* The chain and the contract.                                             *)

(* setFeeds: the values, and the rows with all their indices.              *)
SetFeeds(t) ==
  /\ block_number' = t.height
  /\ data' = [f \in Feeds |-> IF f \in DOMAIN t.values
                              THEN [data[f] EXCEPT ![t.values[f]] = t.height] ELSE data[f]]
  /\ latest_index' = [f \in Feeds |-> IF f \in DOMAIN t.rows THEN t.rows[f] ELSE latest_index[f]]

(* Whether setFeeds takes the transaction: the block number must increase. *)
Accepted(t) == t.height > block_number

(* A transaction is included; it may revert for other reasons too.  The    *)
(* others with its nonce never are.                                        *)
Include(t) ==
  /\ t \in mempool /\ t.nonce = chain_nonce
  /\ "late" \in Mishaps \/ retries <= RetriesLimit
  /\ chain_nonce' = chain_nonce + 1
  /\ mempool' = {m \in mempool : m.nonce # t.nonce}
  /\ \E ok \in BOOLEAN :
       /\ ok => Accepted(t)
       /\ ~ok => pc = "receipt" \/ "unread_revert" \in Mishaps
       /\ included' = [tx |-> t, ok |-> ok]
       /\ IF ok THEN SetFeeds(t) ELSE UNCHANGED contract_vars
  /\ UNCHANGED <<source_vars, relayer_vars, provider_vars, n_restarts>>

-----------------------------------------------------------------------------
(* Restarts.                                                               *)

(* load_rb_indices_from_chain: an index 0 is taken only from the row read  *)
(* for the feed itself.                                                    *)
Loaded(f) == has_address /\ (f \in Configured \/ latest_index[f] # 0)

(* load_data_from_chain: the next index after the latest one.              *)
MutNextIndex(f) == IF Loaded(f) THEN latest_index[f] ELSE 0
NextIndex(f) == IF Loaded(f) THEN (latest_index[f] + 1) % Ring ELSE 0

(* The genesis of the block creator's slots is configured: heights go on.  *)
MutHeightAfterRestart == 0
HeightAfterRestart == height

Restart ==
  /\ n_restarts < MaxRestarts
  /\ n_restarts' = n_restarts + 1
  /\ height' = HeightAfterRestart
  /\ is_enabled' = TRUE
  /\ queue' = <<>> /\ pc' = "recv" /\ tx' = NoTx /\ retries' = 0
  /\ history' = [f \in Feeds |-> 0]
  /\ \/ /\ "ring_end" \in Mishaps \/ \A f \in Feeds : latest_index[f] # Ring - 1
        /\ rb_indices' = [f \in Feeds |-> NextIndex(f)]
     \/ /\ "load_failed" \in Mishaps
        /\ rb_indices' = [f \in Feeds |-> 0]
  /\ Forget
  /\ UNCHANGED <<has_address, chain_nonce, included, contract_vars>>

Relayer ==
  \/ TakeBatch \/ GetNonce \/ Send \/ SendFails \/ ExecutionRevert
  \/ NonceIsUsed \/ GetReceipt \/ ReceiptTimesOut \/ GiveUp

Next ==
  \/ \E S \in SUBSET Feeds \ {{}} : SendToRelayer(S)
  \/ SetIsEnabled
  \/ SetContractAddress
  \/ Relayer
  \/ \E t \in mempool : Include(t)
  \/ Restart

(* The relayer's task goes on: every call it waits for has a timeout.      *)
Spec == Init /\ [][Next]_vars /\ WF_vars(Relayer)

-----------------------------------------------------------------------------
(* Properties.                                                             *)

Ordinals == 0..(Ring - 1)

TypeOK ==
  /\ height \in 0..MaxHeight /\ is_enabled \in BOOLEAN
  /\ queue \in Seq([height : 1..MaxHeight, feeds : SUBSET Feeds])
  /\ pc \in {"recv", "nonce", "send", "receipt"}
  /\ tx \in [nonce : Nat, height : Nat, values : UNION {[S -> Ordinals] : S \in SUBSET Feeds},
             rows : UNION {[S -> Ordinals] : S \in SUBSET Feeds}]
  /\ pc = "recv" <=> tx = NoTx
  /\ retries \in 0..(RetriesLimit + 1)
  /\ rb_indices \in [Feeds -> Nat] /\ history \in [Feeds -> 0..MaxHeight]
  /\ has_address \in BOOLEAN /\ n_restarts \in 0..MaxRestarts
  /\ \A t \in mempool : t.values # <<>> /\ t.height \in 1..MaxHeight
  /\ chain_nonce \in Nat /\ included.ok \in BOOLEAN
  /\ block_number \in 0..MaxHeight
  /\ latest_index \in [Feeds -> Ordinals]
  /\ data \in [Feeds -> [Ordinals -> 0..MaxHeight]]

(* getLatestData: what a reader of the contract gets for a feed.           *)
LatestData(f) == data[f][latest_index[f]]

(* The path implements FeedStore for whoever reads the contract, whatever  *)
(* transactions revert, time out or are retried, wherever the ring buffers *)
(* wrap and whenever the sequencer restarts, except after a mishap.        *)
Store == INSTANCE FeedStore WITH
           shown <- [f \in Feeds |-> LatestData(f)],
           last_block <- block_number

ImplementsFeedStore == Store!Spec

(* A feed's ring holds its values in their order: going back from the      *)
(* latest index the heights fall, over slots never written.                *)
RingInOrder ==
  \A f \in Feeds : \A i, j \in Ordinals :
    LET newer == data[f][(latest_index[f] - i) % Ring]
        older == data[f][(latest_index[f] - j) % Ring]
    IN  i < j /\ newer # 0 /\ older # 0 => older < newer

(* While the relayer waits for a batch, it would write every feed that has *)
(* a value right after its latest value.  Only a feed that is not of the   *)
(* configuration file and has one value at index 0 is counted as new.      *)
CountsFollowChain ==
  pc = "recv" =>
    \A f \in Feeds : LatestData(f) # 0 =>
      \/ rb_indices[f] % Ring = (latest_index[f] + 1) % Ring
      \/ rb_indices[f] = 0 /\ latest_index[f] = 0

(* The contract never refuses a transaction for its block number: batches  *)
(* are sent in the order of their blocks, one at a time.                   *)
NeverRefused ==
  \A t \in mempool : t.nonce = chain_nonce => Accepted(t)

(* The relayer always comes back to its queue.                             *)
RelayerComesBack == []<>(pc = "recv")

(* Contradicted by the code after a mishap: what a reader gets for a feed  *)
(* is never replaced by an older value.                                    *)
ReadersNeverGoBack == [][\A f \in Feeds : LatestData(f)' >= LatestData(f)]_vars
=============================================================================
