---------------------------- MODULE SecondRound ----------------------------
(***************************************************************************)
(* The second consensus round of the sequencer.  Each batch of the block   *)
(* creator becomes, per network with a Gnosis Safe, one Safe transaction   *)
(* that MinQuorum reporters have to sign before it is sent.                *)
(*                                                                         *)
(*   - votes_result_sender numbers the transaction, announces it to the    *)
(*     reporters over Kafka and enters it into batches_awaiting_consensus  *)
(*     (try_send_aggregation_consensus_trigger_to_reporters);              *)
(*   - an HTTP handler per signature checks it and passes it on            *)
(*     (post_aggregated_consensus_vote);                                   *)
(*   - aggregation_batch_consensus_loop collects the signatures, discards  *)
(*     batches that take too long, and spawns a task per complete batch;   *)
(*   - the task sends the transaction, holding the lock of its network's   *)
(*     provider from its start to its end.                                 *)
(*                                                                         *)
(* They share the providers, each behind a mutex, and the batches behind   *)
(* one lock.  A step that takes a lock and gives it back without waiting   *)
(* for anything else in between is one action here, enabled while nobody   *)
(* holds the lock.  Every batch updates the same feed, so that a network   *)
(* has one ring buffer index.                                              *)
(***************************************************************************)
EXTENDS Integers, Sequences, FiniteSets

CONSTANTS
  Networks,      \* the networks with a Gnosis Safe
  Reporters,     \* the registered reporters
  MinQuorum,     \* min_quorum of the Safe contract
  Retention,     \* aggregation_consensus_discard_period_blocks
  RetriesLimit,  \* transaction_retries_count_limit
  MaxBatches,    \* bound: how many batches the block creator emits
  MaxClock,      \* bound: the last block slot that is told from the next
  Nobody         \* no task holds the lock

ASSUME SecondRoundAssumption ==
  /\ IsFiniteSet(Networks) /\ IsFiniteSet(Reporters)
  /\ MinQuorum \in 1..Cardinality(Reporters)
  /\ Retention \in Nat /\ RetriesLimit \in Nat
  /\ MaxBatches \in Nat /\ MaxClock \in Nat
  /\ Nobody \notin [net : Networks, height : Nat]

VARIABLES
  clock,       \* the current block slot
  emitted,     \* environment: how many batches were emitted
  batched_votes,  \* batched_votes_recv: the heights of batches, oldest first
  trigger,     \* votes_result_sender's place in its loops, and its locals
  announced,   \* the batches in the topic "aggregation_consensus"
  answered,    \* environment: which reporter has answered which batch
  in_progress, \* in_progress_batches
  backlog,     \* backlog_batches: the keys of batches in order of insertion
  signatures,  \* aggregate_batch_sig_recv: signatures that passed the handler
  loop,        \* aggregation_batch_consensus_loop's place, and its locals
  tasks,       \* the safe_tx_sender tasks, finished ones included
  lock,        \* network -> the task that holds the provider's mutex, or Nobody
  num_tx_in_progress, \* network -> the provider's counter
  rb_indices,  \* network -> the ring buffer index of the next update
  safe_nonce,  \* external: network -> nonce of the Safe contract
  mempool,     \* external: the batches whose transaction waits for inclusion
  mined,       \* external: the batches whose transaction is included
  executed     \* external: those of them that did not revert

trigger_vars == <<batched_votes, trigger, announced>>
batch_vars == <<in_progress, backlog>>
loop_vars == <<signatures, loop>>
provider_vars == <<num_tx_in_progress, rb_indices>>
chain_vars == <<safe_nonce, mempool, mined, executed>>
vars == <<clock, emitted, trigger_vars, answered, batch_vars, loop_vars, tasks, lock,
          provider_vars, chain_vars>>

Key == [net : Networks, height : Nat]
Tx == [nonce : Nat, rb : Nat]
Batch == [key : Key, tx : Tx, signers : SUBSET Reporters]
Task == [key : Key, tx : Tx, signers : SUBSET Reporters, retries : Nat,
         pc : {"start", "check", "send", "receipt", "done", "error", "failed"}]

Idle == [pc |-> "idle", height |-> 0, todo |-> {}, key |-> Nobody, tx |-> [nonce |-> 0, rb |-> 0]]
Select(armed) == [pc |-> "select", armed |-> armed, msg |-> <<>>, expired |-> {}]

Init ==
  /\ clock = 0 /\ emitted = 0
  /\ batched_votes = <<>> /\ trigger = Idle /\ announced = {} /\ answered = {}
  /\ in_progress = {} /\ backlog = <<>>
  /\ signatures = <<>> /\ loop = Select(0)
  /\ tasks = {} /\ lock = [n \in Networks |-> Nobody]
  /\ num_tx_in_progress = [n \in Networks |-> 0] /\ rb_indices = [n \in Networks |-> 0]
  /\ safe_nonce = [n \in Networks |-> 0] /\ mempool = {} /\ mined = {} /\ executed = {}

Running == {t \in tasks : t.pc \notin {"done", "error", "failed"}}
Free(n) == lock[n] = Nobody
(* The timer's arm keeps the write lock of the batches to its end.         *)
BatchesFree == loop.pc \notin {"expire", "drain"}

-----------------------------------------------------------------------------
(* The environment.                                                        *)

(* A block slot ends; the block creator may emit its batch, early enough   *)
(* for it to time out.                                                     *)
NextSlot ==
  /\ clock < MaxClock
  /\ clock' = clock + 1
  /\ \/ /\ emitted < MaxBatches /\ clock' + Retention < MaxClock
        /\ emitted' = emitted + 1
        /\ batched_votes' = Append(batched_votes, clock + 1)
     \/ UNCHANGED <<emitted, batched_votes>>
  /\ UNCHANGED <<trigger, announced, answered, batch_vars, loop_vars, tasks, lock,
                 provider_vars, chain_vars>>

(* A reporter that has read an announcement signs it and posts its answer  *)
(* once; the handler turns down an answer to a batch that is not waiting.  *)
Answer(r, k) ==
  /\ k \in announced /\ <<r, k>> \notin answered
  /\ BatchesFree
  /\ answered' = answered \union {<<r, k>>}
  /\ signatures' = IF \E b \in in_progress : b.key = k
                   THEN Append(signatures, [reporter |-> r, key |-> k]) ELSE signatures
  /\ UNCHANGED <<clock, emitted, trigger_vars, batch_vars, loop, tasks, lock,
                 provider_vars, chain_vars>>

(* A transaction is included.  The Safe accepts no nonce but its own, and  *)
(* the transaction may revert for other reasons.                           *)
Mine(t) ==
  LET n == t.key.net
  IN  /\ t.key \in mempool
      /\ mempool' = mempool \ {t.key}
      /\ mined' = mined \union {t.key}
      /\ \/ /\ t.tx.nonce = safe_nonce[n]
            /\ safe_nonce' = [safe_nonce EXCEPT ![n] = @ + 1]
            /\ executed' = executed \union {t.key}
         \/ UNCHANGED <<safe_nonce, executed>>
      /\ UNCHANGED <<clock, emitted, trigger_vars, answered, batch_vars, loop_vars, tasks,
                     lock, provider_vars>>

-----------------------------------------------------------------------------
(* votes_result_sender.  (A Mut... operator is a defect of the operator    *)
(* after it that one of the properties below catches.)                     *)

TakeBatch ==
  /\ trigger.pc = "idle" /\ batched_votes # <<>>
  /\ trigger' = [Idle EXCEPT !.pc = "next", !.height = Head(batched_votes), !.todo = Networks]
  /\ batched_votes' = Tail(batched_votes)
  /\ UNCHANGED <<clock, emitted, announced, answered, batch_vars, loop_vars, tasks, lock,
                 provider_vars, chain_vars>>

AllNetworksDone ==
  /\ trigger.pc = "next" /\ trigger.todo = {}
  /\ trigger' = Idle
  /\ UNCHANGED <<clock, emitted, batched_votes, announced, answered, batch_vars, loop_vars,
                 tasks, lock, provider_vars, chain_vars>>

(* get_serialized_updates_for_network: the calldata holds the index of the *)
(* update.  The network may be disabled or take none of the updates.       *)
SerializeUpdates(n) ==
  /\ trigger.pc = "next" /\ n \in trigger.todo
  /\ Free(n)
  /\ \/ trigger' = [trigger EXCEPT !.pc = "nonce", !.todo = @ \ {n},
                                   !.key = [net |-> n, height |-> trigger.height],
                                   !.tx.rb = rb_indices[n]]
     \/ trigger' = [trigger EXCEPT !.todo = @ \ {n}]
  /\ UNCHANGED <<clock, emitted, batched_votes, announced, answered, batch_vars, loop_vars,
                 tasks, lock, provider_vars, chain_vars>>

(* The nonce is the Safe's, past the transactions in progress.  When the   *)
(* Safe cannot be asked the function returns, for the other networks too.  *)
MutNextNonce(n) == safe_nonce[n]
NextNonce(n) == safe_nonce[n] + num_tx_in_progress[n]

CreateSafeTx ==
  /\ trigger.pc = "nonce"
  /\ Free(trigger.key.net)
  /\ \/ trigger' = [trigger EXCEPT !.pc = "send", !.tx.nonce = NextNonce(trigger.key.net)]
     \/ trigger' = Idle
  /\ UNCHANGED <<clock, emitted, batched_votes, announced, answered, batch_vars, loop_vars,
                 tasks, lock, provider_vars, chain_vars>>

(* Without an acknowledgement the announcement may be in the topic or not. *)
SendToKafka ==
  /\ trigger.pc = "send"
  /\ \/ /\ announced' = announced \union {trigger.key}
        /\ trigger' = [trigger EXCEPT !.pc = "insert"]
     \/ /\ announced' \in {announced, announced \union {trigger.key}}
        /\ trigger' = [trigger EXCEPT !.pc = "count"]
  /\ UNCHANGED <<clock, emitted, batched_votes, answered, batch_vars, loop_vars,
                 tasks, lock, provider_vars, chain_vars>>

(* insert_new_in_process_batch, which keeps a batch that is there already. *)
MutPushToBacklog(k) == UNCHANGED backlog
PushToBacklog(k) == backlog' = Append(backlog, k)

InsertNewInProcessBatch ==
  /\ trigger.pc = "insert"
  /\ BatchesFree
  /\ IF \E b \in in_progress : b.key = trigger.key
     THEN UNCHANGED batch_vars
     ELSE /\ PushToBacklog(trigger.key)
          /\ in_progress' = in_progress \union
                              {[key |-> trigger.key, tx |-> trigger.tx, signers |-> {}]}
  /\ trigger' = [trigger EXCEPT !.pc = "count"]
  /\ UNCHANGED <<clock, emitted, batched_votes, announced, answered, loop_vars, tasks, lock,
                 provider_vars, chain_vars>>

(* After the batch is announced, and after a failure to announce it.       *)
CountTx ==
  LET n == trigger.key.net
  IN  /\ trigger.pc = "count"
      /\ Free(n)
      /\ rb_indices' = [rb_indices EXCEPT ![n] = @ + 1]
      /\ num_tx_in_progress' = [num_tx_in_progress EXCEPT ![n] = @ + 1]
      /\ trigger' = [trigger EXCEPT !.pc = "next", !.key = Nobody, !.tx = Idle.tx]
      /\ UNCHANGED <<clock, emitted, batched_votes, announced, answered, batch_vars,
                     loop_vars, tasks, lock, chain_vars>>

-----------------------------------------------------------------------------
(* aggregation_batch_consensus_loop.                                       *)

RecvSignature ==
  /\ loop.pc = "select" /\ signatures # <<>>
  /\ loop' = [loop EXCEPT !.pc = "signature", !.msg = <<Head(signatures)>>]
  /\ signatures' = Tail(signatures)
  /\ UNCHANGED <<clock, emitted, trigger_vars, answered, batch_vars, tasks, lock,
                 provider_vars, chain_vars>>

(* How many signatures a batch has, by insert_reporter_signature.          *)
MutQuorumReached(signers) == Cardinality(signers) >= MinQuorum - 1
QuorumReached(signers) == Cardinality(signers) >= MinQuorum

(* take_reporters_signatures.                                              *)
MutTakeSignatures(b) == UNCHANGED in_progress
TakeSignatures(b) == in_progress' = {c \in in_progress : c.key # b.key}

SpawnSender(b) ==
  tasks' = tasks \union {[key |-> b.key, tx |-> b.tx, signers |-> b.signers,
                          retries |-> 0, pc |-> "start"]}

(* The quorum's size is read from the provider first, so the loop waits    *)
(* for a task of the network that is sending.                              *)
InsertReporterSignature ==
  LET msg == loop.msg[1]
      found == {b \in in_progress : b.key = msg.key}
  IN  /\ loop.pc = "signature"
      /\ Free(msg.key.net)
      /\ \/ /\ found = {}
            /\ UNCHANGED <<in_progress, tasks>>
         \/ \E b \in found :
              LET signed == [b EXCEPT !.signers = @ \union {msg.reporter}]
              IN  IF QuorumReached(signed.signers)
                  THEN /\ TakeSignatures(signed)
                       /\ SpawnSender(signed)
                  ELSE /\ in_progress' = (in_progress \ {b}) \union {signed}
                       /\ UNCHANGED tasks
      /\ loop' = Select(clock)
      /\ UNCHANGED <<clock, emitted, trigger_vars, answered, backlog, signatures, lock,
                     provider_vars, chain_vars>>

(* clear_batches_older_than: from the front of the backlog.                *)
MutTooOld(k) == k.height + Retention + 1 < clock
TooOld(k) == k.height + Retention < clock

(* The timer is armed for the slot that is current when the loop selects.  *)
SlotEnded == clock > loop.armed \/ clock = MaxClock

ClearBatches ==
  /\ loop.pc = "select" /\ SlotEnded
  /\ \E n \in 0..Len(backlog) :
       LET popped == {backlog[i] : i \in 1..n}
           timed_out == {b \in in_progress : b.key \in popped}
       IN  /\ \A i \in 1..n : TooOld(backlog[i])
           /\ n < Len(backlog) => ~TooOld(backlog[n + 1])
           /\ backlog' = SubSeq(backlog, n + 1, Len(backlog))
           /\ in_progress' = in_progress \ timed_out
           /\ loop' = [loop EXCEPT !.pc = "expire", !.armed = clock,
                                   !.expired = {b.key : b \in timed_out}]
  /\ UNCHANGED <<clock, emitted, trigger_vars, answered, signatures, tasks, lock,
                 provider_vars, chain_vars>>

MutDecrement(i) == i - 1
Decrement(i) == IF i > 0 THEN i - 1 ELSE 0

(* Each batch that timed out gives its index back, and keeps its place     *)
(* among the transactions in progress.  In which order makes no difference *)
(* to the counters.                                                        *)
GiveIndexBack ==
  /\ loop.pc = "expire"
  /\ \E k \in loop.expired :
       /\ Free(k.net)
       /\ rb_indices' = [rb_indices EXCEPT ![k.net] = Decrement(@)]
       /\ loop' = [loop EXCEPT !.expired = @ \ {k}]
  /\ UNCHANGED <<clock, emitted, trigger_vars, answered, batch_vars, signatures, tasks, lock,
                 num_tx_in_progress, chain_vars>>

(* The loop over collected_futures ends when it yields none: when all the  *)
(* tasks are finished.                                                     *)
AwaitTasks ==
  /\ loop.pc = "expire" /\ loop.expired = {}
  /\ loop' = [loop EXCEPT !.pc = "drain"]
  /\ UNCHANGED <<clock, emitted, trigger_vars, answered, batch_vars, signatures, tasks, lock,
                 provider_vars, chain_vars>>

TasksDone ==
  /\ loop.pc = "drain" /\ Running = {}
  /\ loop' = Select(clock)
  /\ UNCHANGED <<clock, emitted, trigger_vars, answered, batch_vars, signatures, tasks, lock,
                 provider_vars, chain_vars>>

-----------------------------------------------------------------------------
(* A safe_tx_sender task.                                                  *)

Step(t, u) == tasks' = (tasks \ {t}) \union {u}
Goto(t, pc) == Step(t, [t EXCEPT !.pc = pc])
Retry(t) == Step(t, [t EXCEPT !.pc = "check", !.retries = @ + 1])
MutRelease(t) == UNCHANGED lock
Release(t) == lock' = [lock EXCEPT ![t.key.net] = Nobody]

MutDecNumTx(n) ==
  num_tx_in_progress' = [num_tx_in_progress EXCEPT ![n] = 0]

DecNumTx(n) ==
  num_tx_in_progress' = [num_tx_in_progress EXCEPT ![n] = Decrement(@)]

(* failed_tx.                                                              *)
FailedTx(t) ==
  /\ Goto(t, "failed")
  /\ DecNumTx(t.key.net)
  /\ rb_indices' = [rb_indices EXCEPT ![t.key.net] = Decrement(@)]
  /\ Release(t)

sender_frame == <<clock, emitted, trigger_vars, answered, batch_vars, loop_vars>>

(* The task waits for the provider and asks for its signer's nonce, until  *)
(* it has it or has failed too often.                                      *)
StartSender(t) ==
  /\ t.pc = "start" /\ Free(t.key.net)
  /\ \/ /\ lock' = [lock EXCEPT ![t.key.net] = t.key]
        /\ Goto(t, "check")
        /\ UNCHANGED provider_vars
     \/ FailedTx(t)
  /\ UNCHANGED <<sender_frame, chain_vars>>

TooManyRetries(t) ==
  /\ t.pc = "check" /\ t.retries > RetriesLimit
  /\ FailedTx(t)
  /\ UNCHANGED <<sender_frame, chain_vars>>

(* The Safe is asked for its nonce; no answer and an answer other than the *)
(* transaction's nonce are retried.                                        *)
NonceMatches(t) == safe_nonce[t.key.net] = t.tx.nonce

CheckSafeNonce(t) ==
  /\ t.pc = "check" /\ t.retries <= RetriesLimit
  /\ \/ NonceMatches(t) /\ Goto(t, "send")
     \/ Retry(t)
  /\ UNCHANGED <<sender_frame, lock, provider_vars, chain_vars>>

(* A retry replaces the transaction sent before; once that is included the *)
(* node refuses the other.                                                 *)
SendTx(t) ==
  /\ t.pc = "send"
  /\ \/ /\ t.key \notin mined
        /\ mempool' = mempool \union {t.key}
        /\ Goto(t, "receipt")
        /\ UNCHANGED <<lock, provider_vars>>
     \/ /\ mempool' \in {mempool, mempool \union ({t.key} \ mined)}
        /\ Retry(t)
        /\ UNCHANGED <<lock, provider_vars>>
     \/ /\ FailedTx(t)
        /\ UNCHANGED mempool
  /\ UNCHANGED <<sender_frame, safe_nonce, mined, executed>>

(* Any receipt, that of a reverted transaction and an error instead of a   *)
(* receipt included, ends the task; only no receipt in time is retried.    *)
GetReceipt(t) ==
  /\ t.pc = "receipt"
  /\ \/ /\ \/ t.key \in mined /\ Goto(t, "done")
           \/ Goto(t, "error")
        /\ DecNumTx(t.key.net)
        /\ Release(t)
        /\ UNCHANGED rb_indices
     \/ /\ Retry(t)
        /\ UNCHANGED <<lock, provider_vars>>
  /\ UNCHANGED <<sender_frame, chain_vars>>

SenderStep(t) ==
  StartSender(t) \/ TooManyRetries(t) \/ CheckSafeNonce(t) \/ SendTx(t) \/ GetReceipt(t)

-----------------------------------------------------------------------------
TriggerStep ==
  \/ TakeBatch
  \/ AllNetworksDone
  \/ \E n \in Networks : SerializeUpdates(n)
  \/ CreateSafeTx
  \/ SendToKafka
  \/ InsertNewInProcessBatch
  \/ CountTx

LoopStep ==
  \/ RecvSignature
  \/ InsertReporterSignature
  \/ ClearBatches
  \/ GiveIndexBack
  \/ AwaitTasks
  \/ TasksDone

Next ==
  \/ NextSlot
  \/ \E r \in Reporters, k \in announced : Answer(r, k)
  \/ \E t \in tasks : Mine(t)
  \/ TriggerStep
  \/ LoopStep
  \/ \E t \in tasks : SenderStep(t)

Spec == Init /\ [][Next]_vars

(* The runtime polls every task, calls to Kafka and to the chain return or *)
(* time out, and the clock goes on.  Reporters need not answer and the     *)
(* chain need not include anything.  A task that waits for the lock while  *)
(* others take it again and again gets it in its turn, as tokio's mutex is *)
(* fair.                                                                   *)
SenderOf(k) == \E t \in tasks : t.key = k /\ SenderStep(t)

Fairness ==
  /\ WF_vars(NextSlot)
  /\ SF_vars(TriggerStep)
  /\ SF_vars(LoopStep)
  /\ \A k \in [net : Networks, height : 1..MaxClock] : SF_vars(SenderOf(k))

FairSpec == Spec /\ Fairness

-----------------------------------------------------------------------------
(* Properties.                                                             *)

TypeOK ==
  /\ clock \in 0..MaxClock /\ emitted \in 0..MaxBatches
  /\ batched_votes \in Seq(Nat)
  /\ trigger \in [pc : {"idle", "next", "nonce", "send", "insert", "count"}, height : Nat,
                  todo : SUBSET Networks, key : Key \union {Nobody}, tx : Tx]
  /\ trigger.pc \in {"nonce", "send", "insert", "count"} => trigger.key \in Key
  /\ announced \in SUBSET Key /\ answered \in SUBSET (Reporters \X Key)
  /\ in_progress \in SUBSET Batch /\ backlog \in Seq(Key)
  /\ signatures \in Seq([reporter : Reporters, key : Key])
  /\ loop \in [pc : {"select", "signature", "expire", "drain"}, armed : Nat,
               msg : Seq([reporter : Reporters, key : Key]), expired : SUBSET Key]
  /\ loop.pc = "signature" => Len(loop.msg) = 1
  /\ tasks \in SUBSET Task
  /\ lock \in [Networks -> Key \union {Nobody}]
  /\ num_tx_in_progress \in [Networks -> Nat] /\ rb_indices \in [Networks -> Nat]
  /\ safe_nonce \in [Networks -> Nat]
  /\ mempool \in SUBSET Key /\ mined \in SUBSET Key /\ executed \in SUBSET mined

(* A batch is given to one sender or discarded, never both and never       *)
(* twice, and as long as it waits for signatures the backlog can reach it. *)
EachBatchEndsOnce ==
  /\ \A b, c \in in_progress \union tasks : b.key = c.key => b = c
  /\ \A i, j \in DOMAIN backlog : backlog[i] = backlog[j] => i = j
  /\ \A k \in loop.expired : \A b \in in_progress \union tasks : b.key # k
  /\ \A b \in in_progress : \E i \in DOMAIN backlog : backlog[i] = b.key

(* The timer's arm leaves no batch that is older than the retention: the   *)
(* backlog is in the order of heights, however long Kafka took for each.   *)
OldBatchesAreCleared ==
  /\ loop.pc \in {"expire", "drain"} =>
       \A b \in in_progress : b.key.height + Retention >= loop.armed
  /\ \A i, j \in DOMAIN backlog : i < j => backlog[i].height <= backlog[j].height

(* Behind every transaction sent stand enough different reporters who have *)
(* each answered the announcement of that very batch.                      *)
QuorumBehindSenders ==
  \A t \in tasks :
    /\ Cardinality(t.signers) >= MinQuorum
    /\ \A r \in t.signers : <<r, t.key>> \in answered

(* Every batch that waits for signatures or for its sender is counted,     *)
(* but for the one that is inserted and counted next, so that no batch is  *)
(* numbered as if it was not there.                                        *)
Pending(n) == {b \in in_progress \union Running : b.key.net = n}
BeingCounted(n) == IF trigger.pc = "count" /\ trigger.key.net = n THEN 1 ELSE 0

PendingAreCounted ==
  \A n \in Networks :
    num_tx_in_progress[n] + BeingCounted(n) >= Cardinality(Pending(n))

(* As long as no transaction has failed, those of a network are numbered   *)
(* in the order of their batches, past what the Safe has executed.         *)
Failed(t) == t.pc \in {"error", "failed"} \/ t.key \in mined \ executed

NoncesInSequence ==
  \A n \in Networks :
    (\A t \in tasks : t.key.net = n => ~Failed(t)) =>
      \A b, c \in Pending(n) :
        /\ b.key.height < c.key.height => b.tx.nonce < c.tx.nonce
        /\ b.key \in executed \/ b.tx.nonce >= safe_nonce[n]

(* Nobody waits forever for a lock: the sender of batches and the loop     *)
(* come back to where they wait for messages, and a batch that waits for   *)
(* signatures is sent or discarded.                                        *)
TriggerComesBack == []<>(trigger.pc = "idle")
LoopComesBack == []<>(loop.pc = "select")
BatchesEnd ==
  \A k \in [net : Networks, height : 1..MaxClock] :
    (\E b \in in_progress : b.key = k) ~> ~(\E b \in in_progress : b.key = k)

(* Contradicted by the code: num_tx_in_progress is the number of           *)
(* transactions that are processed.                                        *)
NumTxInProgress ==
  trigger.pc = "idle" =>
    \A n \in Networks : num_tx_in_progress[n] = Cardinality(Pending(n))

(* Contradicted by the code: a batch whose transaction is included gives   *)
(* its index back if the transaction failed and keeps it if not.           *)
FailedGiveIndexBack ==
  \A t \in tasks : t.key \in mined =>
    /\ t.pc = "failed" => t.key \notin executed
    /\ t.pc = "done" => t.key \in executed
=============================================================================
