--------------------- MODULE SecondRoundNonces_proofs ---------------------
(***************************************************************************)
(* As long as no transaction of a network has failed, its pending batches  *)
(* are numbered in the order of their heights and past what the Safe has   *)
(* executed, for any number of networks, reporters and batches.            *)
(*                                                                         *)
(* A nonce is made of two counters that change at different times: the     *)
(* Safe counts a transaction when it is executed, num_tx_in_progress lets  *)
(* go of it when its sender has the receipt.  Past(n), their sum without   *)
(* the transaction that is between the two, only grows, and at most one    *)
(* transaction is between them: that of the sender that holds the lock     *)
(* (Locks, Mined).  Whoever takes a nonce holds the lock himself, so that  *)
(* the nonce is Past(n), which is above every nonce taken before and not   *)
(* above any taken later (Numbered).                                       *)
(***************************************************************************)
EXTENDS SecondRound_proofs

NoFailure(n) == \A t \in tasks : t.key.net = n => ~Failed(t)

Holding(t) == t.pc \in {"check", "send", "receipt"}

Locks ==
  /\ \A n \in Networks : lock[n] # Nobody => lock[n].net = n
  /\ \A t \in tasks : Holding(t) => lock[t.key.net] = t.key

Mined ==
  /\ mempool \intersect mined = {}
  /\ \A k \in mempool \union mined : \E t \in tasks : t.key = k /\ t.pc # "start"
  /\ \A t \in tasks : t.pc = "done" => t.key \in mined

Ahead(n) == IF lock[n] \in executed THEN 1 ELSE 0
Past(n) == safe_nonce[n] + num_tx_in_progress[n] - Ahead(n)

HasNonce(n) == trigger.pc \in {"send", "insert", "count"} /\ trigger.key.net = n
CountedNext(b) == trigger.pc = "count" /\ b.key = trigger.key

Numbered(n) ==
  /\ \A b \in Pending(n) : CountedNext(b) \/ b.tx.nonce < Past(n)
  /\ \A b, c \in Pending(n) : b.key.height < c.key.height => b.tx.nonce < c.tx.nonce
  /\ \A b \in Pending(n) : b.key \in executed \/ b.tx.nonce >= safe_nonce[n]
  /\ HasNonce(n) =>
       /\ trigger.tx.nonce <= Past(n)
       /\ trigger.pc # "count" => trigger.tx.nonce >= safe_nonce[n]
       /\ \A b \in Pending(n) : IF b.key = trigger.key THEN b.tx = trigger.tx
                                ELSE b.tx.nonce < trigger.tx.nonce

NonceInv == Locks /\ Mined /\ \A n \in Networks : NoFailure(n) => Numbered(n)

-----------------------------------------------------------------------------
(* Types.                                                                  *)

LEMMA PendingTypes ==
  ASSUME TypeOK, NEW n \in Networks, NEW b \in Pending(n)
  PROVE  /\ b.key \in Key /\ b.key.net = n /\ b.key.height \in Nat
         /\ b.tx \in Tx /\ b.tx.nonce \in Nat /\ b.key \in Keys
<1>1. b.key \in Key /\ b.tx \in Tx
  BY DEF TypeOK, Pending, Running, Batch, Task
<1>2. b.key.net = n /\ b.key \in Keys
  BY DEF Pending, Running, Keys
<1>. QED
  BY <1>1, <1>2 DEF Key, Tx

LEMMA CounterTypes ==
  ASSUME TypeOK, NEW n \in Networks
  PROVE  /\ safe_nonce[n] \in Nat /\ num_tx_in_progress[n] \in Nat
         /\ Ahead(n) \in 0..1 /\ Past(n) \in Int
         /\ Free(n) => Ahead(n) = 0
<1>1. safe_nonce[n] \in Nat /\ num_tx_in_progress[n] \in Nat /\ Ahead(n) \in 0..1
  BY DEF TypeOK, Ahead
<1>2. Nobody \notin executed
  BY Constants DEF TypeOK
<1>. QED
  BY <1>1, <1>2 DEF Past, Free, Ahead

LEMMA CounterTypesAfter ==
  ASSUME TypeOK', NEW n \in Networks
  PROVE  /\ safe_nonce'[n] \in Nat /\ num_tx_in_progress'[n] \in Nat
         /\ Ahead(n)' \in 0..1 /\ Past(n)' \in Int
<1>1. safe_nonce'[n] \in Nat /\ num_tx_in_progress'[n] \in Nat /\ Ahead(n)' \in 0..1
  BY DEF TypeOK, Ahead
<1>. QED
  BY <1>1 DEF Past

(* The ways a sender may go: it starts, goes on, or ends.                  *)
SenderStarts(t, u) ==
  /\ t.pc = "start" /\ u.pc = "check" /\ Free(t.key.net)
  /\ lock' = [lock EXCEPT ![t.key.net] = t.key]
  /\ UNCHANGED <<num_tx_in_progress, mempool>>

SenderGoesOn(t, u) ==
  /\ Holding(t) /\ Holding(u)
  /\ UNCHANGED <<num_tx_in_progress, lock>>
  /\ mempool' \subseteq mempool \union ({t.key} \ mined) /\ mempool \subseteq mempool'

SenderEnds(t, u) ==
  /\ Holding(t) \/ (t.pc = "start" /\ Free(t.key.net))
  /\ u.pc \in {"done", "error", "failed"}
  /\ u.pc = "done" => Holding(t) /\ t.key \in mined
  /\ DecNumTx(t.key.net) /\ Release(t)
  /\ UNCHANGED mempool

LEMMA SenderCases ==
  ASSUME TypeOK, NEW t \in tasks, SenderStep(t)
  PROVE  /\ UNCHANGED <<sender_frame, safe_nonce, mined, executed>>
         /\ \E u \in Task : /\ Moved(t, u) /\ tasks' = (tasks \ {t}) \union {u}
                            /\ SenderStarts(t, u) \/ SenderGoesOn(t, u) \/ SenderEnds(t, u)
<1>. DEFINE To(u) == Moved(t, u) /\ tasks' = (tasks \ {t}) \union {u}
<1>0. t \in Task
  BY DEF TypeOK
<1>1. ASSUME NEW pc \in {"check", "send", "receipt", "done", "error", "failed"}, Goto(t, pc)
      PROVE  \E u \in Task : To(u) /\ u.pc = pc
  <2>1. Moved(t, [t EXCEPT !.pc = pc]) /\ [t EXCEPT !.pc = pc].pc = pc
    BY <1>0 DEF Moved, Task
  <2>. QED
    BY <1>1, <2>1 DEF Goto, Step, Moved
<1>2. ASSUME Retry(t)
      PROVE  \E u \in Task : To(u) /\ u.pc = "check"
  <2>1. t.retries + 1 \in Nat
    BY <1>0 DEF Task
  <2>2. PICK i \in Nat : tasks' = (tasks \ {t}) \union {[t EXCEPT !.pc = "check", !.retries = i]}
    BY <1>2, <2>1 DEF Retry, Step
  <2>3. [t EXCEPT !.pc = "check", !.retries = i].pc = "check"
    BY <1>0 DEF Task
  <2>. QED
    BY <1>0, <2>2, <2>3, TaskWith DEF Moved
<1>3. UNCHANGED <<sender_frame, safe_nonce, mined, executed>>
  BY DEF SenderStep, StartSender, TooManyRetries, CheckSafeNonce, SendTx, GetReceipt, chain_vars
<1>. HIDE DEF To
<1>4. ASSUME FailedTx(t), UNCHANGED mempool, Holding(t) \/ (t.pc = "start" /\ Free(t.key.net))
      PROVE  \E u \in Task : To(u) /\ SenderEnds(t, u)
  <2>1. PICK u \in Task : To(u) /\ u.pc = "failed"
    BY <1>1, <1>4 DEF FailedTx
  <2>. QED
    BY <1>4, <2>1 DEF FailedTx, SenderEnds
<1>5. CASE StartSender(t)
  <2>1. CASE FailedTx(t)
    BY <1>3, <1>4, <1>5, <2>1 DEF StartSender, chain_vars, To
  <2>2. CASE ~FailedTx(t)
    <3>1. PICK u \in Task : To(u) /\ u.pc = "check"
      BY <1>1, <1>5, <2>2 DEF StartSender
    <3>. QED
      BY <1>5, <2>2, <3>1 DEF StartSender, SenderStarts, provider_vars, chain_vars, To
  <2>. QED
    BY <2>1, <2>2 DEF To
<1>6. CASE TooManyRetries(t)
  BY <1>4, <1>6 DEF TooManyRetries, chain_vars, Holding, To
<1>7. CASE CheckSafeNonce(t)
  <2>1. PICK u \in Task : To(u) /\ u.pc \in {"send", "check"}
    BY <1>1, <1>2, <1>7 DEF CheckSafeNonce
  <2>. QED
    BY <1>7, <2>1 DEF CheckSafeNonce, SenderGoesOn, Holding, provider_vars, chain_vars, To
<1>8. CASE SendTx(t)
  <2>1. CASE FailedTx(t) /\ UNCHANGED mempool
    BY <1>4, <1>8, <2>1 DEF SendTx, Holding, To
  <2>2. CASE ~(FailedTx(t) /\ UNCHANGED mempool)
    <3>1. PICK u \in Task : To(u) /\ u.pc \in {"receipt", "check"}
      BY <1>1, <1>2, <1>8, <2>2 DEF SendTx
    <3>. QED
      BY <1>8, <2>2, <3>1 DEF SendTx, SenderGoesOn, Holding, provider_vars, To
  <2>. QED
    BY <2>1, <2>2
<1>9. CASE GetReceipt(t)
  <2>1. CASE Retry(t) /\ UNCHANGED <<lock, provider_vars>>
    <3>1. PICK u \in Task : To(u) /\ u.pc = "check"
      BY <1>2, <2>1
    <3>. QED
      BY <1>9, <2>1, <3>1 DEF GetReceipt, SenderGoesOn, Holding, provider_vars, chain_vars, To
  <2>2. CASE ~(Retry(t) /\ UNCHANGED <<lock, provider_vars>>)
    <3>1. PICK u \in Task : To(u) /\ ((u.pc = "done" /\ t.key \in mined) \/ u.pc = "error")
      BY <1>1, <1>9, <2>2 DEF GetReceipt
    <3>. QED
      BY <1>9, <2>2, <3>1 DEF GetReceipt, SenderEnds, Holding, chain_vars, To
  <2>. QED
    BY <2>1, <2>2
<1>. QED
  BY <1>3, <1>5, <1>6, <1>7, <1>8, <1>9 DEF SenderStep, To

-----------------------------------------------------------------------------
(* The lock and what was sent.                                             *)

LEMMA SenderLocks ==
  ASSUME TypeOK, IInv, Locks, Mined, NEW t \in tasks, SenderStep(t)
  PROVE  Locks' /\ Mined'
<1>1. PICK u \in Task : /\ Moved(t, u) /\ tasks' = (tasks \ {t}) \union {u}
                        /\ SenderStarts(t, u) \/ SenderGoesOn(t, u) \/ SenderEnds(t, u)
  BY SenderCases
<1>2. /\ u.key = t.key /\ t.key \in Key /\ t.key.net \in Networks /\ mined' = mined
      /\ lock \in [Networks -> Key \union {Nobody}] /\ Nobody \notin Key
      /\ \A v \in tasks : v.key \in Key /\ v.key.net \in Networks
  BY <1>1, SenderCases, Constants DEF Moved, TypeOK, Task, Key
<1>3. \A v \in tasks : v.key = t.key => v = t
  BY DEF IInv, Ends
<1>4. \A v \in tasks \ {t} : Holding(v) => v.key # t.key /\ lock[v.key.net] = v.key
  BY <1>3 DEF Locks
<1>5. CASE SenderStarts(t, u)
  <2>1. \A v \in tasks \ {t} : Holding(v) => v.key.net # t.key.net
    BY <1>2, <1>4, <1>5 DEF SenderStarts, Free
  <2>2. Locks'
    BY <1>1, <1>2, <1>4, <1>5, <2>1 DEF SenderStarts, Locks, Holding
  <2>3. Mined'
    BY <1>1, <1>2, <1>5 DEF SenderStarts, Mined
  <2>. QED
    BY <2>2, <2>3
<1>6. CASE SenderGoesOn(t, u)
  <2>1. Locks'
    BY <1>1, <1>2, <1>4, <1>6 DEF SenderGoesOn, Locks, Holding
  <2>2. u.pc # "start" /\ u.pc # "done"
    BY <1>6 DEF SenderGoesOn, Holding
  <2>3. mempool' \subseteq mempool \union ({t.key} \ mined)
    BY <1>6 DEF SenderGoesOn
  <2>4. Mined'
    BY <1>1, <1>2, <2>2, <2>3 DEF Mined
  <2>. QED
    BY <2>1, <2>4
<1>7. CASE SenderEnds(t, u)
  <2>1. \A v \in tasks \ {t} : Holding(v) => v.key.net # t.key.net
    BY <1>2, <1>4, <1>7 DEF SenderEnds, Free, Locks
  <2>2. lock' = [lock EXCEPT ![t.key.net] = Nobody] /\ ~Holding(u) /\ u.pc # "start"
    BY <1>7 DEF SenderEnds, Release, Holding
  <2>3. Locks'
    BY <1>1, <1>2, <1>4, <2>1, <2>2 DEF Locks, Holding
  <2>4. Mined'
    BY <1>1, <1>2, <1>7, <2>2 DEF SenderEnds, Mined
  <2>. QED
    BY <2>3, <2>4
<1>. QED
  BY <1>1, <1>5, <1>6, <1>7

LEMMA MineLocks ==
  ASSUME TypeOK, IInv, Locks, Mined, NEW t \in tasks, Mine(t)
  PROVE  Locks' /\ Mined'
<1>1. /\ t.key \in mempool /\ mempool' = mempool \ {t.key} /\ mined' = mined \union {t.key}
      /\ UNCHANGED <<tasks, lock>>
  BY DEF Mine
<1>. QED
  BY <1>1 DEF Locks, Mined, Holding

(* What the loop does to pending batches: they keep their transactions, or *)
(* are gone, and a new sender has yet to start.                            *)
LEMMA LoopKeeps ==
  ASSUME TypeOK, LoopStep
  PROVE  /\ UNCHANGED <<trigger, num_tx_in_progress, lock, chain_vars>>
         /\ tasks \subseteq tasks' /\ \A u \in tasks' \ tasks : u.pc = "start"
         /\ \A n \in Networks : \A b \in Pending(n)' :
              \E a \in Pending(n) : a.key = b.key /\ a.tx = b.tx
<1>1. UNCHANGED <<trigger, num_tx_in_progress, lock, chain_vars>>
  BY DEF LoopStep, RecvSignature, InsertReporterSignature, ClearBatches, GiveIndexBack, AwaitTasks,
         TasksDone, trigger_vars, provider_vars
<1>2. CASE in_progress' \subseteq in_progress /\ tasks' = tasks
  BY <1>1, <1>2 DEF Pending, Running
<1>3. CASE InsertReporterSignature
  <2>. DEFINE With(b) == [b EXCEPT !.signers = @ \union {loop.msg[1].reporter}]
  <2>1. ASSUME NEW b \in in_progress, NEW c, c.key = b.key, c.tx = b.tx,
               \/ /\ in_progress' \subseteq in_progress
                  /\ tasks' = tasks \union {c} /\ c.pc = "start"
               \/ in_progress' \subseteq in_progress \union {c} /\ tasks' = tasks
        PROVE  /\ tasks \subseteq tasks' /\ \A u \in tasks' \ tasks : u.pc = "start"
               /\ \A n \in Networks : \A d \in Pending(n)' :
                    \E a \in Pending(n) : a.key = d.key /\ a.tx = d.tx
    BY <2>1 DEF Pending, Running
  <2>2. ASSUME NEW b \in in_progress,
               IF QuorumReached(With(b).signers)
               THEN TakeSignatures(With(b)) /\ SpawnSender(With(b))
               ELSE in_progress' = (in_progress \ {b}) \union {With(b)} /\ UNCHANGED tasks
        PROVE  /\ tasks \subseteq tasks' /\ \A u \in tasks' \ tasks : u.pc = "start"
               /\ \A n \in Networks : \A d \in Pending(n)' :
                    \E a \in Pending(n) : a.key = d.key /\ a.tx = d.tx
    <3>1. With(b).key = b.key /\ With(b).tx = b.tx
      BY DEF TypeOK, Batch
    <3>. HIDE DEF With
    <3>2. CASE QuorumReached(With(b).signers)
      <4>. DEFINE c == [key |-> With(b).key, tx |-> With(b).tx, signers |-> With(b).signers,
                        retries |-> 0, pc |-> "start"]
      <4>1. c.key = b.key /\ c.tx = b.tx /\ c.pc = "start"
        BY <3>1
      <4>2. in_progress' \subseteq in_progress /\ tasks' = tasks \union {c}
        BY <2>2, <3>2 DEF TakeSignatures, SpawnSender
      <4>. HIDE DEF c
      <4>. QED
        BY <2>1, <4>1, <4>2
    <3>3. CASE ~QuorumReached(With(b).signers)
      <4>1. in_progress' \subseteq in_progress \union {With(b)} /\ tasks' = tasks
        BY <2>2, <3>3
      <4>. QED
        BY <2>1, <3>1, <4>1
    <3>. QED
      BY <3>2, <3>3
  <2>. QED
    BY <1>1, <1>2, <1>3, <2>2 DEF InsertReporterSignature
<1>. QED
  BY <1>2, <1>3
     DEF LoopStep, RecvSignature, ClearBatches, GiveIndexBack, AwaitTasks, TasksDone, batch_vars

LEMMA NextLocks ==
  ASSUME TypeOK, IInv, Locks, Mined, [Next]_vars
  PROVE  Locks' /\ Mined'
<1>1. ASSUME UNCHANGED <<lock, mempool, mined>>, tasks \subseteq tasks',
             \A u \in tasks' \ tasks : u.pc = "start"
      PROVE  Locks' /\ Mined'
  BY <1>1 DEF Locks, Mined, Holding
<1>2. CASE UNCHANGED <<lock, mempool, mined, tasks>>
  BY <1>1, <1>2
<1>3. NextSlot \/ (\E r \in Reporters, k \in announced : Answer(r, k)) \/ TriggerStep \/ UNCHANGED vars
        => UNCHANGED <<lock, mempool, mined, tasks>>
  BY DEF NextSlot, Answer, vars, chain_vars, TriggerStep, TakeBatch, AllNetworksDone,
         SerializeUpdates, CreateSafeTx, SendToKafka, InsertNewInProcessBatch, CountTx
<1>4. CASE LoopStep
  BY <1>1, <1>4, LoopKeeps DEF chain_vars
<1>. QED
  BY <1>2, <1>3, <1>4, SenderLocks, MineLocks DEF Next

-----------------------------------------------------------------------------
(* The numbers.                                                            *)

(* A transaction that has failed stays failed.                             *)
LEMMA NoFailureKept ==
  ASSUME TypeOK, Mined, [Next]_vars, NEW n \in Networks, NoFailure(n)'
  PROVE  NoFailure(n)
<1>1. CASE tasks \subseteq tasks' /\ UNCHANGED <<mined, executed>>
  BY <1>1 DEF NoFailure, Failed
<1>2. NextSlot \/ (\E r \in Reporters, k \in announced : Answer(r, k)) \/ TriggerStep \/ LoopStep
        \/ UNCHANGED vars => tasks \subseteq tasks' /\ UNCHANGED <<mined, executed>>
  <2>1. LoopStep => tasks \subseteq tasks' /\ UNCHANGED <<mined, executed>>
    BY LoopKeeps DEF chain_vars
  <2>. QED
    BY <2>1 DEF NextSlot, Answer, vars, chain_vars, TriggerStep, TakeBatch, AllNetworksDone,
                SerializeUpdates, CreateSafeTx, SendToKafka, InsertNewInProcessBatch, CountTx
<1>3. ASSUME NEW t \in tasks, Mine(t)
      PROVE  NoFailure(n)
  <2>1. /\ t.key \notin mined /\ mined' = mined \union {t.key} /\ tasks' = tasks
        /\ executed' \subseteq executed \union {t.key}
    BY <1>3 DEF Mine, Mined
  <2>. QED
    BY <2>1 DEF NoFailure, Failed
<1>4. ASSUME NEW t \in tasks, SenderStep(t)
      PROVE  NoFailure(n)
  <2>1. PICK u \in Task : /\ u.key = t.key /\ tasks' = (tasks \ {t}) \union {u}
                          /\ t.pc = "start" \/ Holding(t)
    BY <1>4, SenderCases DEF Moved, SenderStarts, SenderGoesOn, SenderEnds
  <2>2. UNCHANGED <<mined, executed>>
    BY <1>4, SenderCases
  <2>3. t.key.net = n => ~Failed(t)
    BY <2>1, <2>2 DEF NoFailure, Failed, Holding
  <2>. QED
    BY <2>1, <2>2, <2>3 DEF NoFailure, Failed
<1>. QED
  BY <1>1, <1>2, <1>3, <1>4 DEF Next

LEMMA NumberedKept ==
  ASSUME TypeOK, TypeOK', NEW n \in Networks, Numbered(n),
         UNCHANGED trigger, executed \subseteq executed', safe_nonce'[n] = safe_nonce[n],
         Past(n)' >= Past(n),
         \A b \in Pending(n)' : \E a \in Pending(n) : a.key = b.key /\ a.tx = b.tx
  PROVE  Numbered(n)'
<1>1. /\ \A b \in Pending(n) : b.tx.nonce \in Nat
      /\ Past(n) \in Int /\ Past(n)' \in Int /\ trigger.tx.nonce \in Nat
  <2>1. trigger.tx.nonce \in Nat
    BY DEF TypeOK, Tx
  <2>2. Past(n)' \in Int
    BY CounterTypesAfter
  <2>. QED
    BY <2>1, <2>2, PendingTypes, CounterTypes
<1>. QED
  BY <1>1 DEF Numbered, CountedNext, HasNonce

LEMMA SenderNumbered ==
  ASSUME TypeOK, TypeOK', IInv, Locks, Mined, NEW t \in tasks, SenderStep(t),
         NEW n \in Networks, NoFailure(n)', Numbered(n)
  PROVE  Numbered(n)'
<1>1. PICK u \in Task : /\ Moved(t, u) /\ tasks' = (tasks \ {t}) \union {u}
                        /\ SenderStarts(t, u) \/ SenderGoesOn(t, u) \/ SenderEnds(t, u)
  BY SenderCases
<1>2. UNCHANGED <<trigger, in_progress, safe_nonce, mined, executed>>
  BY SenderCases DEF sender_frame, trigger_vars, batch_vars
<1>3. /\ u.key = t.key /\ u.tx = t.tx /\ u \in tasks'
      /\ t.key.net \in Networks /\ Nobody \notin executed /\ executed \subseteq mined
      /\ lock \in [Networks -> Key \union {Nobody}] /\ num_tx_in_progress \in [Networks -> Nat]
  BY <1>1, Constants DEF Moved, TypeOK, Task, Key
<1>4. \A b \in Pending(n)' : \E a \in Pending(n) : a.key = b.key /\ a.tx = b.tx
  <2>1. t \in Running
    BY <1>1 DEF SenderStarts, SenderGoesOn, SenderEnds, Holding, Running
  <2>. QED
    BY <1>1, <1>2, <1>3, <2>1 DEF Pending, Running
<1>5. num_tx_in_progress'[n] - Ahead(n)' >= num_tx_in_progress[n] - Ahead(n)
  <2>1. CASE t.key.net # n
    <3>1. lock'[n] = lock[n] /\ num_tx_in_progress'[n] = num_tx_in_progress[n]
      BY <1>1, <1>3, <2>1 DEF SenderStarts, SenderGoesOn, SenderEnds, DecNumTx, Release
    <3>2. Ahead(n)' = Ahead(n)
      BY <1>2, <3>1 DEF Ahead
    <3>. QED
      BY <3>1, <3>2, CounterTypes
  <2>2. CASE t.key.net = n /\ SenderStarts(t, u)
    <3>1. t.key \notin executed
      BY <1>3, <2>2 DEF SenderStarts, Mined, IInv, Ends
    <3>2. lock[n] = Nobody /\ lock'[n] = t.key /\ num_tx_in_progress'[n] = num_tx_in_progress[n]
      BY <1>3, <2>2 DEF SenderStarts, Free
    <3>3. Ahead(n) = 0 /\ Ahead(n)' = 0
      BY <1>2, <1>3, <3>1, <3>2 DEF Ahead
    <3>. QED
      BY <3>2, <3>3, CounterTypes
  <2>3. CASE SenderGoesOn(t, u)
    <3>1. lock' = lock /\ num_tx_in_progress' = num_tx_in_progress
      BY <2>3 DEF SenderGoesOn
    <3>2. Ahead(n)' = Ahead(n)
      BY <1>2, <3>1 DEF Ahead
    <3>. QED
      BY <3>1, <3>2, CounterTypes
  <2>4. CASE t.key.net = n /\ SenderEnds(t, u)
    <3>1. ~Failed(u)'
      BY <1>3, <2>4 DEF NoFailure
    <3>2. Holding(t) /\ t.key \in executed
      BY <1>2, <1>3, <2>4, <3>1 DEF SenderEnds, Failed
    <3>3. lock[n] = t.key /\ lock'[n] = Nobody
      BY <1>3, <2>4, <3>2 DEF Locks, SenderEnds, Release
    <3>4. Ahead(n) = 1 /\ Ahead(n)' = 0
      BY <1>2, <1>3, <3>2, <3>3 DEF Ahead
    <3>5. num_tx_in_progress'[n] = Decrement(num_tx_in_progress[n])
      BY <1>3, <2>4 DEF SenderEnds, DecNumTx
    <3>. QED
      BY <3>4, <3>5, CounterTypes DEF Decrement
  <2>. QED
    BY <1>1, <2>1, <2>2, <2>3, <2>4
<1>6. Past(n)' >= Past(n)
  <2>1. /\ safe_nonce[n] \in Nat /\ num_tx_in_progress[n] \in Nat /\ Ahead(n) \in 0..1
        /\ num_tx_in_progress'[n] \in Nat /\ Ahead(n)' \in 0..1
    BY CounterTypes, CounterTypesAfter
  <2>. QED
    BY <1>2, <1>5, <2>1 DEF Past
<1>. QED
  BY <1>2, <1>4, <1>6, NumberedKept

LEMMA MineNumbered ==
  ASSUME TypeOK, TypeOK', IInv, Locks, Mined, NEW t \in tasks, Mine(t),
         NEW n \in Networks, NoFailure(n)', Numbered(n)
  PROVE  Numbered(n)'
<1>1. /\ t.key \notin mined /\ t.key \notin executed /\ t.key \in Key /\ t.key # Nobody
      /\ mined' = mined \union {t.key}
      /\ UNCHANGED <<trigger, in_progress, tasks, lock, num_tx_in_progress>>
      /\ \/ /\ t.tx.nonce = safe_nonce[t.key.net]
            /\ safe_nonce' = [safe_nonce EXCEPT ![t.key.net] = @ + 1]
            /\ executed' = executed \union {t.key}
         \/ UNCHANGED <<safe_nonce, executed>>
  BY Constants DEF Mine, Mined, TypeOK, Task, trigger_vars, batch_vars, provider_vars
<1>2. Pending(n)' = Pending(n)
  BY <1>1 DEF Pending, Running
<1>3. safe_nonce \in [Networks -> Nat]
  BY DEF TypeOK
<1>4. CASE t.key.net # n
  <2>1. lock[n] # t.key
    BY <1>1, <1>4 DEF Locks
  <2>2. safe_nonce'[n] = safe_nonce[n] /\ executed \subseteq executed' /\ Ahead(n)' = Ahead(n)
    BY <1>1, <1>3, <1>4, <2>1 DEF Ahead
  <2>3. Past(n)' = Past(n)
    BY <1>1, <2>2 DEF Past
  <2>. QED
    BY <1>1, <1>2, <2>2, <2>3, CounterTypes, NumberedKept
<1>5. CASE t.key.net = n
  <2>1. t.pc \notin {"error", "failed"} /\ t.key \in executed'
    BY <1>1, <1>5 DEF NoFailure, Failed
  <2>2. /\ t.tx.nonce = safe_nonce[n] /\ safe_nonce'[n] = safe_nonce[n] + 1
        /\ executed' = executed \union {t.key}
    BY <1>1, <1>3, <1>5, <2>1
  <2>3. Holding(t)
    <3>1. t.key \in mempool /\ \A v \in tasks : v.key = t.key => v = t
      BY DEF Mine, IInv, Ends
    <3>2. t.pc # "start" /\ t.pc # "done"
      BY <1>1, <3>1 DEF Mined
    <3>. QED
      BY <2>1, <3>2 DEF TypeOK, Task, Holding
  <2>4. lock[n] = t.key /\ t \in Pending(n)
    BY <1>5, <2>3 DEF Locks, Holding, Pending, Running
  <2>5. Ahead(n) = 0 /\ Ahead(n)' = 1
    BY <1>1, <2>2, <2>4 DEF Ahead
  <2>6. /\ safe_nonce[n] \in Nat /\ num_tx_in_progress[n] \in Nat
        /\ Past(n) = safe_nonce[n] + num_tx_in_progress[n] - 0
        /\ Past(n)' = safe_nonce'[n] + num_tx_in_progress[n] - 1
    BY <1>1, <2>5, CounterTypes DEF Past
  <2>7. Past(n)' = Past(n)
    BY <2>2, <2>6
  <2>8. ASSUME NEW b \in Pending(n), b.key # t.key
        PROVE  b.tx.nonce # t.tx.nonce
    <3>1. b.key.height # t.key.height
      BY <2>4, <2>8, PendingTypes DEF Key
    <3>2. /\ b.key.height \in Nat /\ t.key.height \in Nat
          /\ b.tx.nonce \in Nat /\ t.tx.nonce \in Nat
      BY <2>4, PendingTypes
    <3>. QED
      BY <2>4, <3>1, <3>2 DEF Numbered
  <2>9. \A b \in Pending(n) : b.key \in executed' \/ b.tx.nonce >= safe_nonce'[n]
    BY <2>2, <2>6, <2>8, PendingTypes DEF Numbered
  <2>10. HasNonce(n) /\ trigger.pc # "count" => trigger.tx.nonce >= safe_nonce'[n]
    <3>1. t.key \in Keys
      BY DEF Keys
    <3>2. HasNonce(n) /\ trigger.pc # "count" => trigger.key # t.key
      BY <3>1 DEF HasNonce, Numbering, IInv, Fresh
    <3>3. trigger.tx.nonce \in Nat
      BY DEF TypeOK, Tx
    <3>. QED
      BY <2>2, <2>4, <2>6, <3>2, <3>3, PendingTypes DEF Numbered
  <2>. QED
    BY <1>1, <1>2, <2>7, <2>9, <2>10 DEF Numbered, HasNonce, CountedNext
<1>. QED
  BY <1>4, <1>5

(* Whoever takes a nonce holds the lock, so that no transaction is between *)
(* the two counters.                                                       *)
LEMMA TriggerNumbered ==
  ASSUME TypeOK, TypeOK', IInv, TriggerStep, NEW n \in Networks, Numbered(n)
  PROVE  Numbered(n)'
<1>. DEFINE k == trigger.key
<1>1. UNCHANGED <<tasks, lock, safe_nonce, executed>> /\ Ahead(n)' = Ahead(n)
  BY DEF TriggerStep, TakeBatch, AllNetworksDone, SerializeUpdates, CreateSafeTx, SendToKafka,
         InsertNewInProcessBatch, CountTx, chain_vars, Ahead
<1>2. /\ \A b \in Pending(n) : b.tx.nonce \in Nat /\ b.key.net = n /\ b.key \in Keys
      /\ Past(n) \in Int /\ trigger \in Trigger /\ trigger.tx.nonce \in Nat
  BY PendingTypes, CounterTypes DEF TypeOK, Trigger, Tx
<1>3. ASSUME UNCHANGED <<in_progress, num_tx_in_progress>>
      PROVE  Past(n)' = Past(n) /\ Pending(n)' = Pending(n)
  BY <1>1, <1>3 DEF Past, Pending, Running
<1>4. ASSUME UNCHANGED <<in_progress, num_tx_in_progress>>, ~HasNonce(n)',
             trigger.pc = "count" => k.net # n
      PROVE  Numbered(n)'
  BY <1>1, <1>2, <1>3, <1>4 DEF Numbered, CountedNext
<1>5. CASE TakeBatch \/ AllNetworksDone \/ \E m \in Networks : SerializeUpdates(m)
  <2>1. trigger'.pc \in {"idle", "next", "nonce"} /\ trigger.pc # "count"
    <3>1. TakeBatch => trigger.pc = "idle" /\ trigger'.pc = "next"
      BY DEF TakeBatch, Idle, TypeOK
    <3>2. AllNetworksDone => trigger.pc = "next" /\ trigger'.pc = "idle"
      BY DEF AllNetworksDone, Idle
    <3>3. ASSUME NEW m \in Networks, SerializeUpdates(m)
          PROVE  trigger'.pc \in {"idle", "next", "nonce"} /\ trigger.pc # "count"
      BY <3>3 DEF SerializeUpdates, TypeOK
    <3>. QED
      BY <1>5, <3>1, <3>2, <3>3
  <2>2. UNCHANGED <<in_progress, num_tx_in_progress>>
    BY <1>5 DEF TakeBatch, AllNetworksDone, SerializeUpdates, batch_vars, provider_vars
  <2>. QED
    BY <1>4, <2>1, <2>2 DEF HasNonce
<1>6. CASE CreateSafeTx
  <2>1. trigger.pc = "nonce" /\ Free(k.net) /\ UNCHANGED <<in_progress, num_tx_in_progress>>
    BY <1>6 DEF CreateSafeTx, batch_vars, provider_vars
  <2>2. CASE trigger' = Idle
    BY <1>4, <2>1, <2>2 DEF Idle, HasNonce
  <2>3. CASE trigger' = [trigger EXCEPT !.pc = "send", !.tx.nonce = NextNonce(k.net)]
    <3>1. trigger'.pc = "send" /\ trigger'.key = k /\ trigger'.tx.nonce = NextNonce(k.net)
      BY <1>2, <2>3 DEF Trigger, Tx
    <3>2. CASE k.net # n
      BY <1>4, <2>1, <3>1, <3>2 DEF HasNonce
    <3>3. CASE k.net = n
      <4>1. /\ trigger'.tx.nonce = Past(n) /\ trigger'.tx.nonce >= safe_nonce[n]
        BY <2>1, <3>1, <3>3, CounterTypes DEF Past, NextNonce
      <4>2. \A b \in Pending(n) : b.key # k /\ b.tx.nonce < Past(n)
        BY <1>2, <2>1 DEF Numbered, CountedNext, IInv, Fresh, Numbering
      <4>. QED
        BY <1>1, <1>2, <1>3, <2>1, <3>1, <4>1, <4>2 DEF Numbered, CountedNext
    <3>. QED
      BY <3>2, <3>3
  <2>. QED
    BY <1>6, <2>2, <2>3 DEF CreateSafeTx
<1>7. CASE SendToKafka
  <2>1. /\ trigger.pc = "send" /\ UNCHANGED <<in_progress, num_tx_in_progress>>
        /\ trigger'.pc \in {"insert", "count"} /\ trigger'.key = k /\ trigger'.tx = trigger.tx
    BY <1>2, <1>7 DEF SendToKafka, batch_vars, provider_vars, Trigger
  <2>2. \A b \in Pending(n) : b.tx.nonce < Past(n)
    BY <2>1 DEF Numbered, CountedNext
  <2>. QED
    BY <1>1, <1>2, <1>3, <2>1, <2>2 DEF Numbered, CountedNext, HasNonce
<1>8. CASE InsertNewInProcessBatch
  <2>. DEFINE b == [key |-> k, tx |-> trigger.tx, signers |-> {}]
  <2>1. /\ trigger.pc = "insert" /\ trigger'.pc = "count" /\ trigger'.key = k
        /\ trigger'.tx = trigger.tx /\ UNCHANGED num_tx_in_progress
    BY <1>2, <1>8 DEF InsertNewInProcessBatch, provider_vars, Trigger
  <2>2. Past(n)' = Past(n) /\ b.key = k /\ b.tx = trigger.tx
    BY <1>1, <2>1 DEF Past
  <2>3. in_progress' \subseteq in_progress \union {b}
    BY <1>8 DEF InsertNewInProcessBatch, batch_vars
  <2>4. k \notin Keys /\ k.height = trigger.height /\ \A c \in Keys : c.height <= trigger.height
    BY <2>1 DEF IInv, Fresh, Numbering
  <2>. HIDE DEF b
  <2>5. \A c \in Pending(n)' : c \in Pending(n) \/ (c = b /\ k.net = n)
    BY <1>1, <2>2, <2>3 DEF Pending, Running
  <2>6. \A c \in Pending(n) : /\ c.key # k /\ c.tx.nonce < Past(n)
                              /\ c.key.height <= k.height /\ c.key.height \in Nat
    BY <1>2, <2>1, <2>4, PendingTypes DEF Numbered, CountedNext
  <2>7. k.height \in Nat
    BY <2>4 DEF TypeOK
  <2>8. k.net = n => /\ trigger.tx.nonce <= Past(n) /\ trigger.tx.nonce >= safe_nonce[n]
                     /\ \A c \in Pending(n) : c.tx.nonce < trigger.tx.nonce
    BY <2>1, <2>6 DEF Numbered, HasNonce
  <2>9. \A c, d \in Pending(n)' : c.key.height < d.key.height => c.tx.nonce < d.tx.nonce
    BY <2>2, <2>5, <2>6, <2>7, <2>8 DEF Numbered
  <2>10. \A c \in Pending(n)' : c.key \in executed \/ c.tx.nonce >= safe_nonce[n]
    BY <2>2, <2>5, <2>8 DEF Numbered
  <2>. QED
    BY <1>1, <2>1, <2>2, <2>5, <2>6, <2>8, <2>9, <2>10 DEF Numbered, HasNonce, CountedNext
<1>9. CASE CountTx
  <2>1. trigger.pc = "count" /\ trigger'.pc = "next" /\ UNCHANGED in_progress
    BY <1>2, <1>9 DEF CountTx, batch_vars, Trigger
  <2>2. /\ num_tx_in_progress' = [num_tx_in_progress EXCEPT ![k.net] = @ + 1]
        /\ num_tx_in_progress \in [Networks -> Nat]
    BY <1>9 DEF CountTx, TypeOK
  <2>3. Pending(n)' = Pending(n)
    BY <1>1, <2>1 DEF Pending, Running
  <2>4. CASE k.net # n
    <3>1. num_tx_in_progress'[n] = num_tx_in_progress[n]
      BY <2>2, <2>4
    <3>2. Past(n)' = Past(n)
      BY <1>1, <3>1 DEF Past
    <3>. QED
      BY <1>1, <1>2, <2>1, <2>3, <2>4, <3>2 DEF Numbered, HasNonce, CountedNext
  <2>5. CASE k.net = n
    <3>1. num_tx_in_progress'[n] = num_tx_in_progress[n] + 1
      BY <2>2, <2>5
    <3>2. Past(n)' = Past(n) + 1
      BY <1>1, <3>1, CounterTypes DEF Past
    <3>3. \A b \in Pending(n) : b.tx.nonce < Past(n) \/ b.tx.nonce <= Past(n)
      BY <2>1, <2>5 DEF Numbered, HasNonce, CountedNext
    <3>4. \A b \in Pending(n) : b.tx.nonce < Past(n)'
      BY <1>2, <3>2, <3>3
    <3>. QED
      BY <1>1, <2>1, <2>3, <3>4 DEF Numbered, HasNonce, CountedNext
  <2>. QED
    BY <2>4, <2>5
<1>. QED
  BY <1>5, <1>6, <1>7, <1>8, <1>9 DEF TriggerStep

LEMMA NextNonces ==
  ASSUME TypeOK, TypeOK', IInv, NonceInv, [Next]_vars
  PROVE  NonceInv'
<1>1. Locks /\ Mined /\ Locks' /\ Mined'
  BY NextLocks DEF NonceInv
<1>2. ASSUME NEW n \in Networks, NoFailure(n)'
      PROVE  Numbered(n)'
  <2>1. Numbered(n)
    BY <1>1, <1>2, NoFailureKept DEF NonceInv
  <2>2. ASSUME UNCHANGED <<trigger, safe_nonce, executed, num_tx_in_progress, lock>>,
               \A b \in Pending(n)' : \E a \in Pending(n) : a.key = b.key /\ a.tx = b.tx
        PROVE  Numbered(n)'
    <3>1. Past(n)' = Past(n)
      BY <2>2 DEF Past, Ahead
    <3>. QED
      BY <2>1, <2>2, <3>1, CounterTypes, NumberedKept
  <2>3. CASE NextSlot \/ (\E r \in Reporters, k \in announced : Answer(r, k)) \/ UNCHANGED vars
    <3>1. UNCHANGED <<trigger, safe_nonce, executed, num_tx_in_progress, lock, in_progress, tasks>>
      BY <2>3 DEF NextSlot, Answer, vars, trigger_vars, batch_vars, provider_vars, chain_vars
    <3>2. Pending(n)' = Pending(n)
      BY <3>1 DEF Pending, Running
    <3>. QED
      BY <2>2, <3>1, <3>2
  <2>4. CASE LoopStep
    BY <2>2, <2>4, LoopKeeps DEF chain_vars
  <2>. QED
    BY <1>1, <1>2, <2>1, <2>3, <2>4, SenderNumbered, MineNumbered, TriggerNumbered DEF Next
<1>. QED
  BY <1>1, <1>2 DEF NonceInv

(* As long as no transaction of a network has failed, its batches that     *)
(* wait for signatures or are being sent have nonces in the order of their *)
(* heights, and none below the Safe's unless it was executed               *)
(* (create_safe_tx, dec_num_tx_in_progress).                               *)
THEOREM NoncesInSequenceHolds == Spec => []NoncesInSequence
<1>1. Init => NonceInv
  <2>. SUFFICES ASSUME Init PROVE NonceInv
    OBVIOUS
  <2>1. /\ tasks = {} /\ mempool = {} /\ mined = {} /\ trigger.pc = "idle"
        /\ \A n \in Networks : lock[n] = Nobody /\ Pending(n) = {}
    BY DEF Init, Idle, Pending, Running
  <2>. QED
    BY <2>1 DEF NonceInv, Locks, Mined, Numbered, HasNonce
<1>2. TypeOK /\ TypeOK' /\ IInv /\ NonceInv /\ [Next]_vars => NonceInv'
  BY NextNonces
<1>3. NonceInv => NoncesInSequence
  BY DEF NonceInv, NoncesInSequence, NoFailure, Numbered
<1>. QED
  BY <1>1, <1>2, <1>3, TypeCorrect, Inductive, PTL DEF Spec
=============================================================================
