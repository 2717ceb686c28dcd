------------------------ MODULE SecondRound_proofs ------------------------
(***************************************************************************)
(* The second round for any number of networks, reporters and batches, any *)
(* quorum, retention and limit of retries: its types, that a quorum stands *)
(* behind every sender, that each batch ends once and in time, and that    *)
(* every pending batch is counted.                                         *)
(*                                                                         *)
(* TypeOK is inductive.  Signed says that everything on the way from an    *)
(* answer to a sender carries signatures of reporters that answered.       *)
(* IInv has three parts: Fresh, that the batches which were numbered are   *)
(* older than those that votes_result_sender has still to number, so that  *)
(* it never enters a key a second time; Ends, where the one copy of a key  *)
(* can be; and OldBatchesAreCleared, which needs the order of the backlog. *)
(* Counted adds to PendingAreCounted that the sets it counts are finite.   *)
(***************************************************************************)
EXTENDS SecondRound, SequenceTheorems, FiniteSetTheorems, TLAPS

Signature == [reporter : Reporters, key : Key]
Trigger == [pc : {"idle", "next", "nonce", "send", "insert", "count"}, height : Nat,
            todo : SUBSET Networks, key : Key \union {Nobody}, tx : Tx]
Loop == [pc : {"select", "signature", "expire", "drain"}, armed : Nat,
         msg : Seq(Signature), expired : SUBSET Key]

LEMMA Constants == Retention \in Nat /\ MaxBatches \in Nat /\ MaxClock \in Nat /\ Nobody \notin Key
BY SecondRoundAssumption DEF SecondRoundAssumption, Key

(* The places of what is left of a sequence, and of what is added.         *)
LEMMA TailOf ==
  ASSUME NEW S, NEW q \in Seq(S), q # <<>>
  PROVE  /\ Head(q) = q[1] /\ 1 \in DOMAIN q
         /\ \A i \in DOMAIN Tail(q) :
              i \in Nat /\ i > 0 /\ i + 1 \in DOMAIN q /\ Tail(q)[i] = q[i + 1]
<1>1. Len(q) \in Nat \ {0} /\ DOMAIN q = 1..Len(q)
  OBVIOUS
<1>2. Tail(q) \in Seq(S) /\ Len(Tail(q)) = Len(q) - 1
  BY HeadTailProperties
<1>3. DOMAIN Tail(q) = 1..(Len(q) - 1)
  BY <1>2
<1>4. \A i \in 1..(Len(q) - 1) : Tail(q)[i] = q[i + 1]
  BY <1>2, HeadTailProperties
<1>. QED
  BY <1>1, <1>3, <1>4

LEMMA PushedTo ==
  ASSUME NEW S, NEW q \in Seq(S), NEW x \in S
  PROVE  LET p == Append(q, x)
         IN  /\ Len(q) \in Nat /\ DOMAIN p = DOMAIN q \union {Len(q) + 1}
             /\ p[Len(q) + 1] = x
             /\ \A i \in DOMAIN q : i \in 1..Len(q) /\ p[i] = q[i]
<1>1. Len(q) \in Nat /\ DOMAIN q = 1..Len(q)
  OBVIOUS
<1>2. /\ Append(q, x) \in Seq(S) /\ Len(Append(q, x)) = Len(q) + 1
      /\ \A i \in 1..Len(q) : Append(q, x)[i] = q[i]
      /\ Append(q, x)[Len(q) + 1] = x
  BY AppendProperties
<1>3. DOMAIN Append(q, x) = 1..(Len(q) + 1)
  BY <1>2
<1>4. 1..(Len(q) + 1) = 1..Len(q) \union {Len(q) + 1}
  BY <1>1
<1>. QED
  BY <1>1, <1>2, <1>3, <1>4

LEMMA SuffixOf ==
  ASSUME NEW S, NEW q \in Seq(S), NEW n \in Nat, n <= Len(q)
  PROVE  LET p == SubSeq(q, n + 1, Len(q))
         IN  /\ DOMAIN p = 1..(Len(q) - n)
             /\ \A i \in DOMAIN p : n + i \in DOMAIN q /\ p[i] = q[n + i]
<1>. DEFINE p == SubSeq(q, n + 1, Len(q))
<1>1. Len(q) \in Nat /\ DOMAIN q = 1..Len(q) /\ \A i \in (n + 1)..Len(q) : q[i] \in S
  OBVIOUS
<1>2. /\ p \in Seq(S)
      /\ Len(p) = IF n + 1 <= Len(q) THEN Len(q) - (n + 1) + 1 ELSE 0
      /\ \A i \in 1..(Len(q) - (n + 1) + 1) : p[i] = q[n + 1 + i - 1]
  BY <1>1, SubSeqProperties
<1>. HIDE DEF p
<1>3. Len(p) = Len(q) - n /\ n \in Nat /\ n <= Len(q)
  <2>1. CASE n + 1 <= Len(q)
    BY <1>1, <1>2, <2>1
  <2>2. CASE n = Len(q)
    BY <1>1, <1>2, <2>2
  <2>3. \A l \in Nat : n <= l => n + 1 <= l \/ n = l
    OBVIOUS
  <2>. QED
    BY <1>1, <2>1, <2>2, <2>3
<1>4. DOMAIN p = 1..(Len(q) - n)
  BY <1>2, <1>3
<1>5. ASSUME NEW i \in 1..(Len(q) - n)
      PROVE  n + i \in 1..Len(q) /\ p[i] = q[n + i]
  <2>1. n + 1 + i - 1 = n + i /\ i \in 1..(Len(q) - (n + 1) + 1) /\ n + i \in 1..Len(q)
    BY <1>1, <1>3
  <2>2. p[i] = q[n + 1 + i - 1]
    BY <1>2, <2>1
  <2>. QED
    BY <2>1, <2>2
<1>. QED
  BY <1>1, <1>4, <1>5 DEF p

(* Records with some fields changed.                                       *)
LEMMA TxWith ==
  ASSUME NEW tx \in Tx, NEW i \in Nat
  PROVE  [tx EXCEPT !.rb = i] \in Tx /\ [tx EXCEPT !.nonce = i] \in Tx
BY DEF Tx

LEMMA TriggerWith ==
  ASSUME NEW t \in Trigger, NEW tx \in Tx, NEW k \in Key, NEW todo \in SUBSET Networks,
         NEW pc \in {"idle", "next", "nonce", "send", "insert", "count"}
  PROVE  [t EXCEPT !.pc = pc, !.todo = todo, !.key = k, !.tx = tx] \in Trigger
BY DEF Trigger

LEMMA BatchWith ==
  ASSUME NEW b \in Batch, NEW r \in Reporters
  PROVE  [b EXCEPT !.signers = @ \union {r}] \in Batch
<1>1. b.signers \union {r} \in SUBSET Reporters
  BY DEF Batch
<1>. QED
  BY <1>1 DEF Batch

LEMMA NotBoth == ASSUME NEW b \in Batch, NEW t \in Task PROVE b # t
<1>1. DOMAIN b = {"key", "tx", "signers"}
  BY DEF Batch
<1>2. DOMAIN t = {"key", "tx", "signers", "retries", "pc"}
  BY DEF Task
<1>3. "pc" \notin {"key", "tx", "signers"}
  OBVIOUS
<1>. QED
  BY <1>1, <1>2, <1>3

LEMMA TaskWith ==
  ASSUME NEW t \in Task, NEW i \in Nat
  PROVE  /\ [t EXCEPT !.pc = "check", !.retries = i] \in Task
         /\ [t EXCEPT !.pc = "check", !.retries = i].key = t.key
         /\ [t EXCEPT !.pc = "check", !.retries = i].tx = t.tx
         /\ [t EXCEPT !.pc = "check", !.retries = i].signers = t.signers
BY DEF Task

LEMMA CountersWith ==
  ASSUME NEW c \in [Networks -> Nat], NEW n \in Networks
  PROVE  /\ [c EXCEPT ![n] = @ + 1] \in [Networks -> Nat]
         /\ [c EXCEPT ![n] = Decrement(@)] \in [Networks -> Nat]
<1>1. c[n] \in Nat /\ c[n] + 1 \in Nat /\ Decrement(c[n]) \in Nat
  BY DEF Decrement
<1>. QED
  BY <1>1

-----------------------------------------------------------------------------
(* Types.                                                                  *)

LEMMA InitTypes == ASSUME Init PROVE TypeOK
<1>1. trigger \in Trigger /\ trigger.pc = "idle" /\ loop \in Loop /\ loop.pc = "select"
  BY DEF Init, Trigger, Loop, Idle, Select, Tx
<1>2. lock \in [Networks -> Key \union {Nobody}]
  BY DEF Init
<1>3. /\ num_tx_in_progress \in [Networks -> Nat] /\ rb_indices \in [Networks -> Nat]
      /\ safe_nonce \in [Networks -> Nat]
  BY DEF Init
<1>4. batched_votes \in Seq(Nat) /\ backlog \in Seq(Key) /\ signatures \in Seq(Signature)
  BY DEF Init
<1>5. /\ clock \in 0..MaxClock /\ emitted \in 0..MaxBatches
      /\ announced \in SUBSET Key /\ answered \in SUBSET (Reporters \X Key)
      /\ in_progress \in SUBSET Batch /\ tasks \in SUBSET Task
      /\ mempool \in SUBSET Key /\ mined \in SUBSET Key /\ executed \in SUBSET mined
  BY Constants DEF Init
<1>. QED
  BY <1>1, <1>2, <1>3, <1>4, <1>5 DEF TypeOK, Trigger, Loop, Signature

LEMMA EnvironmentTypes ==
  ASSUME TypeOK, NextSlot \/ (\E r \in Reporters, k \in announced : Answer(r, k))
                          \/ (\E t \in tasks : Mine(t))
  PROVE  TypeOK'
<1>1. CASE NextSlot
  <2>1. clock' \in 0..MaxClock /\ clock + 1 \in Nat
    BY <1>1, Constants DEF NextSlot, TypeOK
  <2>2. emitted' \in 0..MaxBatches
    BY <1>1, Constants DEF NextSlot, TypeOK
  <2>3. batched_votes' \in Seq(Nat)
    <3>1. batched_votes \in Seq(Nat)
      BY DEF TypeOK
    <3>. QED
      BY <1>1, <2>1, <3>1, AppendProperties DEF NextSlot
  <2>. QED
    BY <1>1, <2>1, <2>2, <2>3
       DEF NextSlot, TypeOK, batch_vars, loop_vars, provider_vars, chain_vars
<1>2. CASE \E r \in Reporters, k \in announced : Answer(r, k)
  <2>1. PICK r \in Reporters, k \in announced : Answer(r, k)
    BY <1>2
  <2>2. k \in Key /\ [reporter |-> r, key |-> k] \in Signature
    BY DEF TypeOK, Signature
  <2>3. signatures' \in Seq(Signature)
    BY <2>1, <2>2, AppendProperties DEF Answer, TypeOK, Signature
  <2>. QED
    BY <2>1, <2>2, <2>3
       DEF Answer, TypeOK, Signature, trigger_vars, batch_vars, loop_vars, provider_vars, chain_vars
<1>3. CASE \E t \in tasks : Mine(t)
  <2>1. PICK t \in tasks : Mine(t)
    BY <1>3
  <2>2. t \in Task /\ t.key \in Key /\ t.key.net \in Networks
    BY DEF TypeOK, Task, Key
  <2>3. safe_nonce' \in [Networks -> Nat]
    <3>1. safe_nonce \in [Networks -> Nat]
      BY DEF TypeOK
    <3>. QED
      BY <2>1, <2>2, <3>1, CountersWith DEF Mine
  <2>4. mempool' \in SUBSET Key /\ mined' \in SUBSET Key /\ executed' \in SUBSET mined'
    BY <2>1, <2>2 DEF Mine, TypeOK
  <2>. QED
    BY <2>1, <2>3, <2>4 DEF Mine, TypeOK, trigger_vars, batch_vars, loop_vars, provider_vars
<1>. QED
  BY <1>1, <1>2, <1>3

LEMMA TriggerTypes ==
  ASSUME TypeOK, TriggerStep
  PROVE  TypeOK'
<1>1. CASE TakeBatch
  <2>1. Head(batched_votes) \in Nat /\ batched_votes' \in Seq(Nat)
    BY <1>1, HeadTailProperties DEF TakeBatch, TypeOK
  <2>2. trigger' \in Trigger /\ trigger'.pc = "next"
    BY <1>1, <2>1 DEF TakeBatch, Trigger, Idle, Tx
  <2>. QED
    BY <1>1, <2>1, <2>2
       DEF TakeBatch, TypeOK, Trigger, batch_vars, loop_vars, provider_vars, chain_vars
<1>2. CASE AllNetworksDone
  <2>1. trigger' \in Trigger /\ trigger'.pc = "idle"
    BY <1>2 DEF AllNetworksDone, Trigger, Idle, Tx
  <2>. QED
    BY <1>2, <2>1
       DEF AllNetworksDone, TypeOK, Trigger, batch_vars, loop_vars, provider_vars, chain_vars
<1>3. CASE \E n \in Networks : SerializeUpdates(n)
  <2>1. PICK n \in Networks : SerializeUpdates(n)
    BY <1>3
  <2>2. [net |-> n, height |-> trigger.height] \in Key /\ rb_indices[n] \in Nat
    BY DEF TypeOK, Key
  <2>3. trigger \in Trigger
    BY DEF TypeOK, Trigger, Tx
  <2>4. trigger' \in Trigger /\ (trigger'.pc = "next" \/ trigger'.key \in Key)
    <3>1. CASE trigger' = [trigger EXCEPT !.todo = @ \ {n}]
      BY <2>1, <2>3, <3>1 DEF SerializeUpdates, Trigger
    <3>2. CASE trigger' = [trigger EXCEPT !.pc = "nonce", !.todo = @ \ {n},
                                   !.key = [net |-> n, height |-> trigger.height],
                                   !.tx.rb = rb_indices[n]]
      <4>. DEFINE k == [net |-> n, height |-> trigger.height]
                  tx == [trigger.tx EXCEPT !.rb = rb_indices[n]]
                  todo == trigger.todo \ {n}
      <4>1. tx \in Tx /\ todo \in SUBSET Networks /\ k \in Key
        BY <2>2, <2>3, TxWith DEF Trigger
      <4>2. trigger' = [trigger EXCEPT !.pc = "nonce", !.todo = todo, !.key = k, !.tx = tx]
        BY <3>2
      <4>. HIDE DEF k, tx, todo
      <4>3. trigger'.key = k
        BY <2>3, <4>2 DEF Trigger
      <4>. QED
        BY <2>3, <4>1, <4>2, <4>3, TriggerWith
    <3>. QED
      BY <2>1, <3>1, <3>2 DEF SerializeUpdates
  <2>. QED
    BY <2>1, <2>4 DEF SerializeUpdates, TypeOK, Trigger, batch_vars, loop_vars, provider_vars, chain_vars
<1>4. CASE CreateSafeTx
  <2>1. NextNonce(trigger.key.net) \in Nat
    BY <1>4 DEF CreateSafeTx, NextNonce, TypeOK, Key
  <2>2. trigger \in Trigger /\ trigger.key \in Key
    BY <1>4 DEF CreateSafeTx, TypeOK, Trigger
  <2>3. trigger' \in Trigger /\ (trigger'.pc = "idle" \/ trigger'.key \in Key)
    <3>1. CASE trigger' = Idle
      BY <3>1 DEF Trigger, Idle, Tx
    <3>2. CASE trigger' = [trigger EXCEPT !.pc = "send", !.tx.nonce = NextNonce(trigger.key.net)]
      <4>. DEFINE tx == [trigger.tx EXCEPT !.nonce = NextNonce(trigger.key.net)]
      <4>1. tx \in Tx
        BY <2>1, <2>2, TxWith DEF Trigger
      <4>2. trigger' = [trigger EXCEPT !.pc = "send", !.tx = tx]
        BY <3>2
      <4>. HIDE DEF tx
      <4>3. trigger'.key = trigger.key
        BY <2>2, <4>2 DEF Trigger
      <4>. QED
        BY <2>2, <4>1, <4>2, <4>3 DEF Trigger
    <3>. QED
      BY <1>4, <3>1, <3>2 DEF CreateSafeTx
  <2>. QED
    BY <1>4, <2>3
       DEF CreateSafeTx, TypeOK, Trigger, batch_vars, loop_vars, provider_vars, chain_vars
<1>5. CASE SendToKafka
  <2>1. trigger \in Trigger /\ trigger.key \in Key
    BY <1>5 DEF SendToKafka, TypeOK, Trigger
  <2>2. trigger' \in Trigger /\ trigger'.key \in Key
    BY <1>5, <2>1 DEF SendToKafka, Trigger
  <2>3. announced' \in SUBSET Key
    BY <1>5, <2>1 DEF SendToKafka, TypeOK
  <2>. QED
    BY <1>5, <2>2, <2>3 DEF SendToKafka, TypeOK, Trigger, batch_vars, loop_vars, provider_vars, chain_vars
<1>6. CASE InsertNewInProcessBatch
  <2>1. trigger.key \in Key /\ trigger.tx \in Tx
    BY <1>6 DEF InsertNewInProcessBatch, TypeOK
  <2>2. in_progress' \in SUBSET Batch
    BY <1>6, <2>1 DEF InsertNewInProcessBatch, TypeOK, Batch, batch_vars
  <2>3. backlog' \in Seq(Key)
    <3>1. backlog \in Seq(Key)
      BY DEF TypeOK
    <3>2. Append(backlog, trigger.key) \in Seq(Key)
      BY <2>1, <3>1, AppendProperties
    <3>. QED
      BY <1>6, <3>1, <3>2 DEF InsertNewInProcessBatch, PushToBacklog, batch_vars
  <2>4. trigger \in Trigger
    BY DEF TypeOK, Trigger
  <2>5. trigger' \in Trigger /\ trigger'.key \in Key
    BY <1>6, <2>1, <2>4 DEF InsertNewInProcessBatch, Trigger
  <2>. QED
    BY <1>6, <2>2, <2>3, <2>5
       DEF InsertNewInProcessBatch, TypeOK, Trigger, loop_vars, provider_vars, chain_vars
<1>7. CASE CountTx
  <2>1. trigger.key.net \in Networks
    BY <1>7 DEF CountTx, TypeOK, Key
  <2>2. rb_indices' \in [Networks -> Nat] /\ num_tx_in_progress' \in [Networks -> Nat]
    <3>1. rb_indices \in [Networks -> Nat] /\ num_tx_in_progress \in [Networks -> Nat]
      BY DEF TypeOK
    <3>. QED
      BY <1>7, <2>1, <3>1, CountersWith DEF CountTx
  <2>3. trigger \in Trigger
    BY DEF TypeOK, Trigger
  <2>4. trigger' \in Trigger /\ trigger'.pc = "next"
    BY <1>7, <2>3 DEF CountTx, Trigger, Idle, Tx
  <2>. QED
    BY <1>7, <2>2, <2>4 DEF CountTx, TypeOK, Trigger, batch_vars, loop_vars, chain_vars
<1>. QED
  BY <1>1, <1>2, <1>3, <1>4, <1>5, <1>6, <1>7 DEF TriggerStep

LEMMA LoopTypes ==
  ASSUME TypeOK, LoopStep
  PROVE  TypeOK'
<1>1. CASE RecvSignature
  <2>1. /\ Head(signatures) \in Signature /\ signatures' \in Seq(Signature)
    BY <1>1, HeadTailProperties DEF RecvSignature, TypeOK, Signature
  <2>2. <<Head(signatures)>> \in Seq(Signature) /\ Len(<<Head(signatures)>>) = 1
    BY <2>1
  <2>. QED
    BY <1>1, <2>1, <2>2
       DEF RecvSignature, TypeOK, Signature, trigger_vars, batch_vars, provider_vars, chain_vars
<1>2. CASE InsertReporterSignature
  <2>1. loop.msg[1] \in Signature
    <3>1. loop.msg \in Seq(Signature) /\ Len(loop.msg) = 1
      BY <1>2 DEF InsertReporterSignature, TypeOK, Signature
    <3>. QED
      BY <3>1, ElementOfSeq
  <2>2. in_progress' \in SUBSET Batch /\ tasks' \in SUBSET Task
    <3>. DEFINE msg == loop.msg[1]
                Signed(b) == [b EXCEPT !.signers = @ \union {msg.reporter}]
    <3>1. CASE UNCHANGED <<in_progress, tasks>>
      BY <3>1 DEF TypeOK
    <3>2. ASSUME NEW b \in in_progress,
                 IF QuorumReached(Signed(b).signers)
                 THEN TakeSignatures(Signed(b)) /\ SpawnSender(Signed(b))
                 ELSE in_progress' = (in_progress \ {b}) \union {Signed(b)} /\ UNCHANGED tasks
          PROVE  in_progress' \in SUBSET Batch /\ tasks' \in SUBSET Task
      <4>1. Signed(b) \in Batch
        BY <2>1, BatchWith DEF TypeOK, Signature
      <4>. HIDE DEF Signed
      <4>. QED
        BY <3>2, <4>1 DEF TypeOK, Batch, Task, TakeSignatures, SpawnSender
    <3>. QED
      BY <1>2, <3>1, <3>2 DEF InsertReporterSignature
  <2>3. loop' \in Loop /\ loop'.pc = "select"
    BY <1>2, Constants DEF InsertReporterSignature, Select, Loop, TypeOK
  <2>. QED
    BY <1>2, <2>2, <2>3
       DEF InsertReporterSignature, TypeOK, Loop, Signature, trigger_vars, provider_vars, chain_vars
<1>3. CASE ClearBatches
  <2>1. PICK n \in 0..Len(backlog) :
          LET popped == {backlog[i] : i \in 1..n}
              timed_out == {b \in in_progress : b.key \in popped}
          IN  /\ backlog' = SubSeq(backlog, n + 1, Len(backlog))
              /\ in_progress' = in_progress \ timed_out
              /\ loop' = [loop EXCEPT !.pc = "expire", !.armed = clock,
                                      !.expired = {b.key : b \in timed_out}]
    BY <1>3 DEF ClearBatches
  <2>2. backlog' \in Seq(Key)
    BY <2>1, SubSeqProperties DEF TypeOK
  <2>3. \A b \in in_progress : b.key \in Key
    BY DEF TypeOK, Batch
  <2>4. loop \in Loop /\ clock \in Nat
    BY Constants DEF TypeOK, Loop, Signature
  <2>5. loop' \in Loop /\ loop'.pc = "expire"
    BY <2>1, <2>3, <2>4 DEF Loop
  <2>6. in_progress' \in SUBSET Batch
    BY <2>1 DEF TypeOK
  <2>. QED
    BY <1>3, <2>2, <2>5, <2>6
       DEF ClearBatches, TypeOK, Loop, Signature, trigger_vars, provider_vars, chain_vars
<1>4. CASE GiveIndexBack
  <2>1. PICK k \in loop.expired :
          /\ rb_indices' = [rb_indices EXCEPT ![k.net] = Decrement(@)]
          /\ loop' = [loop EXCEPT !.expired = @ \ {k}]
    BY <1>4 DEF GiveIndexBack
  <2>2. rb_indices' \in [Networks -> Nat]
    <3>1. rb_indices \in [Networks -> Nat] /\ k.net \in Networks
      BY DEF TypeOK, Key
    <3>. QED
      BY <2>1, <3>1, CountersWith
  <2>. QED
    BY <1>4, <2>1, <2>2 DEF GiveIndexBack, TypeOK, trigger_vars, batch_vars, chain_vars
<1>5. CASE AwaitTasks
  BY <1>5 DEF AwaitTasks, TypeOK, trigger_vars, batch_vars, provider_vars, chain_vars
<1>6. CASE TasksDone
  <2>1. loop' \in Loop /\ loop'.pc = "select"
    BY <1>6, Constants DEF TasksDone, Select, Loop, TypeOK
  <2>. QED
    BY <1>6, <2>1
       DEF TasksDone, TypeOK, Loop, Signature, trigger_vars, batch_vars, provider_vars, chain_vars
<1>. QED
  BY <1>1, <1>2, <1>3, <1>4, <1>5, <1>6 DEF LoopStep

(* A sender's step changes no more of its task than where it is and how    *)
(* often it has tried.                                                     *)
Moved(t, u) ==
  u.key = t.key /\ u.tx = t.tx /\ u.signers = t.signers /\ u \in Task

LEMMA SenderMoves ==
  ASSUME TypeOK, NEW t \in tasks, SenderStep(t)
  PROVE  \E u \in Task : Moved(t, u) /\ tasks' = (tasks \ {t}) \union {u}
<1>1. t \in Task
  BY DEF TypeOK
<1>2. ASSUME NEW pc \in {"check", "send", "receipt", "done", "error", "failed"}, Goto(t, pc)
      PROVE  \E u \in Task : Moved(t, u) /\ tasks' = (tasks \ {t}) \union {u}
  <2>1. Moved(t, [t EXCEPT !.pc = pc])
    BY <1>1 DEF Moved, Task
  <2>. QED
    BY <1>2, <2>1 DEF Goto, Step, Moved
<1>3. ASSUME Retry(t)
      PROVE  \E u \in Task : Moved(t, u) /\ tasks' = (tasks \ {t}) \union {u}
  <2>1. t.retries + 1 \in Nat
    BY <1>1 DEF Task
  <2>2. PICK i \in Nat : tasks' = (tasks \ {t}) \union {[t EXCEPT !.pc = "check", !.retries = i]}
    BY <1>3, <2>1 DEF Retry, Step
  <2>. QED
    BY <1>1, <2>2, TaskWith DEF Moved
<1>. QED
  BY <1>2, <1>3
     DEF SenderStep, StartSender, TooManyRetries, CheckSafeNonce, SendTx, GetReceipt, FailedTx

LEMMA SenderTypes ==
  ASSUME TypeOK, NEW t \in tasks, SenderStep(t)
  PROVE  TypeOK'
<1>1. t.key \in Key /\ t.key.net \in Networks
  BY DEF TypeOK, Task, Key
<1>2. tasks' \in SUBSET Task
  BY SenderMoves DEF TypeOK
<1>3. /\ rb_indices' \in [Networks -> Nat] /\ num_tx_in_progress' \in [Networks -> Nat]
      /\ lock' \in [Networks -> Key \union {Nobody}]
  <2>. DEFINE n == t.key.net
  <2>1. /\ \/ UNCHANGED rb_indices \/ rb_indices' = [rb_indices EXCEPT ![n] = Decrement(@)]
        /\ \/ UNCHANGED num_tx_in_progress \/ DecNumTx(n)
        /\ \/ UNCHANGED lock \/ lock' = [lock EXCEPT ![n] = t.key] \/ Release(t)
    BY DEF SenderStep, StartSender, TooManyRetries, CheckSafeNonce, SendTx, GetReceipt, FailedTx,
           provider_vars
  <2>2. rb_indices' \in [Networks -> Nat] /\ num_tx_in_progress' \in [Networks -> Nat]
    <3>1. rb_indices \in [Networks -> Nat] /\ num_tx_in_progress \in [Networks -> Nat]
      BY DEF TypeOK
    <3>. QED
      BY <1>1, <2>1, <3>1, CountersWith DEF DecNumTx
  <2>3. lock' \in [Networks -> Key \union {Nobody}]
    BY <1>1, <2>1 DEF Release, TypeOK
  <2>. QED
    BY <2>2, <2>3
<1>4. mempool' \in SUBSET Key
  BY <1>1 DEF SenderStep, StartSender, TooManyRetries, CheckSafeNonce, SendTx, GetReceipt,
              TypeOK, chain_vars
<1>5. UNCHANGED <<sender_frame, safe_nonce, mined, executed>>
  BY DEF SenderStep, StartSender, TooManyRetries, CheckSafeNonce, SendTx, GetReceipt, chain_vars
<1>. QED
  BY <1>2, <1>3, <1>4, <1>5 DEF TypeOK, sender_frame, trigger_vars, batch_vars, loop_vars

LEMMA NextTypes == ASSUME TypeOK, [Next]_vars PROVE TypeOK'
<1>1. CASE UNCHANGED vars
  BY <1>1 DEF vars, TypeOK, trigger_vars, batch_vars, loop_vars, provider_vars, chain_vars
<1>. QED
  BY <1>1, EnvironmentTypes, TriggerTypes, LoopTypes, SenderTypes DEF Next

(* The types of everything the second round keeps: sequences of heights    *)
(* and keys, batches, tasks, and counters that never fall below zero.      *)
THEOREM TypeCorrect == Spec => []TypeOK
<1>1. Init => TypeOK
  BY InitTypes
<1>2. TypeOK /\ [Next]_vars => TypeOK'
  BY NextTypes
<1>. QED
  BY <1>1, <1>2, PTL DEF Spec

-----------------------------------------------------------------------------
(* Signatures.                                                             *)

HasAnswered(r, k) == <<r, k>> \in answered

Signed ==
  /\ \A i \in DOMAIN signatures : HasAnswered(signatures[i].reporter, signatures[i].key)
  /\ loop.pc = "signature" => HasAnswered(loop.msg[1].reporter, loop.msg[1].key)
  /\ \A b \in in_progress \union tasks : \A r \in b.signers : HasAnswered(r, b.key)
  /\ \A t \in tasks : Cardinality(t.signers) >= MinQuorum

LEMMA InsertSignatureSigned ==
  ASSUME TypeOK, Signed, InsertReporterSignature
  PROVE  Signed'
<1>. DEFINE msg == loop.msg[1]
            With(b) == [b EXCEPT !.signers = @ \union {msg.reporter}]
<1>1. HasAnswered(msg.reporter, msg.key) /\ UNCHANGED <<answered, signatures>>
  BY DEF InsertReporterSignature, Signed
<1>2. ASSUME NEW b \in in_progress, b.key = msg.key
      PROVE  /\ With(b).key = b.key /\ With(b).signers = b.signers \union {msg.reporter}
             /\ \A r \in With(b).signers : HasAnswered(r, b.key)
  <2>1. With(b).key = b.key /\ With(b).signers = b.signers \union {msg.reporter}
    BY DEF TypeOK, Batch
  <2>. QED
    BY <1>1, <1>2, <2>1 DEF Signed
<1>3. loop'.pc = "select"
  BY DEF InsertReporterSignature, Select
<1>4. \/ UNCHANGED <<in_progress, tasks>>
      \/ \E b \in in_progress :
           /\ b.key = msg.key
           /\ IF QuorumReached(With(b).signers)
              THEN TakeSignatures(With(b)) /\ SpawnSender(With(b))
              ELSE in_progress' = (in_progress \ {b}) \union {With(b)} /\ UNCHANGED tasks
  BY DEF InsertReporterSignature
<1>5. CASE UNCHANGED <<in_progress, tasks>>
  BY <1>1, <1>3, <1>5 DEF Signed, HasAnswered
<1>6. ASSUME NEW b \in in_progress, b.key = msg.key,
             IF QuorumReached(With(b).signers)
             THEN TakeSignatures(With(b)) /\ SpawnSender(With(b))
             ELSE in_progress' = (in_progress \ {b}) \union {With(b)} /\ UNCHANGED tasks
      PROVE  Signed'
  <2>1. /\ With(b).key = b.key
        /\ \A r \in With(b).signers : HasAnswered(r, b.key)
    BY <1>2, <1>6
  <2>. HIDE DEF With
  <2>2. CASE QuorumReached(With(b).signers)
    BY <1>1, <1>3, <1>6, <2>1, <2>2
       DEF Signed, HasAnswered, TakeSignatures, SpawnSender, QuorumReached
  <2>3. CASE ~QuorumReached(With(b).signers)
    BY <1>1, <1>3, <1>6, <2>1, <2>3 DEF Signed, HasAnswered
  <2>. QED
    BY <2>2, <2>3
<1>. QED
  BY <1>4, <1>5, <1>6

LEMMA NextSigned == ASSUME TypeOK, Signed, [Next]_vars PROVE Signed'
<1>1. ASSUME NEW r \in Reporters, NEW k \in announced, Answer(r, k)
      PROVE  Signed'
  <2>1. signatures \in Seq(Signature)
    BY DEF TypeOK, Signature
  <2>2. [reporter |-> r, key |-> k] \in Signature
    BY DEF TypeOK, Signature
  <2>3. \A i \in DOMAIN signatures' : <<signatures'[i].reporter, signatures'[i].key>> \in answered'
    <3>1. answered' = answered \union {<<r, k>>}
      BY <1>1 DEF Answer
    <3>2. CASE signatures' = signatures
      BY <3>1, <3>2 DEF Signed, HasAnswered
    <3>3. CASE signatures' = Append(signatures, [reporter |-> r, key |-> k])
      <4>1. \A i \in DOMAIN signatures' :
              \/ i \in DOMAIN signatures /\ signatures'[i] = signatures[i]
              \/ signatures'[i] = [reporter |-> r, key |-> k]
        BY <2>1, <2>2, <3>3, PushedTo
      <4>. QED
        BY <3>1, <4>1 DEF Signed, HasAnswered
    <3>. QED
      BY <1>1, <3>2, <3>3 DEF Answer
  <2>. QED
    BY <1>1, <2>3 DEF Answer, Signed, HasAnswered, batch_vars
<1>2. CASE RecvSignature
  <2>1. signatures \in Seq(Signature) /\ signatures # <<>> /\ signatures' = Tail(signatures)
    BY <1>2 DEF RecvSignature, TypeOK, Signature
  <2>2. Head(signatures) = signatures[1] /\ 1 \in DOMAIN signatures
    BY <2>1, TailOf
  <2>3. \A i \in DOMAIN signatures' : /\ i \in Nat /\ i > 0 /\ i + 1 \in DOMAIN signatures
                                      /\ signatures'[i] = signatures[i + 1]
    BY <2>1, TailOf
  <2>4. loop'.msg[1] = signatures[1]
    BY <1>2, <2>2 DEF RecvSignature, TypeOK
  <2>. QED
    BY <1>2, <2>2, <2>3, <2>4 DEF RecvSignature, Signed, HasAnswered, batch_vars
<1>3. CASE InsertReporterSignature
  BY <1>3, InsertSignatureSigned
<1>4. CASE InsertNewInProcessBatch
  <2>1. \A b \in in_progress' : b \in in_progress \/ b.signers = {}
    BY <1>4 DEF InsertNewInProcessBatch, batch_vars
  <2>. QED
    BY <1>4, <2>1 DEF InsertNewInProcessBatch, Signed, HasAnswered, loop_vars
<1>5. CASE ClearBatches
  <2>1. in_progress' \subseteq in_progress /\ loop'.pc = "expire"
    BY <1>5 DEF ClearBatches, TypeOK
  <2>. QED
    BY <1>5, <2>1 DEF ClearBatches, Signed, HasAnswered
<1>6. CASE GiveIndexBack \/ AwaitTasks \/ TasksDone
  <2>1. loop'.pc # "signature"
    BY <1>6 DEF GiveIndexBack, AwaitTasks, TasksDone, Select, TypeOK
  <2>. QED
    BY <1>6, <2>1 DEF GiveIndexBack, AwaitTasks, TasksDone, Signed, HasAnswered, batch_vars
<1>7. ASSUME NEW t \in tasks, SenderStep(t)
      PROVE  Signed'
  <2>1. PICK u \in Task : Moved(t, u) /\ tasks' = (tasks \ {t}) \union {u}
    BY <1>7, SenderMoves
  <2>2. UNCHANGED sender_frame
    BY <1>7 DEF SenderStep, StartSender, TooManyRetries, CheckSafeNonce, SendTx, GetReceipt
  <2>. QED
    BY <2>1, <2>2 DEF Moved, Signed, HasAnswered, sender_frame, batch_vars, loop_vars
<1>8. CASE UNCHANGED <<answered, in_progress, tasks, signatures, loop>>
  BY <1>8 DEF Signed, HasAnswered
<1>9. NextSlot \/ (\E t \in tasks : Mine(t)) \/ UNCHANGED vars
        => UNCHANGED <<answered, in_progress, tasks, signatures, loop>>
  BY DEF NextSlot, Mine, vars, batch_vars, loop_vars
<1>10. TriggerStep => \/ InsertNewInProcessBatch
                      \/ UNCHANGED <<answered, in_progress, tasks, signatures, loop>>
  BY DEF TriggerStep, TakeBatch, AllNetworksDone, SerializeUpdates, CreateSafeTx, SendToKafka,
         CountTx, batch_vars, loop_vars
<1>. QED
  BY <1>1, <1>2, <1>3, <1>4, <1>5, <1>6, <1>7, <1>8, <1>9, <1>10 DEF Next, LoopStep

(* Behind every sender stand at least MinQuorum different reporters, each  *)
(* of whom has answered the announcement of its very batch                 *)
(* (insert_reporter_signature and take_reporters_signatures).              *)
THEOREM QuorumBehindSendersHolds == Spec => []QuorumBehindSenders
<1>1. Init => Signed
  BY DEF Init, Signed, Select
<1>2. TypeOK /\ Signed /\ [Next]_vars => Signed'
  BY NextSigned
<1>3. Signed => QuorumBehindSenders
  BY DEF Signed, HasAnswered, QuorumBehindSenders
<1>. QED
  BY <1>1, <1>2, <1>3, TypeCorrect, PTL DEF Spec

-----------------------------------------------------------------------------
(* The ends of batches.                                                    *)

Elems(q) == {q[i] : i \in DOMAIN q}

(* The batches that were numbered and are not forgotten.                   *)
Keys == {b.key : b \in in_progress \union tasks} \union loop.expired \union Elems(backlog)

Numbering == trigger.pc \in {"nonce", "send", "insert"}

Waiting ==
  /\ \A i \in DOMAIN batched_votes : batched_votes[i] <= clock
  /\ \A i, j \in DOMAIN batched_votes : i < j => batched_votes[i] < batched_votes[j]

Older(k) == k.height <= clock /\ \A i \in DOMAIN batched_votes : k.height < batched_votes[i]

Fresh ==
  /\ Waiting
  /\ \A k \in Keys : Older(k)
  /\ trigger.pc # "idle" =>
       /\ trigger.height <= clock
       /\ \A i \in DOMAIN batched_votes : trigger.height < batched_votes[i]
       /\ \A k \in Keys : /\ k.height <= trigger.height
                          /\ k.height = trigger.height => k.net \notin trigger.todo
  /\ trigger.pc \in {"nonce", "send", "insert", "count"} =>
       trigger.key.height = trigger.height /\ trigger.key.net \notin trigger.todo
  /\ Numbering => trigger.key \notin Keys

Ends ==
  /\ \A b, c \in in_progress : b.key = c.key => b = c
  /\ \A t, u \in tasks : t.key = u.key => t = u
  /\ \A b \in in_progress, t \in tasks : b.key # t.key
  /\ \A i, j \in DOMAIN backlog : backlog[i] = backlog[j] => i = j
  /\ \A k \in loop.expired : \A b \in in_progress \union tasks : b.key # k
  /\ \A b \in in_progress : b.key \in Elems(backlog)

IInv == Fresh /\ Ends /\ OldBatchesAreCleared

LEMMA InitIInv == ASSUME Init PROVE IInv
<1>1. Keys = {} /\ DOMAIN backlog = {} /\ DOMAIN batched_votes = {}
  BY DEF Init, Keys, Elems, Select
<1>. QED
  BY <1>1 DEF Init, IInv, Fresh, Waiting, Numbering, Ends, OldBatchesAreCleared, Idle, Select

(* Steps of anybody but votes_result_sender enter no batch.                *)
LEMMA FreshKept ==
  ASSUME Fresh, Keys' \subseteq Keys, UNCHANGED <<clock, batched_votes, trigger>>
  PROVE  Fresh'
BY DEF Fresh, Waiting, Older, Numbering

LEMMA EndsKept ==
  ASSUME IInv, UNCHANGED <<in_progress, tasks, backlog>>, loop'.expired \subseteq loop.expired,
         loop'.pc \in {"expire", "drain"} => loop.pc \in {"expire", "drain"} /\ loop'.armed = loop.armed
  PROVE  Ends' /\ OldBatchesAreCleared' /\ Keys' \subseteq Keys
<1>1. Ends'
  BY DEF IInv, Ends, Elems
<1>2. OldBatchesAreCleared'
  BY DEF IInv, OldBatchesAreCleared
<1>3. Keys' \subseteq Keys
  BY DEF Keys, Elems
<1>. QED
  BY <1>1, <1>2, <1>3

LEMMA HeightTypes ==
  ASSUME TypeOK
  PROVE  /\ \A k \in Keys : k \in Key /\ k.height \in Nat /\ k.net \in Networks
         /\ \A i \in DOMAIN batched_votes : batched_votes[i] \in Nat
         /\ clock \in Nat /\ trigger.height \in Nat
<1>1. \A k \in Keys : k \in Key
  BY DEF TypeOK, Keys, Elems, Batch, Task
<1>2. clock \in Nat /\ trigger.height \in Nat
  BY Constants DEF TypeOK
<1>3. \A i \in DOMAIN batched_votes : batched_votes[i] \in Nat
  BY DEF TypeOK
<1>. QED
  BY <1>1, <1>2, <1>3 DEF Key

LEMMA NextSlotIInv == ASSUME TypeOK, IInv, NextSlot PROVE IInv'
<1>1. /\ clock' = clock + 1 /\ clock \in Nat
      /\ UNCHANGED <<trigger, in_progress, tasks, backlog, loop>>
  BY HeightTypes DEF NextSlot, batch_vars, loop_vars
<1>2. Keys' = Keys /\ Ends' /\ OldBatchesAreCleared'
  BY <1>1 DEF Keys, Elems, IInv, Ends, OldBatchesAreCleared
<1>3. CASE UNCHANGED batched_votes
  BY <1>1, <1>2, <1>3, HeightTypes DEF IInv, Fresh, Waiting, Older, Numbering
<1>4. CASE batched_votes' = Append(batched_votes, clock + 1)
  <2>1. /\ DOMAIN batched_votes' = DOMAIN batched_votes \union {Len(batched_votes) + 1}
        /\ batched_votes'[Len(batched_votes) + 1] = clock + 1
        /\ \A i \in DOMAIN batched_votes : i \in 1..Len(batched_votes)
                                           /\ batched_votes'[i] = batched_votes[i]
        /\ Len(batched_votes) \in Nat
    <3>1. batched_votes \in Seq(Nat) /\ clock + 1 \in Nat
      BY <1>1 DEF TypeOK
    <3>. QED
      BY <1>4, <3>1, PushedTo
  <2>2. Waiting'
    BY <1>1, <2>1, HeightTypes DEF IInv, Fresh, Waiting
  <2>3. \A k \in Keys' : Older(k)'
    BY <1>1, <1>2, <2>1, HeightTypes DEF IInv, Fresh, Older
  <2>4. trigger.pc # "idle" => \A i \in DOMAIN batched_votes' : trigger.height < batched_votes'[i]
    BY <1>1, <2>1, HeightTypes DEF IInv, Fresh
  <2>. QED
    BY <1>1, <1>2, <2>2, <2>3, <2>4, HeightTypes DEF IInv, Fresh, Numbering
<1>. QED
  BY <1>3, <1>4 DEF NextSlot

LEMMA TakeBatchIInv == ASSUME TypeOK, IInv, TakeBatch PROVE IInv'
<1>1. /\ batched_votes \in Seq(Nat) /\ batched_votes # <<>>
      /\ batched_votes' = Tail(batched_votes)
      /\ trigger'.pc = "next" /\ trigger'.height = Head(batched_votes)
      /\ UNCHANGED <<clock, in_progress, tasks, backlog, loop>>
  BY DEF TakeBatch, TypeOK, Idle, batch_vars, loop_vars
<1>2. Keys' = Keys /\ Ends' /\ OldBatchesAreCleared'
  BY <1>1 DEF Keys, Elems, IInv, Ends, OldBatchesAreCleared
<1>3. /\ Head(batched_votes) = batched_votes[1] /\ 1 \in DOMAIN batched_votes
      /\ \A i \in DOMAIN batched_votes' : /\ i \in Nat /\ i > 0 /\ i + 1 \in DOMAIN batched_votes
                                          /\ batched_votes'[i] = batched_votes[i + 1]
  BY <1>1, TailOf
<1>4. Waiting' /\ \A k \in Keys : Older(k)'
  BY <1>1, <1>3, HeightTypes DEF IInv, Fresh, Waiting, Older
<1>5. \A i \in DOMAIN batched_votes' : trigger'.height < batched_votes'[i]
  BY <1>1, <1>3, HeightTypes DEF IInv, Fresh, Waiting
<1>6. trigger'.height <= clock /\ \A k \in Keys : k.height < trigger'.height
  BY <1>1, <1>3 DEF IInv, Fresh, Waiting, Older
<1>. QED
  BY <1>1, <1>2, <1>3, <1>4, <1>5, <1>6, HeightTypes DEF IInv, Fresh, Numbering

LEMMA SerializeIInv ==
  ASSUME TypeOK, IInv, NEW n \in Networks, SerializeUpdates(n)
  PROVE  IInv'
<1>1. UNCHANGED <<clock, batched_votes, in_progress, tasks, backlog, loop>>
  BY DEF SerializeUpdates, batch_vars, loop_vars
<1>2. Keys' = Keys /\ Ends' /\ OldBatchesAreCleared'
  BY <1>1 DEF Keys, Elems, IInv, Ends, OldBatchesAreCleared
<1>3. /\ trigger.pc = "next" /\ n \in trigger.todo
      /\ trigger'.height = trigger.height /\ trigger'.todo = trigger.todo \ {n}
      /\ \/ trigger'.pc = "next"
         \/ trigger'.pc = "nonce" /\ trigger'.key = [net |-> n, height |-> trigger.height]
  BY DEF SerializeUpdates, TypeOK
<1>. QED
  BY <1>1, <1>2, <1>3 DEF IInv, Fresh, Waiting, Older, Numbering

LEMMA InsertBatchIInv == ASSUME TypeOK, IInv, InsertNewInProcessBatch PROVE IInv'
<1>. DEFINE b == [key |-> trigger.key, tx |-> trigger.tx, signers |-> {}]
<1>1. /\ trigger.pc = "insert" /\ trigger'.pc = "count"
      /\ trigger'.height = trigger.height /\ trigger'.todo = trigger.todo
      /\ trigger'.key = trigger.key /\ trigger.key \in Key
      /\ UNCHANGED <<clock, batched_votes, tasks, loop>>
      /\ loop.pc \notin {"expire", "drain"}
  BY DEF InsertNewInProcessBatch, TypeOK, loop_vars, BatchesFree
<1>2. trigger.key \notin Keys /\ trigger.key.height = trigger.height
  BY <1>1 DEF IInv, Fresh, Numbering
<1>3. \A c \in in_progress \union tasks : c.key # trigger.key
  BY <1>2 DEF Keys
<1>4. backlog' = Append(backlog, trigger.key) /\ in_progress' = in_progress \union {b}
  BY <1>3 DEF InsertNewInProcessBatch, PushToBacklog
<1>5. /\ DOMAIN backlog' = DOMAIN backlog \union {Len(backlog) + 1}
      /\ backlog'[Len(backlog) + 1] = trigger.key
      /\ \A i \in DOMAIN backlog : i \in 1..Len(backlog) /\ backlog'[i] = backlog[i]
      /\ Len(backlog) \in Nat
  <2>1. backlog \in Seq(Key)
    BY DEF TypeOK
  <2>. QED
    BY <1>1, <1>4, <2>1, PushedTo
<1>6. Elems(backlog') = Elems(backlog) \union {trigger.key}
  BY <1>5 DEF Elems
<1>7. Keys' \subseteq Keys \union {trigger.key}
  BY <1>1, <1>4, <1>6 DEF Keys
<1>8. Fresh'
  BY <1>1, <1>2, <1>7, HeightTypes DEF IInv, Fresh, Waiting, Older, Numbering
<1>9. \A i \in DOMAIN backlog : backlog[i] # trigger.key /\ backlog[i].height <= trigger.key.height
  BY <1>1, <1>2 DEF Keys, Elems, IInv, Fresh
<1>10. OldBatchesAreCleared'
  BY <1>1, <1>5, <1>9, HeightTypes DEF IInv, OldBatchesAreCleared, Key
<1>11. b.key = trigger.key
  OBVIOUS
<1>. HIDE DEF b
<1>12. \A i, j \in DOMAIN backlog' : backlog'[i] = backlog'[j] => i = j
  BY <1>5, <1>9 DEF IInv, Ends
<1>13. \A k \in loop.expired : \A c \in in_progress' \union tasks : c.key # k
  BY <1>2, <1>4, <1>11 DEF IInv, Ends, Keys
<1>14. /\ \A c, d \in in_progress' : c.key = d.key => c = d
       /\ \A c \in in_progress', t \in tasks : c.key # t.key
  BY <1>3, <1>4, <1>11 DEF IInv, Ends
<1>15. \A c \in in_progress' : c.key \in Elems(backlog')
  BY <1>4, <1>6, <1>11 DEF IInv, Ends
<1>16. Elems(backlog)' = Elems(backlog')
  BY DEF Elems
<1>17. Ends'
  BY <1>1, <1>12, <1>13, <1>14, <1>15, <1>16 DEF IInv, Ends
<1>. QED
  BY <1>8, <1>10, <1>17 DEF IInv

LEMMA TriggerIInv == ASSUME TypeOK, IInv, TriggerStep PROVE IInv'
<1>1. CASE UNCHANGED <<clock, batched_votes, in_progress, tasks, backlog, loop>>
           /\ \/ trigger'.pc = "idle"
              \/ /\ trigger'.pc \in {"next", "count", "send", "insert"}
                 /\ trigger'.height = trigger.height /\ trigger'.todo = trigger.todo
                 /\ trigger.pc \in {"nonce", "send", "insert", "count"}
                 /\ trigger'.pc = "next" \/ trigger'.key = trigger.key
                 /\ trigger'.pc \in {"send", "insert"} => Numbering
  <2>1. Keys' = Keys /\ Ends' /\ OldBatchesAreCleared'
    BY <1>1 DEF Keys, Elems, IInv, Ends, OldBatchesAreCleared
  <2>. QED
    BY <1>1, <2>1 DEF IInv, Fresh, Waiting, Older, Numbering
<1>2. CASE AllNetworksDone
  BY <1>1, <1>2 DEF AllNetworksDone, Idle, batch_vars, loop_vars
<1>3. CASE CreateSafeTx \/ SendToKafka \/ CountTx
  <2>1. UNCHANGED <<clock, batched_votes, in_progress, tasks, backlog, loop>>
    BY <1>3 DEF CreateSafeTx, SendToKafka, CountTx, batch_vars, loop_vars
  <2>2. trigger \in Trigger
    BY DEF TypeOK, Trigger
  <2>3. \/ trigger'.pc = "idle"
        \/ /\ trigger'.pc \in {"next", "count", "send", "insert"}
           /\ trigger'.height = trigger.height /\ trigger'.todo = trigger.todo
           /\ trigger.pc \in {"nonce", "send", "insert", "count"}
           /\ trigger'.pc = "next" \/ trigger'.key = trigger.key
           /\ trigger'.pc \in {"send", "insert"} => Numbering
    <3>1. CASE CreateSafeTx
      <4>1. trigger.pc = "nonce"
        BY <3>1 DEF CreateSafeTx
      <4>2. CASE trigger' = Idle
        BY <4>2 DEF Idle
      <4>3. CASE trigger' = [trigger EXCEPT !.pc = "send", !.tx.nonce = NextNonce(trigger.key.net)]
        <5>. DEFINE tx == [trigger.tx EXCEPT !.nonce = NextNonce(trigger.key.net)]
        <5>1. trigger' = [trigger EXCEPT !.pc = "send", !.tx = tx]
          BY <4>3
        <5>. HIDE DEF tx
        <5>. QED
          BY <2>2, <4>1, <5>1 DEF Trigger, Numbering
      <4>. QED
        BY <3>1, <4>2, <4>3 DEF CreateSafeTx
    <3>2. CASE SendToKafka
      BY <2>2, <3>2 DEF SendToKafka, Trigger, Numbering
    <3>3. CASE CountTx
      BY <2>2, <3>3 DEF CountTx, Trigger, Numbering
    <3>. QED
      BY <1>3, <3>1, <3>2, <3>3
  <2>. QED
    BY <1>1, <2>1, <2>3
<1>. QED
  BY <1>2, <1>3, TakeBatchIInv, SerializeIInv, InsertBatchIInv DEF TriggerStep

LEMMA InsertSignatureIInv == ASSUME TypeOK, IInv, InsertReporterSignature PROVE IInv'
<1>. DEFINE msg == loop.msg[1]
            With(b) == [b EXCEPT !.signers = @ \union {msg.reporter}]
<1>1. /\ UNCHANGED <<clock, batched_votes, trigger, backlog>>
      /\ loop'.pc = "select" /\ loop'.expired = {}
  BY DEF InsertReporterSignature, Select, trigger_vars
<1>2. ASSUME NEW b \in in_progress PROVE With(b).key = b.key
  BY DEF TypeOK, Batch
<1>3. \/ UNCHANGED <<in_progress, tasks>>
      \/ \E b \in in_progress :
           IF QuorumReached(With(b).signers)
           THEN TakeSignatures(With(b)) /\ SpawnSender(With(b))
           ELSE in_progress' = (in_progress \ {b}) \union {With(b)} /\ UNCHANGED tasks
  BY DEF InsertReporterSignature
<1>4. CASE UNCHANGED <<in_progress, tasks>>
  <2>1. Ends' /\ OldBatchesAreCleared' /\ Keys' \subseteq Keys
    BY <1>1, <1>4, EndsKept
  <2>. QED
    BY <1>1, <2>1, FreshKept DEF IInv
<1>5. ASSUME NEW b \in in_progress, NEW c, c.key = b.key,
             \/ /\ in_progress' = {d \in in_progress : d.key # c.key}
                /\ tasks' = tasks \union {c}
             \/ in_progress' = (in_progress \ {b}) \union {c} /\ UNCHANGED tasks
      PROVE  IInv'
  <2>1. Keys' \subseteq Keys
    BY <1>1, <1>5 DEF Keys, Elems
  <2>2. Ends'
    BY <1>1, <1>5 DEF IInv, Ends, Elems
  <2>3. OldBatchesAreCleared'
    BY <1>1 DEF IInv, OldBatchesAreCleared
  <2>. QED
    BY <1>1, <2>1, <2>2, <2>3, FreshKept DEF IInv
<1>6. ASSUME NEW b \in in_progress,
             IF QuorumReached(With(b).signers)
             THEN TakeSignatures(With(b)) /\ SpawnSender(With(b))
             ELSE in_progress' = (in_progress \ {b}) \union {With(b)} /\ UNCHANGED tasks
      PROVE  IInv'
  <2>1. With(b).key = b.key
    BY <1>2
  <2>. HIDE DEF With
  <2>2. CASE QuorumReached(With(b).signers)
    <3>. DEFINE c == [key |-> With(b).key, tx |-> With(b).tx, signers |-> With(b).signers,
                      retries |-> 0, pc |-> "start"]
    <3>1. c.key = b.key
      BY <2>1
    <3>2. in_progress' = {d \in in_progress : d.key # c.key} /\ tasks' = tasks \union {c}
      BY <1>6, <2>2 DEF TakeSignatures, SpawnSender
    <3>. HIDE DEF c
    <3>. QED
      BY <1>5, <3>1, <3>2
  <2>3. CASE ~QuorumReached(With(b).signers)
    BY <1>5, <1>6, <2>1, <2>3
  <2>. QED
    BY <2>2, <2>3
<1>. QED
  BY <1>3, <1>4, <1>6

LEMMA ClearIInv == ASSUME TypeOK, IInv, ClearBatches PROVE IInv'
<1>1. PICK n \in 0..Len(backlog) :
        LET popped == {backlog[i] : i \in 1..n}
            timed_out == {b \in in_progress : b.key \in popped}
        IN  /\ n < Len(backlog) => ~TooOld(backlog[n + 1])
            /\ backlog' = SubSeq(backlog, n + 1, Len(backlog))
            /\ in_progress' = in_progress \ timed_out
            /\ loop' = [loop EXCEPT !.pc = "expire", !.armed = clock,
                                    !.expired = {b.key : b \in timed_out}]
  BY DEF ClearBatches
<1>. DEFINE popped == {backlog[i] : i \in 1..n}
            timed_out == {b \in in_progress : b.key \in popped}
<1>2. UNCHANGED <<clock, batched_votes, trigger, tasks>>
  BY DEF ClearBatches, trigger_vars
<1>3. /\ backlog \in Seq(Key) /\ DOMAIN backlog = 1..Len(backlog) /\ Len(backlog) \in Nat
      /\ n \in Nat /\ n <= Len(backlog)
  BY <1>1 DEF TypeOK
<1>4. /\ DOMAIN backlog' = 1..(Len(backlog) - n)
      /\ \A i \in DOMAIN backlog' : n + i \in DOMAIN backlog /\ backlog'[i] = backlog[n + i]
  BY <1>1, <1>3, SuffixOf
<1>5. /\ loop'.pc = "expire" /\ loop'.armed = clock
      /\ loop'.expired = {b.key : b \in timed_out}
      /\ in_progress' = in_progress \ timed_out
  BY <1>1 DEF TypeOK
<1>6. Elems(backlog)' \subseteq Elems(backlog)
  BY <1>4 DEF Elems
<1>7. Keys' \subseteq Keys
  BY <1>2, <1>5, <1>6 DEF Keys
<1>8. ASSUME NEW b \in in_progress'
      PROVE  \E i \in DOMAIN backlog' : backlog'[i] = b.key
  <2>1. PICK j \in DOMAIN backlog : backlog[j] = b.key
    BY <1>5 DEF IInv, Ends, Elems
  <2>2. j \notin 1..n
    BY <1>5, <2>1
  <2>3. j - n \in 1..(Len(backlog) - n) /\ n + (j - n) = j
    BY <1>3, <2>1, <2>2
  <2>. QED
    BY <1>4, <2>1, <2>3
<1>9. Ends'
  <2>1. \A b \in in_progress' : b.key \in Elems(backlog)'
    BY <1>8 DEF Elems
  <2>2. \A i, j \in DOMAIN backlog' : backlog'[i] = backlog'[j] => i = j
    <3>1. ASSUME NEW i \in DOMAIN backlog', NEW j \in DOMAIN backlog', backlog'[i] = backlog'[j]
          PROVE  i = j
      <4>1. n + i = n + j
        BY <1>4, <3>1 DEF IInv, Ends
      <4>. QED
        BY <1>3, <1>4, <4>1
    <3>. QED
      BY <3>1
  <2>3. \A k \in loop'.expired : \A b \in in_progress' \union tasks' : b.key # k
    BY <1>2, <1>5 DEF IInv, Ends
  <2>. QED
    BY <1>2, <1>5, <2>1, <2>2, <2>3 DEF IInv, Ends
<1>10. \A i, j \in DOMAIN backlog' : i < j => backlog'[i].height <= backlog'[j].height
  <2>1. ASSUME NEW i \in DOMAIN backlog', NEW j \in DOMAIN backlog', i < j
        PROVE  backlog'[i].height <= backlog'[j].height
    <3>1. n + i < n + j
      BY <1>3, <1>4, <2>1
    <3>. QED
      BY <1>4, <3>1 DEF IInv, OldBatchesAreCleared
  <2>. QED
    BY <2>1
<1>11. ASSUME NEW b \in in_progress'
       PROVE  b.key.height + Retention >= clock
  <2>1. PICK i \in DOMAIN backlog' : backlog'[i] = b.key
    BY <1>8
  <2>2. n + i \in DOMAIN backlog /\ backlog[n + i] = b.key /\ i \in Nat /\ i >= 1
    BY <1>4, <2>1
  <2>3. n < Len(backlog) /\ n + 1 \in DOMAIN backlog
    BY <1>3, <2>2
  <2>4. ~TooOld(backlog[n + 1])
    BY <1>1, <2>3
  <2>5. backlog[n + 1].height \in Nat /\ b.key.height \in Nat
    BY <2>2, <2>3, HeightTypes DEF Keys, Elems
  <2>6. backlog[n + 1].height <= backlog[n + i].height
    <3>1. CASE i = 1
      BY <2>2, <2>5, <3>1
    <3>2. CASE i > 1
      <4>1. n + 1 < n + i
        BY <1>3, <2>2, <3>2
      <4>. QED
        BY <2>2, <2>3, <4>1 DEF IInv, OldBatchesAreCleared
    <3>. QED
      BY <2>2, <3>1, <3>2
  <2>. QED
    <3>1. ~(backlog[n + 1].height + Retention < clock) /\ clock \in Nat /\ Retention \in Nat
      BY <2>4, Constants, HeightTypes DEF TooOld
    <3>2. backlog[n + 1].height <= b.key.height
      BY <2>2, <2>6
    <3>3. \A x, y, c, r \in Nat : ~(x + r < c) /\ x <= y => y + r >= c
      OBVIOUS
    <3>. QED
      BY <2>5, <3>1, <3>2, <3>3
<1>12. OldBatchesAreCleared'
  BY <1>5, <1>10, <1>11 DEF OldBatchesAreCleared
<1>. QED
  BY <1>2, <1>7, <1>9, <1>12, FreshKept DEF IInv

LEMMA LoopIInv == ASSUME TypeOK, IInv, LoopStep PROVE IInv'
<1>1. CASE /\ UNCHANGED <<clock, batched_votes, trigger, in_progress, tasks, backlog>>
           /\ loop'.expired \subseteq loop.expired
           /\ loop'.pc \in {"expire", "drain"} =>
                loop.pc \in {"expire", "drain"} /\ loop'.armed = loop.armed
  BY <1>1, EndsKept, FreshKept DEF IInv
<1>2. CASE RecvSignature
  <2>1. loop'.pc = "signature" /\ loop'.expired = loop.expired
    BY <1>2 DEF RecvSignature, TypeOK
  <2>. QED
    BY <1>1, <1>2, <2>1 DEF RecvSignature, trigger_vars, batch_vars
<1>3. CASE GiveIndexBack
  <2>1. /\ loop.pc = "expire" /\ loop'.pc = "expire" /\ loop'.armed = loop.armed
        /\ loop'.expired \subseteq loop.expired
    BY <1>3 DEF GiveIndexBack, TypeOK
  <2>. QED
    BY <1>1, <1>3, <2>1 DEF GiveIndexBack, trigger_vars, batch_vars
<1>4. CASE AwaitTasks
  <2>1. loop.pc = "expire" /\ loop'.armed = loop.armed /\ loop'.expired = loop.expired
    BY <1>4 DEF AwaitTasks, TypeOK
  <2>. QED
    BY <1>1, <1>4, <2>1 DEF AwaitTasks, trigger_vars, batch_vars
<1>5. CASE TasksDone
  <2>1. loop'.pc = "select" /\ loop'.expired = {}
    BY <1>5 DEF TasksDone, Select
  <2>. QED
    BY <1>1, <1>5, <2>1 DEF TasksDone, trigger_vars, batch_vars
<1>. QED
  BY <1>2, <1>3, <1>4, <1>5, InsertSignatureIInv, ClearIInv DEF LoopStep

LEMMA SenderIInv ==
  ASSUME TypeOK, IInv, NEW t \in tasks, SenderStep(t)
  PROVE  IInv'
<1>1. PICK u \in Task : Moved(t, u) /\ tasks' = (tasks \ {t}) \union {u}
  BY SenderMoves
<1>2. UNCHANGED <<clock, batched_votes, trigger, in_progress, backlog, loop>>
  BY DEF SenderStep, StartSender, TooManyRetries, CheckSafeNonce, SendTx, GetReceipt,
         sender_frame, trigger_vars, batch_vars, loop_vars
<1>3. u.key = t.key
  BY <1>1 DEF Moved
<1>4. Keys' \subseteq Keys
  BY <1>1, <1>2, <1>3 DEF Keys, Elems
<1>5. Ends'
  BY <1>1, <1>2, <1>3 DEF IInv, Ends, Elems
<1>6. OldBatchesAreCleared'
  BY <1>2 DEF IInv, OldBatchesAreCleared
<1>. QED
  BY <1>2, <1>4, <1>5, <1>6, FreshKept DEF IInv

LEMMA NextIInv == ASSUME TypeOK, IInv, [Next]_vars PROVE IInv'
<1>1. CASE UNCHANGED <<clock, batched_votes, trigger, in_progress, tasks, backlog, loop>>
  BY <1>1, EndsKept, FreshKept DEF IInv
<1>2. (\E r \in Reporters, k \in announced : Answer(r, k)) \/ (\E t \in tasks : Mine(t)) \/ UNCHANGED vars
        => UNCHANGED <<clock, batched_votes, trigger, in_progress, tasks, backlog, loop>>
  BY DEF Answer, Mine, vars, trigger_vars, batch_vars, loop_vars
<1>. QED
  BY <1>1, <1>2, NextSlotIInv, TriggerIInv, LoopIInv, SenderIInv DEF Next

LEMMA Inductive == Spec => []IInv
<1>1. Init => IInv
  BY InitIInv
<1>2. TypeOK /\ IInv /\ [Next]_vars => IInv'
  BY NextIInv
<1>. QED
  BY <1>1, <1>2, TypeCorrect, PTL DEF Spec

(* A batch is given to one sender or timed out, not both and not twice,    *)
(* and while it waits the backlog leads to it (insert_new_in_process_batch *)
(* and take_reporters_signatures).                                         *)
THEOREM EachBatchEndsOnceHolds == Spec => []EachBatchEndsOnce
<1>1. TypeOK /\ IInv => EachBatchEndsOnce
  <2>. SUFFICES ASSUME TypeOK, IInv PROVE EachBatchEndsOnce
    OBVIOUS
  <2>1. \A b, c \in in_progress \union tasks : b.key = c.key => b = c
    BY DEF IInv, Ends
  <2>. QED
    BY <2>1 DEF IInv, Ends, Elems, EachBatchEndsOnce
<1>. QED
  BY <1>1, TypeCorrect, Inductive, PTL

(* What the timer's arm leaves is no older than the retention, because the *)
(* backlog is in the order of heights (clear_batches_older_than).          *)
THEOREM OldBatchesAreClearedHolds == Spec => []OldBatchesAreCleared
<1>1. IInv => OldBatchesAreCleared
  BY DEF IInv
<1>. QED
  BY <1>1, Inductive, PTL

-----------------------------------------------------------------------------
(* The count of transactions in progress.                                  *)

Counted == IsFiniteSet(in_progress) /\ IsFiniteSet(tasks) /\ PendingAreCounted

LEMMA PendingFinite ==
  ASSUME TypeOK, Counted, NEW n
  PROVE  IsFiniteSet(Pending(n)) /\ Cardinality(Pending(n)) \in Nat
<1>1. Pending(n) \in SUBSET (in_progress \union tasks)
  BY DEF Pending, Running
<1>2. IsFiniteSet(in_progress \union tasks)
  BY FS_Union DEF Counted
<1>. QED
  BY <1>1, <1>2, FS_Subset, FS_CardinalityType

(* One element of P replaced, removed or added.                            *)
LEMMA SizeReplaced ==
  ASSUME NEW P, IsFiniteSet(P), NEW x \in P, NEW y, NEW Q \in SUBSET ((P \ {x}) \union {y})
  PROVE  Cardinality(Q) <= Cardinality(P) /\ Cardinality(Q) \in Nat
<1>. DEFINE R == P \ {x}
<1>1. IsFiniteSet(R) /\ Cardinality(R) = Cardinality(P) - 1 /\ Cardinality(P) \in Nat
  BY FS_RemoveElement, FS_CardinalityType
<1>. HIDE DEF R
<1>2. IsFiniteSet(R \union {y}) /\ Cardinality(R \union {y}) <= Cardinality(P)
  BY <1>1, FS_AddElement
<1>3. IsFiniteSet(Q) /\ Cardinality(Q) <= Cardinality(R \union {y})
  BY <1>2, FS_Subset DEF R
<1>. QED
  BY <1>1, <1>2, <1>3, FS_CardinalityType

LEMMA SizeRemoved ==
  ASSUME NEW P, IsFiniteSet(P), NEW x \in P, NEW Q \in SUBSET (P \ {x})
  PROVE  Cardinality(Q) <= Cardinality(P) - 1 /\ Cardinality(Q) \in Nat
<1>1. IsFiniteSet(P \ {x}) /\ Cardinality(P \ {x}) = Cardinality(P) - 1 /\ Cardinality(P) \in Nat
  BY FS_RemoveElement, FS_CardinalityType
<1>2. IsFiniteSet(Q) /\ Cardinality(Q) <= Cardinality(P \ {x})
  BY <1>1, FS_Subset
<1>. QED
  BY <1>1, <1>2, FS_CardinalityType

LEMMA SizeAdded ==
  ASSUME NEW P, IsFiniteSet(P), NEW y, NEW Q \in SUBSET (P \union {y})
  PROVE  Cardinality(Q) <= Cardinality(P) + 1 /\ Cardinality(Q) \in Nat
<1>1. IsFiniteSet(P \union {y}) /\ Cardinality(P \union {y}) <= Cardinality(P) + 1 /\ Cardinality(P) \in Nat
  <2>1. Cardinality(P) \in Nat
    BY FS_CardinalityType
  <2>2. /\ IsFiniteSet(P \union {y})
        /\ Cardinality(P \union {y}) = IF y \in P THEN Cardinality(P) ELSE Cardinality(P) + 1
    BY FS_AddElement
  <2>. QED
    BY <2>1, <2>2
<1>2. IsFiniteSet(Q) /\ Cardinality(Q) <= Cardinality(P \union {y})
  BY <1>1, FS_Subset
<1>. QED
  BY <1>1, <1>2, FS_CardinalityType

(* Steps that leave the counters alone and enter no batch.                 *)
LEMMA CountedKept ==
  ASSUME TypeOK, Counted, UNCHANGED num_tx_in_progress,
         \A n \in Networks : BeingCounted(n)' >= BeingCounted(n) /\ BeingCounted(n)' \in Nat,
         IsFiniteSet(in_progress)', IsFiniteSet(tasks)',
         \A n \in Networks : Cardinality(Pending(n))' <= Cardinality(Pending(n))
                             /\ Cardinality(Pending(n))' \in Nat
  PROVE  Counted'
<1>1. ASSUME NEW n \in Networks
      PROVE  num_tx_in_progress'[n] + BeingCounted(n)' >= Cardinality(Pending(n))'
  <2>1. num_tx_in_progress[n] \in Nat /\ BeingCounted(n) \in Nat /\ Cardinality(Pending(n)) \in Nat
    BY PendingFinite DEF TypeOK, BeingCounted
  <2>2. num_tx_in_progress[n] + BeingCounted(n) >= Cardinality(Pending(n))
    BY DEF Counted, PendingAreCounted
  <2>. QED
    BY <2>1, <2>2
<1>. QED
  BY <1>1 DEF Counted, PendingAreCounted

LEMMA SamePending ==
  ASSUME TypeOK, Counted, UNCHANGED <<num_tx_in_progress, in_progress, tasks>>,
         \A n \in Networks : BeingCounted(n)' >= BeingCounted(n)
  PROVE  Counted'
<1>1. \A n \in Networks : Pending(n)' = Pending(n)
  BY DEF Pending, Running
<1>2. ASSUME NEW n \in Networks
      PROVE  Cardinality(Pending(n))' <= Cardinality(Pending(n)) /\ Cardinality(Pending(n))' \in Nat
  BY <1>1, PendingFinite
<1>3. \A n \in Networks : BeingCounted(n)' \in Nat
  BY DEF BeingCounted
<1>. QED
  BY <1>2, <1>3, CountedKept DEF Counted

LEMMA TriggerCounted == ASSUME TypeOK, Counted, TriggerStep PROVE Counted'
<1>1. CASE \/ TakeBatch \/ AllNetworksDone \/ (\E n \in Networks : SerializeUpdates(n))
           \/ CreateSafeTx \/ SendToKafka
  <2>1. trigger.pc # "count" /\ UNCHANGED <<num_tx_in_progress, in_progress, tasks>>
    BY <1>1 DEF TakeBatch, AllNetworksDone, SerializeUpdates, CreateSafeTx, SendToKafka,
                batch_vars, provider_vars
  <2>2. \A n \in Networks : BeingCounted(n)' >= BeingCounted(n)
    BY <2>1 DEF BeingCounted
  <2>. QED
    BY <2>1, <2>2, SamePending
<1>2. CASE InsertNewInProcessBatch
  <2>. DEFINE b == [key |-> trigger.key, tx |-> trigger.tx, signers |-> {}]
  <2>1. /\ trigger.pc = "insert" /\ trigger'.pc = "count" /\ trigger'.key = trigger.key
        /\ UNCHANGED <<num_tx_in_progress, tasks>>
    BY <1>2 DEF InsertNewInProcessBatch, TypeOK, provider_vars
  <2>2. in_progress' = in_progress \/ in_progress' = in_progress \union {b}
    BY <1>2 DEF InsertNewInProcessBatch, batch_vars
  <2>3. b.key = trigger.key
    OBVIOUS
  <2>. HIDE DEF b
  <2>4. IsFiniteSet(in_progress) /\ IsFiniteSet(in_progress \union {b}) /\ IsFiniteSet(tasks)
    BY FS_AddElement DEF Counted
  <2>5. ASSUME NEW n \in Networks
        PROVE  num_tx_in_progress'[n] + BeingCounted(n)' >= Cardinality(Pending(n))'
    <3>1. /\ num_tx_in_progress[n] \in Nat /\ IsFiniteSet(Pending(n)) /\ Cardinality(Pending(n)) \in Nat
      BY PendingFinite DEF TypeOK
    <3>2. BeingCounted(n) = 0 /\ num_tx_in_progress[n] >= Cardinality(Pending(n))
      <4>1. BeingCounted(n) = 0
        BY <2>1 DEF BeingCounted
      <4>. QED
        BY <3>1, <4>1 DEF Counted, PendingAreCounted
    <3>3. CASE n = trigger.key.net
      <4>1. BeingCounted(n)' = 1
        BY <2>1, <3>3 DEF BeingCounted
      <4>2. Pending(n)' \in SUBSET (Pending(n) \union {b})
        BY <2>1, <2>2 DEF Pending, Running
      <4>3. Cardinality(Pending(n)') <= Cardinality(Pending(n)) + 1 /\ Cardinality(Pending(n)') \in Nat
        BY <3>1, <4>2, SizeAdded
      <4>. QED
        BY <2>1, <3>1, <3>2, <4>1, <4>3
    <3>4. CASE n # trigger.key.net
      <4>1. BeingCounted(n)' = 0
        BY <2>1, <3>4 DEF BeingCounted
      <4>2. Pending(n)' = Pending(n)
        BY <2>1, <2>2, <2>3, <3>4 DEF Pending, Running
      <4>. QED
        BY <2>1, <3>1, <3>2, <4>1, <4>2
    <3>. QED
      BY <3>3, <3>4
  <2>. QED
    BY <2>1, <2>2, <2>4, <2>5 DEF Counted, PendingAreCounted
<1>3. CASE CountTx
  <2>1. /\ trigger.pc = "count" /\ trigger'.pc = "next" /\ UNCHANGED <<in_progress, tasks>>
        /\ num_tx_in_progress' = [num_tx_in_progress EXCEPT ![trigger.key.net] = @ + 1]
    BY <1>3 DEF CountTx, TypeOK, batch_vars
  <2>2. ASSUME NEW n \in Networks
        PROVE  num_tx_in_progress'[n] + BeingCounted(n)' >= Cardinality(Pending(n))'
    <3>1. num_tx_in_progress[n] \in Nat /\ BeingCounted(n)' = 0
      BY <2>1 DEF TypeOK, BeingCounted
    <3>2. num_tx_in_progress'[n] = num_tx_in_progress[n] + BeingCounted(n)
      BY <2>1, <3>1 DEF BeingCounted, TypeOK
    <3>3. Pending(n)' = Pending(n) /\ Cardinality(Pending(n)) \in Nat
      BY <2>1, PendingFinite DEF Pending, Running
    <3>. QED
      BY <3>1, <3>2, <3>3 DEF Counted, PendingAreCounted, BeingCounted
  <2>. QED
    BY <2>1, <2>2 DEF Counted, PendingAreCounted
<1>. QED
  BY <1>1, <1>2, <1>3 DEF TriggerStep

(* A batch that is replaced by one of its network, or is removed.          *)
LEMMA LoopCounted == ASSUME TypeOK, Counted, LoopStep PROVE Counted'
<1>1. UNCHANGED <<num_tx_in_progress, trigger>>
  BY DEF LoopStep, RecvSignature, InsertReporterSignature, ClearBatches, GiveIndexBack, AwaitTasks,
         TasksDone, trigger_vars, provider_vars
<1>2. \A n \in Networks : BeingCounted(n)' = BeingCounted(n) /\ BeingCounted(n) \in Nat
  BY <1>1 DEF BeingCounted
<1>3. CASE UNCHANGED <<in_progress, tasks>>
  BY <1>1, <1>2, <1>3, SamePending
<1>4. CASE ClearBatches
  <2>1. in_progress' \in SUBSET in_progress /\ tasks' = tasks
    BY <1>4 DEF ClearBatches
  <2>2. IsFiniteSet(in_progress') /\ IsFiniteSet(tasks')
    BY <2>1, FS_Subset DEF Counted
  <2>3. ASSUME NEW n \in Networks
        PROVE  Cardinality(Pending(n))' <= Cardinality(Pending(n)) /\ Cardinality(Pending(n))' \in Nat
    <3>1. Pending(n)' \in SUBSET Pending(n)
      BY <2>1 DEF Pending, Running
    <3>. QED
      BY <3>1, PendingFinite, FS_Subset, FS_CardinalityType
  <2>. QED
    BY <1>1, <1>2, <2>2, <2>3, CountedKept
<1>5. CASE InsertReporterSignature
  <2>. DEFINE With(b) == [b EXCEPT !.signers = @ \union {loop.msg[1].reporter}]
  <2>1. ASSUME NEW b \in in_progress, NEW c, c.key = b.key,
               \/ /\ in_progress' \subseteq in_progress \ {b}
                  /\ tasks' = tasks \union {c}
               \/ in_progress' = (in_progress \ {b}) \union {c} /\ tasks' = tasks
        PROVE  Counted'
    <3>1. IsFiniteSet(in_progress') /\ IsFiniteSet(tasks')
      <4>1. IsFiniteSet((in_progress \ {b}) \union {c}) /\ IsFiniteSet(in_progress \ {b})
        BY FS_RemoveElement, FS_AddElement DEF Counted
      <4>2. IsFiniteSet(tasks) /\ IsFiniteSet(tasks \union {c})
        BY FS_AddElement DEF Counted
      <4>. QED
        BY <2>1, <4>1, <4>2, FS_Subset
    <3>2. ASSUME NEW n \in Networks
          PROVE  Cardinality(Pending(n))' <= Cardinality(Pending(n)) /\ Cardinality(Pending(n))' \in Nat
      <4>1. IsFiniteSet(Pending(n)) /\ Cardinality(Pending(n)) \in Nat
        BY PendingFinite
      <4>2. CASE b.key.net = n
        <5>1. b \in Pending(n) /\ Pending(n)' \in SUBSET ((Pending(n) \ {b}) \union {c})
          <6>1. b \in Pending(n)
            BY <4>2 DEF Pending
          <6>2. b \notin tasks
            BY NotBoth DEF TypeOK
          <6>. QED
            BY <2>1, <6>1, <6>2 DEF Pending, Running
        <5>. QED
          BY <4>1, <5>1, SizeReplaced
      <4>3. CASE b.key.net # n
        <5>1. Pending(n)' \in SUBSET Pending(n)
          BY <2>1, <4>3 DEF Pending, Running
        <5>. QED
          BY <4>1, <5>1, FS_Subset, FS_CardinalityType
      <4>. QED
        BY <4>2, <4>3
    <3>. QED
      BY <1>1, <1>2, <3>1, <3>2, CountedKept
  <2>2. ASSUME NEW b \in in_progress,
               IF QuorumReached(With(b).signers)
               THEN TakeSignatures(With(b)) /\ SpawnSender(With(b))
               ELSE in_progress' = (in_progress \ {b}) \union {With(b)} /\ UNCHANGED tasks
        PROVE  Counted'
    <3>1. With(b).key = b.key
      BY DEF TypeOK, Batch
    <3>. HIDE DEF With
    <3>2. CASE QuorumReached(With(b).signers)
      <4>. DEFINE c == [key |-> With(b).key, tx |-> With(b).tx, signers |-> With(b).signers,
                        retries |-> 0, pc |-> "start"]
      <4>1. c.key = b.key
        BY <3>1
      <4>2. in_progress' \subseteq in_progress \ {b} /\ tasks' = tasks \union {c}
        BY <2>2, <3>1, <3>2 DEF TakeSignatures, SpawnSender
      <4>. HIDE DEF c
      <4>. QED
        BY <2>1, <4>1, <4>2
    <3>3. CASE ~QuorumReached(With(b).signers)
      BY <2>1, <2>2, <3>1, <3>3
    <3>. QED
      BY <3>2, <3>3
  <2>. QED
    BY <1>3, <1>5, <2>2 DEF InsertReporterSignature
<1>. QED
  BY <1>3, <1>4, <1>5
     DEF LoopStep, RecvSignature, GiveIndexBack, AwaitTasks, TasksDone, batch_vars

LEMMA SenderCounted ==
  ASSUME TypeOK, Counted, NEW t \in tasks, SenderStep(t)
  PROVE  Counted'
<1>. DEFINE N == t.key.net
<1>1. PICK u \in Task : Moved(t, u) /\ tasks' = (tasks \ {t}) \union {u}
  BY SenderMoves
<1>2. UNCHANGED <<trigger, in_progress>> /\ t \in Running /\ u.key = t.key /\ N \in Networks
  <2>1. t \in Running
    BY DEF SenderStep, StartSender, TooManyRetries, CheckSafeNonce, SendTx, GetReceipt, Running
  <2>2. N \in Networks
    BY DEF TypeOK, Task, Key
  <2>. QED
    BY <1>1, <2>1, <2>2
       DEF SenderStep, StartSender, TooManyRetries, CheckSafeNonce, SendTx, GetReceipt,
           sender_frame, trigger_vars, batch_vars, Moved
<1>3. IsFiniteSet(tasks') /\ IsFiniteSet(in_progress')
  BY <1>1, <1>2, FS_RemoveElement, FS_AddElement DEF Counted
<1>4. \A n \in Networks : BeingCounted(n)' = BeingCounted(n) /\ BeingCounted(n) \in 0..1
  BY <1>2 DEF BeingCounted
<1>5. \A n \in Networks : IsFiniteSet(Pending(n)) /\ Cardinality(Pending(n)) \in Nat
  BY PendingFinite
<1>6. t \in Pending(N) /\ t \notin in_progress
  <2>1. t \in Pending(N)
    BY <1>2 DEF Pending
  <2>2. t \notin in_progress
    BY NotBoth DEF TypeOK
  <2>. QED
    BY <2>1, <2>2
<1>7. ASSUME NEW n \in Networks, n # N
      PROVE  Pending(n)' = Pending(n)
  BY <1>1, <1>2, <1>7 DEF Pending, Running
<1>8. CASE UNCHANGED num_tx_in_progress
  <2>1. Pending(N)' \in SUBSET ((Pending(N) \ {t}) \union {u})
    BY <1>1, <1>2, <1>6 DEF Pending, Running
  <2>2. Cardinality(Pending(N)') <= Cardinality(Pending(N)) /\ Cardinality(Pending(N)') \in Nat
    BY <1>2, <1>5, <1>6, <2>1, SizeReplaced
  <2>3. ASSUME NEW n \in Networks
        PROVE  Cardinality(Pending(n)') <= Cardinality(Pending(n)) /\ Cardinality(Pending(n)') \in Nat
    BY <1>5, <1>7, <2>2
  <2>. QED
    BY <1>3, <1>4, <1>8, <2>3, CountedKept
<1>9. CASE DecNumTx(N) /\ tasks' \subseteq (tasks \ {t}) \union {v \in Task : v.pc \in {"done", "error", "failed"}}
  <2>1. Pending(N)' \in SUBSET (Pending(N) \ {t})
    BY <1>2, <1>6, <1>9 DEF Pending, Running
  <2>2. Cardinality(Pending(N)') <= Cardinality(Pending(N)) - 1 /\ Cardinality(Pending(N)') \in Nat
    BY <1>2, <1>5, <1>6, <2>1, SizeRemoved
  <2>3. num_tx_in_progress \in [Networks -> Nat]
    BY DEF TypeOK
  <2>4. ASSUME NEW n \in Networks
        PROVE  num_tx_in_progress'[n] + BeingCounted(n)' >= Cardinality(Pending(n)')
    <3>1. num_tx_in_progress[n] + BeingCounted(n) >= Cardinality(Pending(n))
      BY DEF Counted, PendingAreCounted
    <3>2. CASE n = N
      <4>1. num_tx_in_progress'[n] = Decrement(num_tx_in_progress[n])
        BY <1>9, <2>3, <3>2 DEF DecNumTx
      <4>2. /\ num_tx_in_progress[n] \in Nat /\ BeingCounted(n)' = BeingCounted(n)
            /\ BeingCounted(n) \in 0..1 /\ Cardinality(Pending(n)) \in Nat
        BY <1>4, <1>5, <2>3
      <4>3. Cardinality(Pending(n)') <= Cardinality(Pending(n)) - 1 /\ Cardinality(Pending(n)') \in Nat
        BY <2>2, <3>2
      <4>. QED
        BY <3>1, <4>1, <4>2, <4>3 DEF Decrement
    <3>3. CASE n # N
      <4>1. num_tx_in_progress'[n] = num_tx_in_progress[n]
        BY <1>9, <2>3, <3>3 DEF DecNumTx
      <4>. QED
        BY <1>4, <1>7, <3>1, <3>3, <4>1
    <3>. QED
      BY <3>2, <3>3
  <2>. QED
    BY <1>3, <2>4 DEF Counted, PendingAreCounted
<1>10. \/ UNCHANGED num_tx_in_progress
       \/ DecNumTx(N) /\ \E pc \in {"done", "error", "failed"} : Goto(t, pc)
  BY DEF SenderStep, StartSender, TooManyRetries, CheckSafeNonce, SendTx, GetReceipt, FailedTx,
         provider_vars
<1>11. ASSUME NEW pc \in {"done", "error", "failed"}, Goto(t, pc)
       PROVE  tasks' \subseteq (tasks \ {t}) \union {v \in Task : v.pc \in {"done", "error", "failed"}}
  <2>1. [t EXCEPT !.pc = pc] \in Task /\ [t EXCEPT !.pc = pc].pc = pc
    BY DEF TypeOK, Task
  <2>. QED
    BY <1>11, <2>1 DEF Goto, Step
<1>. QED
  BY <1>8, <1>9, <1>10, <1>11

(* Every batch that waits for signatures or whose sender runs is among the *)
(* transactions in progress of its network, whichever senders fail and     *)
(* give their place back first (num_tx_in_progress).                       *)
THEOREM PendingAreCountedHolds == Spec => []PendingAreCounted
<1>1. Init => Counted
  <2>. SUFFICES ASSUME Init PROVE Counted
    OBVIOUS
  <2>1. \A n \in Networks : Pending(n) = {} /\ num_tx_in_progress[n] = 0 /\ BeingCounted(n) = 0
    BY DEF Init, Pending, Running, BeingCounted, Idle
  <2>. QED
    <3>1. IsFiniteSet({}) /\ Cardinality({}) = 0
      BY FS_EmptySet
    <3>2. in_progress = {} /\ tasks = {}
      BY DEF Init
    <3>3. ASSUME NEW n \in Networks
          PROVE  num_tx_in_progress[n] + BeingCounted(n) >= Cardinality(Pending(n))
      <4>1. Pending(n) = {} /\ num_tx_in_progress[n] = 0 /\ BeingCounted(n) = 0
        BY <2>1
      <4>. QED
        BY <3>1, <4>1
    <3>4. IsFiniteSet(in_progress) /\ IsFiniteSet(tasks)
      BY <3>1, <3>2
    <3>5. PendingAreCounted
      BY <3>3 DEF PendingAreCounted
    <3>. QED
      BY <3>4, <3>5 DEF Counted
<1>2. TypeOK /\ Counted /\ [Next]_vars => Counted'
  <2>. SUFFICES ASSUME TypeOK, Counted, [Next]_vars PROVE Counted'
    OBVIOUS
  <2>1. CASE UNCHANGED <<num_tx_in_progress, in_progress, tasks, trigger>>
    <3>1. \A n \in Networks : BeingCounted(n)' >= BeingCounted(n)
      BY <2>1 DEF BeingCounted
    <3>. QED
      BY <2>1, <3>1, SamePending
  <2>2. ASSUME \/ NextSlot \/ (\E r \in Reporters, k \in announced : Answer(r, k))
               \/ (\E t \in tasks : Mine(t)) \/ UNCHANGED vars
        PROVE  UNCHANGED <<num_tx_in_progress, in_progress, tasks, trigger>>
    BY <2>2 DEF NextSlot, Answer, Mine, vars, trigger_vars, batch_vars, provider_vars
  <2>3. TriggerStep \/ LoopStep => Counted'
    BY TriggerCounted, LoopCounted
  <2>4. (\E t \in tasks : SenderStep(t)) => Counted'
    BY SenderCounted
  <2>. QED
    BY <2>1, <2>2, <2>3, <2>4 DEF Next
<1>3. Counted => PendingAreCounted
  BY DEF Counted
<1>. QED
  BY <1>1, <1>2, <1>3, TypeCorrect, PTL DEF Spec
=============================================================================
