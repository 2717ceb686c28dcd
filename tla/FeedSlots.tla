----------------------------- MODULE FeedSlots -----------------------------
(***************************************************************************)
(* One periodic feed of the sequencer: its reports come in over HTTP       *)
(* (process_report in http_handlers/data_feeds.rs), are kept per reporter  *)
(* in AllFeedsReports, and the feed's own FeedSlotsProcessor task consumes *)
(* them at the end of each voting slot and posts the aggregate to the      *)
(* block creator.                                                          *)
(*                                                                         *)
(* The two sides share nothing but the clock and the reports: a handler    *)
(* reads the clock, decides that a report is relevant and only then waits  *)
(* for the lock of the reports, and the processor reads the clock once for *)
(* the number of the slot and once more to arm its timer.                  *)
(***************************************************************************)
EXTENDS FeedAggregate, Sequences, FiniteSets

CONSTANTS
  Reporters,        \* the registered reporters
  Faulty,           \* those that report any value
  Values,           \* the results a report can carry, NoValue among them or not
  HonestValues,     \* the values of the others
  NoValue,          \* the result of a report that is an error or of the wrong type
  Aggregator,       \* "median", "average" or "majority"
  QuorumPercentage, \* quorum_percentage
  SkipPercentage,   \* skip_publish_if_less_then_percentage
  Heartbeat,        \* always_publish_heartbeat_ms, or NoHeartbeat
  NoHeartbeat,
  SlotLen,          \* report_interval_ms; slot 0 starts at time 0
  MaxSkew,          \* bound: how far a reporter's clock is ahead
  MaxTime,          \* bound: where the clock stops
  MaxReports        \* bound: how many reports are sent

ASSUME FeedSlotsAssumption ==
  /\ Faulty \subseteq Reporters /\ IsFiniteSet(Reporters)
  /\ HonestValues \subseteq Values /\ Values \subseteq Int \union {NoValue} /\ NoValue \notin Int
  /\ Aggregator \in {"median", "average", "majority"}
  /\ QuorumPercentage \in 0..100 /\ SkipPercentage \in Nat
  /\ Heartbeat \in Nat \union {NoHeartbeat}
  /\ SlotLen \in Nat \ {0}
  /\ MaxSkew \in Nat /\ MaxTime \in Nat /\ MaxReports \in Nat

VARIABLES
  now,        \* current_unix_time()
  last_sent,  \* environment: reporter -> timestamp of its last report, -1 if none
  n_sent,     \* environment: how many reports were sent
  in_flight,  \* environment: the reports posted and not yet handled
  checked,    \* reports found relevant whose handlers wait for the reports' lock
  report,     \* FeedReports.report: one report per reporter
  pc,         \* where the processor is: "top" of its loop, "select", "await"
  slot,       \* the processor's local slot
  slot_end,   \* when its timer fires
  consumed,   \* the ConsumedReports of the slot processed last
  history,    \* feed_aggregate_history of the feed, oldest first
  posted      \* aggregated_votes_to_block_creator_send: what was posted

intake_vars == <<last_sent, n_sent, in_flight, checked>>
slot_vars == <<pc, slot, slot_end>>
result_vars == <<consumed, history, posted>>
vars == <<now, intake_vars, report, slot_vars, result_vars>>

Report == [reporter : Reporters, timestamp : Nat, value : Values]

NothingConsumed == [is_quorum_reached |-> FALSE, skip |-> TRUE, value |-> NoValue,
                    end_slot_timestamp |-> 0]

Init ==
  /\ now = 0
  /\ last_sent = [r \in Reporters |-> -1] /\ n_sent = 0 /\ in_flight = {} /\ checked = {}
  /\ report = {}
  /\ pc = "top" /\ slot = 0 /\ slot_end = 0
  /\ consumed = NothingConsumed /\ history = <<>> /\ posted = <<>>

Slot(t) == t \div SlotLen

-----------------------------------------------------------------------------
(* Reports.  (A Mut... operator is a defect of the operator after it that  *)
(* one of the properties below catches.)                                   *)

(* A reporter posts a report with the time of its own clock, once its last *)
(* one is answered (process_payload in apps/trigger-oracle/src/lib.rs).    *)
SendReport(r) ==
  /\ \A m \in in_flight \union checked : m.reporter # r
  /\ n_sent < MaxReports
  /\ n_sent' = n_sent + 1
  /\ \E t \in now..(now + MaxSkew),
        v \in (IF r \in Faulty THEN Values ELSE HonestValues) :
       /\ t > last_sent[r]
       /\ last_sent' = [last_sent EXCEPT ![r] = t]
       /\ in_flight' = in_flight \union {[reporter |-> r, timestamp |-> t, value |-> v]}
  /\ UNCHANGED <<now, checked, report, slot_vars, result_vars>>

(* check_report_relevance.                                                 *)
IsRelevant(t, timestamp) ==
  /\ timestamp >= Slot(t) * SlotLen
  /\ timestamp <= (Slot(t) + 1) * SlotLen

(* process_report up to its wait for the lock of the reports.              *)
CheckReport(m) ==
  /\ m \in in_flight
  /\ in_flight' = in_flight \ {m}
  /\ checked' = IF IsRelevant(now, m.timestamp) THEN checked \union {m} ELSE checked
  /\ UNCHANGED <<now, last_sent, n_sent, report, slot_vars, result_vars>>

(* AllFeedsReports::push: a later report of a reporter replaces its former. *)
PushReport(m) ==
  /\ m \in checked
  /\ checked' = checked \ {m}
  /\ report' = {o \in report : o.reporter # m.reporter} \union {m}
  /\ UNCHANGED <<now, last_sent, n_sent, in_flight, slot_vars, result_vars>>

-----------------------------------------------------------------------------
(* FeedSlotsProcessor::start_loop.                                         *)

ComputeSlot ==
  /\ pc = "top"
  /\ slot' = Slot(now)
  /\ pc' = "select"
  /\ UNCHANGED <<slot_end, now, intake_vars, report, result_vars>>

(* await_end_of_current_slot reads the clock again.                        *)
MutEndOfNextSlot == (Slot(now) + 2) * SlotLen
EndOfCurrentSlot == (Slot(now) + 1) * SlotLen

ArmTimer ==
  /\ pc = "select"
  /\ slot_end' = EndOfCurrentSlot
  /\ pc' = "await"
  /\ UNCHANGED <<slot, now, intake_vars, report, result_vars>>

(* collect_reported_values: reports of errors and of another type do not   *)
(* count.                                                                  *)
ValidReports == {m \in report : m.value # NoValue}

MutQuorumCountsErrors(valid) == QuorumPercentage * Cardinality(Reporters) <= Cardinality(report) * 100
QuorumReached(valid) == QuorumPercentage * Cardinality(Reporters) <= Cardinality(valid) * 100

(* VotedFeedUpdate::should_skip against the last entry of the history; a   *)
(* feed of texts is never skipped.                                         *)
MutShouldSkipIgnoresHeartbeat(value, timestamp) ==
  /\ Aggregator # "majority"
  /\ history # <<>>
  /\ ~ThresholdCrossed(history[Len(history)].value, value, SkipPercentage)

ShouldSkip(value, timestamp) ==
  /\ Aggregator # "majority"
  /\ history # <<>>
  /\ LET last == history[Len(history)]
     IN  /\ ~ThresholdCrossed(last.value, value, SkipPercentage)
         /\ Heartbeat # NoHeartbeat => timestamp < Heartbeat + last.end_slot_timestamp

(* end_slot_timestamp of the slot whose number was read before the wait.   *)
MutEndSlotTimestampAfterWait == SlotLen * (Slot(now) + 1)
EndSlotTimestamp == SlotLen * (slot + 1)

(* consume_reports: what the slot's reports come to.                       *)
ConsumeReports ==
  IF ValidReports = {}
  THEN consumed' = [NothingConsumed EXCEPT !.end_slot_timestamp = EndSlotTimestamp]
  ELSE \E v \in Aggregates(Aggregator, ValidReports) :
         consumed' = [is_quorum_reached |-> QuorumReached(ValidReports),
                      skip |-> ShouldSkip(v, EndSlotTimestamp),
                      value |-> v,
                      end_slot_timestamp |-> EndSlotTimestamp]

(* post_consumed_reports: what is posted goes into the history first.      *)
PostConsumedReports ==
  IF consumed'.is_quorum_reached /\ ~consumed'.skip
  THEN LET entry == [value |-> consumed'.value,
                     end_slot_timestamp |-> consumed'.end_slot_timestamp]
       IN  /\ history' = Append(history, entry)
           /\ posted' = Append(posted, [update |-> entry, proof |-> report])
  ELSE UNCHANGED <<history, posted>>

(* reports.clear(), whatever the slot's reports came to.                   *)
MutClearReportsOfPosts == report' = IF consumed'.is_quorum_reached THEN report ELSE {}
ClearReports == report' = {}

(* process_end_of_slot and post_consumed_reports.  Nobody else writes the  *)
(* feed's history, so that the reports' lock is given back before it is    *)
(* written makes no difference.                                            *)
EndOfSlot ==
  /\ pc = "await"
  /\ now >= slot_end
  /\ ConsumeReports
  /\ PostConsumedReports
  /\ ClearReports
  /\ pc' = "top"
  /\ UNCHANGED <<slot, slot_end, now, intake_vars>>

Tick ==
  /\ now < MaxTime
  /\ now' = now + 1
  /\ UNCHANGED <<intake_vars, report, slot_vars, result_vars>>

Next ==
  \/ \E r \in Reporters : SendReport(r)
  \/ \E m \in in_flight : CheckReport(m)
  \/ \E m \in checked : PushReport(m)
  \/ ComputeSlot
  \/ ArmTimer
  \/ EndOfSlot
  \/ Tick

Spec == Init /\ [][Next]_vars

-----------------------------------------------------------------------------
(* Properties.                                                             *)

Entry == [value : Int, end_slot_timestamp : Nat]

TypeOK ==
  /\ now \in 0..MaxTime
  /\ last_sent \in [Reporters -> Nat \union {-1}] /\ n_sent \in Nat
  /\ in_flight \in SUBSET Report /\ checked \in SUBSET Report /\ report \in SUBSET Report
  /\ pc \in {"top", "select", "await"} /\ slot \in Nat /\ slot_end \in Nat
  /\ slot * SlotLen <= now /\ slot_end <= now + SlotLen
  /\ consumed \in [is_quorum_reached : BOOLEAN, skip : BOOLEAN,
                   value : Int \union {NoValue}, end_slot_timestamp : Nat]
  /\ history \in Seq(Entry)
  /\ posted \in Seq([update : Entry, proof : SUBSET Report])

(* A reporter has one vote in a slot, the one it sent last or a former one *)
(* that overtook it, and no report is counted for two posts.               *)
OneReporterOneVote ==
  /\ \A m, n \in report : m.reporter = n.reporter => m = n
  /\ \A i, j \in DOMAIN posted : i # j => posted[i].proof \intersect posted[j].proof = {}
  /\ \A i \in DOMAIN posted : posted[i].proof \intersect (report \union checked \union in_flight) = {}

(* Posts of the feed carry increasing timestamps that are not in the       *)
(* future, however late the processor is: what the block creator relies on *)
(* when it takes a later post for a newer value.                           *)
PostsInOrder ==
  /\ \A i, j \in DOMAIN posted :
       i < j => posted[i].update.end_slot_timestamp < posted[j].update.end_slot_timestamp
  /\ \A i \in DOMAIN posted : posted[i].update.end_slot_timestamp <= now

(* Enough reporters stand behind a post with a value of their own, and as  *)
(* long as fewer than half of them are faulty the median of a post is      *)
(* between two values that reporters that are not faulty have sent.        *)
PostsAreBacked ==
  \A i \in DOMAIN posted :
    LET valid == {m \in posted[i].proof : m.value # NoValue}
        honest == {m \in valid : m.reporter \notin Faulty}
    IN  /\ Cardinality({m.reporter : m \in valid}) * 100
             >= QuorumPercentage * Cardinality(Reporters)
        /\ Aggregator = "median" /\ 2 * Cardinality(honest) > Cardinality(valid) =>
             \E m, n \in honest : /\ m.value <= posted[i].update.value
                                  /\ posted[i].update.value <= n.value

(* After a slot with a quorum the value posted last stands for what the    *)
(* slot's reports came to: it is less than the threshold away from it and  *)
(* younger than the heartbeat.                                             *)
PostsTrackReports ==
  consumed.is_quorum_reached =>
    /\ posted # <<>>
    /\ LET last == posted[Len(posted)].update
       IN  /\ \/ last.value = consumed.value
              \/ ~ThresholdCrossed(last.value, consumed.value, SkipPercentage)
           /\ Heartbeat # NoHeartbeat =>
                \/ last.end_slot_timestamp = consumed.end_slot_timestamp
                \/ consumed.end_slot_timestamp - last.end_slot_timestamp < Heartbeat

(* Contradicted by the code: the reports a post counts have their          *)
(* timestamps inside the slot that the post is for.                        *)
CountedInTheirSlot ==
  \A i \in DOMAIN posted : \A m \in posted[i].proof :
    /\ m.timestamp >= posted[i].update.end_slot_timestamp - SlotLen
    /\ m.timestamp <= posted[i].update.end_slot_timestamp
=============================================================================
