------------------------- MODULE FeedSlots_proofs -------------------------
(***************************************************************************)
(* The invariants of FeedSlots for any number of reporters, any share of   *)
(* them faulty, any quorum, slot length and skew of the clocks.            *)
(*                                                                         *)
(* The inductive invariant has four parts: Shape gives the variables their *)
(* types as far as the other parts need them, Times ties the slot and the  *)
(* timer to the clock, Votes says where the reports of a reporter can be,  *)
(* and Stamps puts the posts on the time line.                             *)
(***************************************************************************)
EXTENDS FeedSlots, FeedAggregate_proofs, SequenceTheorems

(* Whatever aggregate() can return: for an average nothing is said of it.  *)
AggregateValues == UNION {Aggregates(Aggregator, R) : R \in SUBSET Report}
Update == [value : AggregateValues, end_slot_timestamp : Nat]
Post == [update : Update, proof : SUBSET Report]

Shape ==
  /\ now \in Nat /\ slot \in Nat /\ slot_end \in Nat
  /\ pc \in {"top", "select", "await"}
  /\ last_sent \in [Reporters -> Nat \union {-1}]
  /\ in_flight \in SUBSET Report /\ checked \in SUBSET Report /\ report \in SUBSET Report
  /\ posted \in Seq(Post)

Times ==
  /\ slot * SlotLen <= now
  /\ pc = "await" => SlotLen * (slot + 1) <= slot_end

Waiting == in_flight \union checked

Votes ==
  /\ \A m, n \in Waiting : m.reporter = n.reporter => m = n
  /\ in_flight \intersect checked = {}
  /\ Waiting \intersect report = {}
  /\ \A m, n \in report : m.reporter = n.reporter => m = n
  /\ \A m \in Waiting \union report : m.timestamp <= last_sent[m.reporter]
  /\ \A i \in DOMAIN posted :
       /\ \A m \in posted[i].proof : m.timestamp <= last_sent[m.reporter]
       /\ posted[i].proof \intersect (Waiting \union report) = {}
       /\ \A j \in DOMAIN posted : i # j => posted[i].proof \intersect posted[j].proof = {}

Stamp(i) == posted[i].update.end_slot_timestamp

Stamps ==
  /\ \A i \in DOMAIN posted : Stamp(i) <= now
  /\ pc # "top" => \A i \in DOMAIN posted : Stamp(i) < SlotLen * (slot + 1)
  /\ \A i, j \in DOMAIN posted : i < j => Stamp(i) < Stamp(j)

IInv == Shape /\ Times /\ Votes /\ Stamps

-----------------------------------------------------------------------------
(* Arithmetic of slots.                                                    *)

LEMMA SlotLenType == SlotLen \in Nat \ {0}
BY FeedSlotsAssumption DEF FeedSlotsAssumption

LEMMA Division ==
  ASSUME NEW t \in Nat, NEW len \in Nat \ {0}
  PROVE  /\ t \div len \in Nat
         /\ (t \div len) * len <= t
         /\ t < len * ((t \div len) + 1)
OBVIOUS

LEMMA SlotOfTime ==
  ASSUME NEW t \in Nat
  PROVE  Slot(t) \in Nat /\ Slot(t) * SlotLen <= t /\ t < SlotLen * (Slot(t) + 1)
BY SlotLenType, Division DEF Slot

LEMMA LaterSlot ==
  ASSUME NEW s \in Nat, NEW q \in Nat, NEW len \in Nat \ {0}, NEW t \in Nat,
         s * len <= t, t < len * (q + 1)
  PROVE  len * (s + 1) <= (q + 1) * len
<1>1. s < q + 1
  <2>. SUFFICES ASSUME s >= q + 1 PROVE FALSE
    OBVIOUS
  <2>1. s * len >= (q + 1) * len
    OBVIOUS
  <2>. QED
    BY <2>1
<1>2. (s + 1) <= (q + 1)
  BY <1>1
<1>. QED
  BY <1>2

LEMMA StampType == ASSUME Shape PROVE EndSlotTimestamp \in Nat
BY SlotLenType DEF Shape, EndSlotTimestamp

(* EndOfSlot clears the reports and posts at most one update, with the     *)
(* slot's timestamp and all of the reports behind it.                      *)
NewPost(v) ==
  [update |-> [value |-> v, end_slot_timestamp |-> EndSlotTimestamp], proof |-> report]

LEMMA EndOfSlotPosts ==
  ASSUME Shape, EndOfSlot
  PROVE  /\ report' = {}
         /\ \/ posted' = posted
            \/ \E v \in AggregateValues : posted' = Append(posted, NewPost(v))
<1>1. report' = {}
  BY DEF EndOfSlot, ClearReports
<1>2. CASE ValidReports = {}
  <2>1. ~consumed'.is_quorum_reached
    BY <1>2 DEF EndOfSlot, ConsumeReports, NothingConsumed
  <2>. QED
    BY <1>1, <2>1 DEF EndOfSlot, PostConsumedReports
<1>3. CASE ValidReports # {}
  <2>1. PICK v \in Aggregates(Aggregator, ValidReports) :
          consumed' = [is_quorum_reached |-> QuorumReached(ValidReports),
                       skip |-> ShouldSkip(v, EndSlotTimestamp),
                       value |-> v,
                       end_slot_timestamp |-> EndSlotTimestamp]
    BY <1>3 DEF EndOfSlot, ConsumeReports
  <2>2. v \in AggregateValues
    <3>1. ValidReports \in SUBSET Report
      BY DEF Shape, ValidReports
    <3>. QED
      BY <3>1 DEF AggregateValues
  <2>3. consumed'.value = v /\ consumed'.end_slot_timestamp = EndSlotTimestamp
    BY <2>1
  <2>4. posted' = posted \/ posted' = Append(posted, NewPost(v))
    BY <2>3 DEF EndOfSlot, PostConsumedReports, NewPost
  <2>. QED
    BY <1>1, <2>2, <2>4
<1>. QED
  BY <1>2, <1>3

(* What appending a post does to the posts that there are.                 *)
LEMMA Appended ==
  ASSUME NEW q, NEW S, q \in Seq(S), NEW e \in S, NEW q2, q2 = Append(q, e)
  PROVE  /\ q2 \in Seq(S)
         /\ DOMAIN q \subseteq Int
         /\ DOMAIN q2 = DOMAIN q \union {Len(q) + 1}
         /\ \A i \in DOMAIN q : q2[i] = q[i] /\ i < Len(q) + 1
         /\ q2[Len(q) + 1] = e /\ Len(q) + 1 \notin DOMAIN q /\ Len(q) \in Nat
OBVIOUS

LEMMA PostedTypes ==
  ASSUME Shape, NEW i \in DOMAIN posted
  PROVE  Stamp(i) \in Nat /\ posted[i].proof \in SUBSET Report
<1>1. posted[i] \in Post
  BY DEF Shape
<1>2. posted[i].update \in Update /\ posted[i].proof \in SUBSET Report
  BY <1>1 DEF Post
<1>. QED
  BY <1>2 DEF Update, Stamp

LEMMA NewPostType ==
  ASSUME Shape, NEW v \in AggregateValues
  PROVE  NewPost(v) \in Post
BY StampType DEF NewPost, Post, Update, Shape

-----------------------------------------------------------------------------
(* Shape is preserved.                                                     *)

LEMMA InitShape == ASSUME Init PROVE Shape
BY DEF Init, Shape

LEMMA NextShape == ASSUME Shape, [Next]_vars PROVE Shape'
<1>. USE DEF Shape
<1>1. ASSUME NEW r \in Reporters, SendReport(r) PROVE Shape'
  <2>1. PICK t \in now..(now + MaxSkew), v \in (IF r \in Faulty THEN Values ELSE HonestValues) :
          /\ last_sent' = [last_sent EXCEPT ![r] = t]
          /\ in_flight' = in_flight \union {[reporter |-> r, timestamp |-> t, value |-> v]}
    BY <1>1 DEF SendReport
  <2>2. t \in Nat /\ v \in Values
    BY FeedSlotsAssumption DEF FeedSlotsAssumption
  <2>3. [reporter |-> r, timestamp |-> t, value |-> v] \in Report
    BY <2>2 DEF Report
  <2>4. last_sent' \in [Reporters -> Nat \union {-1}]
    BY <2>1, <2>2
  <2>. QED
    BY <1>1, <2>1, <2>3, <2>4 DEF SendReport, slot_vars, result_vars
<1>2. ASSUME NEW m \in in_flight, CheckReport(m) PROVE Shape'
  BY <1>2 DEF CheckReport, slot_vars, result_vars
<1>3. ASSUME NEW m \in checked, PushReport(m) PROVE Shape'
  BY <1>3 DEF PushReport, slot_vars, result_vars
<1>4. CASE ComputeSlot
  BY <1>4, SlotOfTime DEF ComputeSlot, intake_vars, result_vars
<1>5. CASE ArmTimer
  <2>1. EndOfCurrentSlot \in Nat
    <3>1. Slot(now) \in Nat
      BY SlotOfTime
    <3>. QED
      BY <3>1, SlotLenType DEF EndOfCurrentSlot
  <2>. QED
    BY <1>5, <2>1 DEF ArmTimer, intake_vars, result_vars
<1>6. CASE EndOfSlot
  <2>1. posted' \in Seq(Post)
    BY <1>6, EndOfSlotPosts, NewPostType, Appended
  <2>. QED
    BY <1>6, <2>1, EndOfSlotPosts DEF EndOfSlot, intake_vars
<1>7. CASE Tick
  BY <1>7 DEF Tick, intake_vars, slot_vars, result_vars
<1>8. CASE UNCHANGED vars
  BY <1>8 DEF vars, intake_vars, slot_vars, result_vars
<1>. QED
  BY <1>1, <1>2, <1>3, <1>4, <1>5, <1>6, <1>7, <1>8 DEF Next

-----------------------------------------------------------------------------
(* Times is preserved.                                                     *)

LEMMA InitTimes == ASSUME Init PROVE Times
BY SlotLenType DEF Init, Times

LEMMA NextTimes == ASSUME Shape, Times, [Next]_vars PROVE Times'
<1>. USE DEF Times
<1>1. ASSUME NEW r \in Reporters, SendReport(r) PROVE Times'
  BY <1>1 DEF SendReport, slot_vars
<1>2. ASSUME NEW m \in in_flight, CheckReport(m) PROVE Times'
  BY <1>2 DEF CheckReport, slot_vars
<1>3. ASSUME NEW m \in checked, PushReport(m) PROVE Times'
  BY <1>3 DEF PushReport, slot_vars
<1>4. CASE ComputeSlot
  BY <1>4, SlotOfTime DEF ComputeSlot, Shape
<1>5. CASE ArmTimer
  <2>1. SlotLen * (slot + 1) <= (Slot(now) + 1) * SlotLen
    BY SlotOfTime, SlotLenType, LaterSlot DEF Shape
  <2>. QED
    BY <1>5, <2>1 DEF ArmTimer, EndOfCurrentSlot
<1>6. CASE EndOfSlot
  BY <1>6 DEF EndOfSlot
<1>7. CASE Tick
  <2>1. now <= now'
    BY <1>7 DEF Tick, Shape
  <2>2. slot * SlotLen \in Nat
    BY SlotLenType DEF Shape
  <2>3. slot * SlotLen <= now'
    BY <1>7, <2>1, <2>2 DEF Tick, Shape
  <2>. QED
    BY <1>7, <2>3 DEF Tick, slot_vars
<1>8. CASE UNCHANGED vars
  BY <1>8 DEF vars, slot_vars
<1>. QED
  BY <1>1, <1>2, <1>3, <1>4, <1>5, <1>6, <1>7, <1>8 DEF Next

-----------------------------------------------------------------------------
(* Votes is preserved.                                                     *)

LEMMA InitVotes == ASSUME Init PROVE Votes
BY DEF Init, Votes, Waiting

(* A new report is later than all of its reporter's that are anywhere.     *)
LEMMA SendReportVotes ==
  ASSUME Shape, Votes, NEW r \in Reporters, SendReport(r)
  PROVE  Votes'
<1>. USE DEF Votes, Waiting
<1>1. PICK t \in now..(now + MaxSkew), v \in (IF r \in Faulty THEN Values ELSE HonestValues) :
        /\ t > last_sent[r]
        /\ last_sent' = [last_sent EXCEPT ![r] = t]
        /\ in_flight' = in_flight \union {[reporter |-> r, timestamp |-> t, value |-> v]}
  BY DEF SendReport
<1>. DEFINE new == [reporter |-> r, timestamp |-> t, value |-> v]
<1>2. /\ UNCHANGED <<checked, report, posted>>
      /\ \A m \in in_flight \union checked : m.reporter # r
  BY DEF SendReport, result_vars
<1>3. t \in Int /\ \A q \in Reporters : last_sent[q] \in Int
  BY FeedSlotsAssumption DEF FeedSlotsAssumption, Shape
<1>4. /\ \A q \in Reporters : last_sent[q] <= last_sent'[q]
      /\ last_sent'[r] = t
      /\ \A q \in Reporters : last_sent'[q] \in Int
  BY <1>1, <1>3 DEF Shape
<1>5. \A m \in Report : m.reporter \in Reporters /\ m.timestamp \in Int
  BY DEF Report
<1>6. \A i \in DOMAIN posted : posted[i].proof \in SUBSET Report
  BY PostedTypes
<1>7. \A m \in Report : m.timestamp <= last_sent[m.reporter] =>
        m.timestamp <= last_sent'[m.reporter] /\ m # new
  <2>1. SUFFICES ASSUME NEW m \in Report, m.timestamp <= last_sent[m.reporter]
                 PROVE  m.timestamp <= last_sent'[m.reporter] /\ m # new
    OBVIOUS
  <2>2. m.timestamp <= last_sent'[m.reporter]
    BY <2>1, <1>3, <1>4, <1>5
  <2>3. m # new
    BY <2>1, <1>1, <1>3, <1>5
  <2>. QED
    BY <2>2, <2>3
<1>8. new.reporter = r /\ new.timestamp = t
  OBVIOUS
<1>9. in_flight' = in_flight \union {new}
  BY <1>1
<1>. HIDE DEF new
<1>10. \A m \in Waiting \union report : m \in Report
  BY DEF Shape
<1>11. \A m \in Waiting' \union report' : m.timestamp <= last_sent'[m.reporter]
  BY <1>2, <1>4, <1>7, <1>8, <1>9, <1>10, <1>3
<1>12. /\ \A m, n \in Waiting' : m.reporter = n.reporter => m = n
       /\ in_flight' \intersect checked' = {}
  BY <1>2, <1>8, <1>9
<1>13. Waiting' \intersect report' = {}
  BY <1>2, <1>7, <1>9, <1>10
<1>14. ASSUME NEW i \in DOMAIN posted'
       PROVE  /\ \A m \in posted'[i].proof : m.timestamp <= last_sent'[m.reporter]
              /\ posted'[i].proof \intersect (Waiting' \union report') = {}
  BY <1>2, <1>6, <1>7, <1>9
<1>. QED
  BY <1>2, <1>11, <1>12, <1>13, <1>14

LEMMA EndOfSlotVotes ==
  ASSUME Shape, Votes, EndOfSlot
  PROVE  Votes'
<1>. USE DEF Votes, Waiting
<1>1. UNCHANGED <<in_flight, checked, last_sent>> /\ report' = {}
  BY EndOfSlotPosts DEF EndOfSlot, intake_vars
<1>2. CASE posted' = posted
  BY <1>1, <1>2
<1>3. ASSUME NEW v \in AggregateValues, posted' = Append(posted, NewPost(v))
      PROVE  Votes'
  <2>1. /\ DOMAIN posted' = DOMAIN posted \union {Len(posted) + 1}
        /\ \A i \in DOMAIN posted : posted'[i] = posted[i]
        /\ posted'[Len(posted) + 1] = NewPost(v)
    BY <1>3, NewPostType, Appended DEF Shape
  <2>2. posted'[Len(posted) + 1].proof = report
    BY <2>1 DEF NewPost
  <2>. QED
    BY <1>1, <2>1, <2>2
<1>. QED
  BY <1>2, <1>3, EndOfSlotPosts

LEMMA NextVotes == ASSUME Shape, Votes, [Next]_vars PROVE Votes'
<1>1. ASSUME NEW r \in Reporters, SendReport(r) PROVE Votes'
  BY <1>1, SendReportVotes
<1>2. ASSUME NEW m \in in_flight, CheckReport(m) PROVE Votes'
  BY <1>2 DEF CheckReport, slot_vars, result_vars, Votes, Waiting
<1>3. ASSUME NEW m \in checked, PushReport(m) PROVE Votes'
  BY <1>3 DEF PushReport, slot_vars, result_vars, Votes, Waiting
<1>4. CASE ComputeSlot
  BY <1>4 DEF ComputeSlot, intake_vars, result_vars, Votes, Waiting
<1>5. CASE ArmTimer
  BY <1>5 DEF ArmTimer, intake_vars, result_vars, Votes, Waiting
<1>6. CASE EndOfSlot
  BY <1>6, EndOfSlotVotes
<1>7. CASE Tick
  BY <1>7 DEF Tick, intake_vars, slot_vars, result_vars, Votes, Waiting
<1>8. CASE UNCHANGED vars
  BY <1>8 DEF vars, intake_vars, slot_vars, result_vars, Votes, Waiting
<1>. QED
  BY <1>1, <1>2, <1>3, <1>4, <1>5, <1>6, <1>7, <1>8 DEF Next

-----------------------------------------------------------------------------
(* Stamps is preserved.                                                    *)

LEMMA InitStamps == ASSUME Init PROVE Stamps
BY DEF Init, Stamps

LEMMA EndOfSlotStamps ==
  ASSUME Shape, Times, Stamps, EndOfSlot
  PROVE  Stamps'
<1>. USE DEF Stamps, Stamp
<1>1. /\ UNCHANGED <<now, slot, slot_end>> /\ pc' = "top"
      /\ pc = "await" /\ now >= slot_end
  BY DEF EndOfSlot
<1>2. CASE posted' = posted
  BY <1>1, <1>2
<1>3. ASSUME NEW v \in AggregateValues, posted' = Append(posted, NewPost(v))
      PROVE  Stamps'
  <2>1. /\ DOMAIN posted' = DOMAIN posted \union {Len(posted) + 1}
        /\ DOMAIN posted \subseteq Int /\ Len(posted) \in Nat
        /\ \A i \in DOMAIN posted : posted'[i] = posted[i] /\ i < Len(posted) + 1
        /\ posted'[Len(posted) + 1] = NewPost(v)
    BY <1>3, NewPostType, Appended DEF Shape
  <2>2. posted'[Len(posted) + 1].update.end_slot_timestamp = SlotLen * (slot + 1)
    BY <2>1 DEF NewPost, EndSlotTimestamp
  <2>3. SlotLen * (slot + 1) <= now
    <3>1. SlotLen * (slot + 1) \in Nat
      BY SlotLenType DEF Shape
    <3>. QED
      BY <3>1, <1>1 DEF Times, Shape
  <2>. DEFINE f == [i \in DOMAIN posted |-> Stamp(i)]
              g == [i \in DOMAIN posted' |-> posted'[i].update.end_slot_timestamp]
              len == Len(posted)
  <2>4. /\ DOMAIN posted = 1..len /\ DOMAIN posted' = 1..(len + 1) /\ len \in Nat
        /\ SlotLen * (slot + 1) \in Nat
    BY <1>3, NewPostType, SlotLenType DEF Shape
  <2>5. /\ \A i \in 1..len : f[i] \in Nat /\ f[i] < SlotLen * (slot + 1) /\ g[i] = f[i]
        /\ \A i \in 1..len : f[i] <= now
        /\ \A i, j \in 1..len : i < j => f[i] < f[j]
        /\ g[len + 1] = SlotLen * (slot + 1)
    BY <1>1, <2>1, <2>2, <2>4, PostedTypes
  <2>. HIDE DEF f, g, len
  <2>6. \A i, j \in 1..(len + 1) : i < j => g[i] < g[j]
    <3>. DEFINE x == SlotLen * (slot + 1)
    <3>1. x \in Nat /\ g[len + 1] = x
      BY <2>4, <2>5
    <3>2. \A i \in 1..len : f[i] < x /\ g[i] = f[i]
      BY <2>5
    <3>. HIDE DEF x
    <3>3. SUFFICES ASSUME NEW i \in 1..(len + 1), NEW j \in 1..(len + 1), i < j
                   PROVE  g[i] < g[j]
      OBVIOUS
    <3>4. i \in 1..len /\ (j \in 1..len \/ j = len + 1)
      BY <2>4, <3>3
    <3>5. CASE j \in 1..len
      BY <2>5, <3>2, <3>3, <3>4, <3>5
    <3>6. CASE j = len + 1
      BY <3>1, <3>2, <3>4, <3>6
    <3>. QED
      BY <3>4, <3>5, <3>6
  <2>7. \A i \in 1..(len + 1) : g[i] <= now
    BY <2>3, <2>4, <2>5
  <2>8. \A i \in DOMAIN posted' : g[i] = Stamp(i)'
    BY DEF g
  <2>. QED
    BY <1>1, <2>4, <2>6, <2>7, <2>8
<1>. QED
  BY <1>2, <1>3, EndOfSlotPosts

LEMMA NextStamps == ASSUME Shape, Times, Stamps, [Next]_vars PROVE Stamps'
<1>. USE DEF Stamps, Stamp
<1>1. ASSUME NEW r \in Reporters, SendReport(r) PROVE Stamps'
  BY <1>1 DEF SendReport, slot_vars, result_vars
<1>2. ASSUME NEW m \in in_flight, CheckReport(m) PROVE Stamps'
  BY <1>2 DEF CheckReport, slot_vars, result_vars
<1>3. ASSUME NEW m \in checked, PushReport(m) PROVE Stamps'
  BY <1>3 DEF PushReport, slot_vars, result_vars
<1>4. CASE ComputeSlot
  <2>1. \A i \in DOMAIN posted : Stamp(i) \in Nat
    BY PostedTypes
  <2>2. now < SlotLen * (Slot(now) + 1) /\ SlotLen * (Slot(now) + 1) \in Nat
    <3>1. Slot(now) \in Nat /\ now < SlotLen * (Slot(now) + 1)
      BY SlotOfTime DEF Shape
    <3>. QED
      BY <3>1, SlotLenType
  <2>3. \A i \in DOMAIN posted : Stamp(i) < SlotLen * (Slot(now) + 1)
    <3>1. SUFFICES ASSUME NEW i \in DOMAIN posted PROVE Stamp(i) < SlotLen * (Slot(now) + 1)
      OBVIOUS
    <3>2. Stamp(i) \in Nat /\ Stamp(i) <= now
      BY <2>1
    <3>. HIDE DEF Stamp
    <3>. QED
      BY <3>2, <2>2 DEF Shape
  <2>. QED
    BY <1>4, <2>3 DEF ComputeSlot, intake_vars, result_vars
<1>5. CASE ArmTimer
  BY <1>5 DEF ArmTimer, intake_vars, result_vars
<1>6. CASE EndOfSlot
  BY <1>6, EndOfSlotStamps
<1>7. CASE Tick
  <2>1. \A i \in DOMAIN posted : Stamp(i) \in Nat
    BY PostedTypes
  <2>2. \A i \in DOMAIN posted : Stamp(i) <= now'
    <3>. HIDE DEF Stamp
    <3>. QED
      BY <1>7, <2>1 DEF Tick, Shape
  <2>. QED
    BY <1>7, <2>2 DEF Tick, intake_vars, slot_vars, result_vars
<1>8. CASE UNCHANGED vars
  BY <1>8 DEF vars, slot_vars, result_vars
<1>. QED
  BY <1>1, <1>2, <1>3, <1>4, <1>5, <1>6, <1>7, <1>8 DEF Next

-----------------------------------------------------------------------------
(* The theorems.                                                           *)

LEMMA Inductive == Spec => []IInv
<1>1. Init => IInv
  BY InitShape, InitTimes, InitVotes, InitStamps DEF IInv
<1>2. IInv /\ [Next]_vars => IInv'
  BY NextShape, NextTimes, NextVotes, NextStamps DEF IInv
<1>. QED
  BY <1>1, <1>2, PTL DEF Spec

(* A reporter has one vote in a slot and no report counts for two posts    *)
(* (AllFeedsReports::push, the clearing of the reports in                  *)
(* process_end_of_slot).                                                   *)
THEOREM OneReporterOneVoteHolds == Spec => []OneReporterOneVote
<1>1. IInv => OneReporterOneVote
  BY DEF IInv, Votes, Waiting, OneReporterOneVote
<1>. QED
  BY <1>1, Inductive, PTL

(* The posts of a feed carry increasing timestamps, none in the future,    *)
(* whatever the two reads of the clock in start_loop return.               *)
THEOREM PostsInOrderHolds == Spec => []PostsInOrder
<1>1. IInv => PostsInOrder
  BY DEF IInv, Stamps, Stamp, PostsInOrder
<1>. QED
  BY <1>1, Inductive, PTL

(* The reports of a slot are as many as their reporters.                   *)
LEMMA ReportersOf ==
  ASSUME NEW reports \in SUBSET Report,
         \A m, n \in reports : m.reporter = n.reporter => m = n
  PROVE  /\ IsFiniteSet(reports)
         /\ Cardinality({m.reporter : m \in reports}) = Cardinality(reports)
<1>. DEFINE f == [m \in reports |-> m.reporter]
            R == {m.reporter : m \in reports}
<1>1. R \subseteq Reporters /\ IsFiniteSet(Reporters)
  BY FeedSlotsAssumption DEF Report, FeedSlotsAssumption
<1>2. IsFiniteSet(R)
  BY <1>1, FS_Subset
<1>3. f \in [reports -> R] /\ f \in Surjection(reports, R) /\ f \in Injection(reports, R)
  BY DEF Surjection, Injection, IsInjective
<1>4. IsFiniteSet(reports) /\ Cardinality(reports) = Cardinality(R)
  <2>. HIDE DEF R, f
  <2>. QED
    BY <1>2, <1>3, FS_Injection
<1>. QED
  BY <1>4

(* What PostsAreBacked says of a post.                                     *)
Backed(p) ==
  LET valid == {m \in p.proof : m.value # NoValue}
      honest == {m \in valid : m.reporter \notin Faulty}
  IN  /\ Cardinality({m.reporter : m \in valid}) * 100 >= QuorumPercentage * Cardinality(Reporters)
      /\ Aggregator = "median" /\ 2 * Cardinality(honest) > Cardinality(valid) =>
           \E m, n \in honest : m.value <= p.update.value /\ p.update.value <= n.value

LEMMA NewPostIsBacked ==
  ASSUME Shape, Votes, EndOfSlot, posted' # posted
  PROVE  \E v \in AggregateValues : posted' = Append(posted, NewPost(v)) /\ Backed(NewPost(v))
<1>1. consumed'.is_quorum_reached
  BY DEF EndOfSlot, PostConsumedReports
<1>2. ValidReports # {}
  BY <1>1 DEF EndOfSlot, ConsumeReports, NothingConsumed
<1>3. PICK v \in Aggregates(Aggregator, ValidReports) :
        consumed' = [is_quorum_reached |-> QuorumReached(ValidReports),
                     skip |-> ShouldSkip(v, EndSlotTimestamp),
                     value |-> v,
                     end_slot_timestamp |-> EndSlotTimestamp]
  BY <1>2 DEF EndOfSlot, ConsumeReports
<1>4. ValidReports \in SUBSET Report /\ v \in AggregateValues
  BY DEF Shape, ValidReports, AggregateValues
<1>5. posted' = Append(posted, NewPost(v))
  <2>1. consumed'.value = v /\ consumed'.end_slot_timestamp = EndSlotTimestamp
    BY <1>3
  <2>. QED
    BY <2>1 DEF EndOfSlot, PostConsumedReports, NewPost
<1>. DEFINE honest == {m \in ValidReports : m.reporter \notin Faulty}
<1>6. /\ IsFiniteSet(ValidReports)
      /\ Cardinality({m.reporter : m \in ValidReports}) = Cardinality(ValidReports)
  BY <1>4, ReportersOf DEF Votes, ValidReports
<1>7. Cardinality({m.reporter : m \in ValidReports}) * 100 >= QuorumPercentage * Cardinality(Reporters)
  <2>1. QuorumReached(ValidReports)
    BY <1>1, <1>3
  <2>2. Cardinality(ValidReports) \in Nat /\ Cardinality(Reporters) \in Nat /\ QuorumPercentage \in Nat
    BY <1>6, FeedSlotsAssumption, FS_CardinalityType DEF FeedSlotsAssumption
  <2>. QED
    BY <1>6, <2>1, <2>2 DEF QuorumReached
<1>8. ASSUME Aggregator = "median", 2 * Cardinality(honest) > Cardinality(ValidReports)
      PROVE  \E m, n \in honest : m.value <= v /\ v <= n.value
  <2>1. v = Median(ValidReports)
    BY <1>8 DEF Aggregates
  <2>2. IsReports(ValidReports)
    BY <1>4, <1>6, FeedSlotsAssumption DEF IsReports, ValidReports, Report, FeedSlotsAssumption
  <2>3. honest \in SUBSET ValidReports
    OBVIOUS
  <2>. HIDE DEF honest
  <2>. QED
    BY <1>8, <2>1, <2>2, <2>3, MedianIsRobust
<1>9. Backed(NewPost(v))
  <2>1. NewPost(v).proof = report /\ NewPost(v).update.value = v
    BY DEF NewPost
  <2>2. {m \in NewPost(v).proof : m.value # NoValue} = ValidReports
    BY <2>1 DEF ValidReports
  <2>. QED
    BY <1>7, <1>8, <2>1, <2>2 DEF Backed
<1>. QED
  BY <1>4, <1>5, <1>9

(* A quorum stands behind every post, and fewer faulty reports than half   *)
(* cannot move a median out of the honest values (quorum_is_reached and    *)
(* aggregate).                                                             *)
THEOREM PostsAreBackedHolds == Spec => []PostsAreBacked
<1>1. Init => PostsAreBacked
  BY DEF Init, PostsAreBacked
<1>2. PostsAreBacked <=> \A i \in DOMAIN posted : Backed(posted[i])
  BY DEF PostsAreBacked, Backed
<1>3. PostsAreBacked' <=> \A i \in DOMAIN posted' : Backed(posted'[i])
  BY DEF PostsAreBacked, Backed
<1>4. IInv /\ [Next]_vars /\ PostsAreBacked => PostsAreBacked'
  <2>. SUFFICES ASSUME IInv, [Next]_vars, PostsAreBacked PROVE PostsAreBacked'
    OBVIOUS
  <2>1. CASE posted' = posted
    BY <1>2, <1>3, <2>1
  <2>2. CASE posted' # posted
    <3>1. EndOfSlot
      BY <2>2 DEF Next, vars, result_vars, SendReport, CheckReport, PushReport, ComputeSlot,
                  ArmTimer, Tick
    <3>2. PICK v \in AggregateValues : posted' = Append(posted, NewPost(v)) /\ Backed(NewPost(v))
      BY <2>2, <3>1, NewPostIsBacked DEF IInv
    <3>3. /\ DOMAIN posted' = DOMAIN posted \union {Len(posted) + 1}
          /\ \A i \in DOMAIN posted : posted'[i] = posted[i]
          /\ posted'[Len(posted) + 1] = NewPost(v)
      BY <3>2, NewPostType, Appended DEF IInv, Shape
    <3>. QED
      BY <1>2, <1>3, <3>2, <3>3
  <2>. QED
    BY <2>1, <2>2
<1>. QED
  BY <1>1, <1>4, Inductive, PTL DEF Spec

-----------------------------------------------------------------------------
(* The history is what was posted, so that the decision to skip is taken   *)
(* against the update posted last.                                         *)
HistoryIsPosted ==
  /\ history \in Seq(Update)
  /\ Len(history) = Len(posted)
  /\ \A i \in DOMAIN posted : history[i] = posted[i].update

LEMMA EndOfSlotHistory ==
  ASSUME Shape, HistoryIsPosted, EndOfSlot
  PROVE  HistoryIsPosted'
<1>1. CASE ~(consumed'.is_quorum_reached /\ ~consumed'.skip)
  BY <1>1 DEF EndOfSlot, PostConsumedReports, HistoryIsPosted
<1>2. CASE consumed'.is_quorum_reached /\ ~consumed'.skip
  <2>. DEFINE entry == [value |-> consumed'.value, end_slot_timestamp |-> consumed'.end_slot_timestamp]
              post == [update |-> entry, proof |-> report]
  <2>1. history' = Append(history, entry) /\ posted' = Append(posted, post)
    BY <1>2 DEF EndOfSlot, PostConsumedReports
  <2>2. entry \in Update
    <3>1. ValidReports # {}
      BY <1>2 DEF EndOfSlot, ConsumeReports, NothingConsumed
    <3>2. PICK v \in Aggregates(Aggregator, ValidReports) :
            consumed' = [is_quorum_reached |-> QuorumReached(ValidReports),
                         skip |-> ShouldSkip(v, EndSlotTimestamp),
                         value |-> v,
                         end_slot_timestamp |-> EndSlotTimestamp]
      BY <3>1 DEF EndOfSlot, ConsumeReports
    <3>3. v \in AggregateValues
      BY DEF Shape, ValidReports, AggregateValues
    <3>4. consumed'.value = v /\ consumed'.end_slot_timestamp = EndSlotTimestamp
      BY <3>2
    <3>. QED
      BY <3>3, <3>4, StampType DEF Update
  <2>3. post \in Post /\ post.update = entry
    BY <2>2 DEF Post, Shape
  <2>. HIDE DEF entry, post
  <2>4. /\ posted \in Seq(Post) /\ history \in Seq(Update)
        /\ DOMAIN posted = 1..Len(posted)
    BY DEF Shape, HistoryIsPosted
  <2>5. /\ DOMAIN posted' = DOMAIN posted \union {Len(posted) + 1}
        /\ \A i \in DOMAIN posted : posted'[i] = posted[i]
        /\ posted'[Len(posted) + 1] = post /\ Len(posted') = Len(posted) + 1
    BY <2>1, <2>3, <2>4
  <2>6. /\ history' \in Seq(Update) /\ Len(history') = Len(history) + 1
        /\ \A i \in 1..Len(history) : history'[i] = history[i]
        /\ history'[Len(history) + 1] = entry
    BY <2>1, <2>2, <2>4
  <2>. QED
    BY <2>3, <2>4, <2>5, <2>6 DEF HistoryIsPosted
<1>. QED
  BY <1>1, <1>2

LEMMA EndOfSlotTracks ==
  ASSUME Shape, HistoryIsPosted, EndOfSlot
  PROVE  PostsTrackReports'
<1>. SUFFICES ASSUME consumed'.is_quorum_reached
              PROVE  /\ posted' # <<>>
                     /\ LET last == posted'[Len(posted')].update
                        IN  /\ \/ last.value = consumed'.value
                               \/ ~ThresholdCrossed(last.value, consumed'.value, SkipPercentage)
                            /\ Heartbeat # NoHeartbeat =>
                                 \/ last.end_slot_timestamp = consumed'.end_slot_timestamp
                                 \/ consumed'.end_slot_timestamp - last.end_slot_timestamp < Heartbeat
  BY DEF PostsTrackReports
<1>1. CASE ~consumed'.skip
  <2>. DEFINE entry == [value |-> consumed'.value, end_slot_timestamp |-> consumed'.end_slot_timestamp]
              post == [update |-> entry, proof |-> report]
  <2>1. posted' = Append(posted, post)
    BY <1>1 DEF EndOfSlot, PostConsumedReports
  <2>2. post.update = entry /\ entry.value = consumed'.value
        /\ entry.end_slot_timestamp = consumed'.end_slot_timestamp
    OBVIOUS
  <2>. HIDE DEF entry, post
  <2>3. posted' # <<>> /\ posted'[Len(posted')] = post
    BY <2>1 DEF Shape
  <2>. QED
    BY <2>2, <2>3
<1>2. CASE consumed'.skip
  <2>1. posted' = posted
    BY <1>2 DEF EndOfSlot, PostConsumedReports
  <2>2. ValidReports # {}
    BY DEF EndOfSlot, ConsumeReports, NothingConsumed
  <2>3. PICK v \in Aggregates(Aggregator, ValidReports) :
          consumed' = [is_quorum_reached |-> QuorumReached(ValidReports),
                       skip |-> ShouldSkip(v, EndSlotTimestamp),
                       value |-> v,
                       end_slot_timestamp |-> EndSlotTimestamp]
    BY <2>2 DEF EndOfSlot, ConsumeReports
  <2>4. /\ consumed'.value = v /\ consumed'.end_slot_timestamp = EndSlotTimestamp
        /\ ShouldSkip(v, EndSlotTimestamp)
    BY <1>2, <2>3
  <2>. DEFINE last == history[Len(history)]
  <2>5. /\ history # <<>> /\ ~ThresholdCrossed(last.value, v, SkipPercentage)
        /\ Heartbeat # NoHeartbeat => EndSlotTimestamp < Heartbeat + last.end_slot_timestamp
    BY <2>4 DEF ShouldSkip
  <2>6. posted # <<>> /\ Len(posted) \in DOMAIN posted /\ last = posted[Len(posted)].update
    BY <2>5 DEF HistoryIsPosted, Shape
  <2>7. last.end_slot_timestamp \in Nat
    BY <2>6, PostedTypes DEF Stamp
  <2>. HIDE DEF last
  <2>8. Heartbeat # NoHeartbeat => EndSlotTimestamp - last.end_slot_timestamp < Heartbeat
    BY <2>5, <2>7, StampType, FeedSlotsAssumption DEF FeedSlotsAssumption
  <2>. QED
    BY <2>1, <2>4, <2>5, <2>6, <2>8
<1>. QED
  BY <1>1, <1>2

(* After a slot with a quorum the value posted last is closer to the       *)
(* slot's than the threshold and younger than the heartbeat (should_skip   *)
(* and the history that post_consumed_reports writes).                     *)
THEOREM PostsTrackReportsHolds == Spec => []PostsTrackReports
<1>1. Init => HistoryIsPosted /\ PostsTrackReports
  BY DEF Init, HistoryIsPosted, PostsTrackReports, NothingConsumed
<1>2. IInv /\ [Next]_vars /\ HistoryIsPosted /\ PostsTrackReports
        => HistoryIsPosted' /\ PostsTrackReports'
  <2>. SUFFICES ASSUME IInv, [Next]_vars, HistoryIsPosted, PostsTrackReports
                PROVE  HistoryIsPosted' /\ PostsTrackReports'
    OBVIOUS
  <2>1. CASE EndOfSlot
    BY <2>1, EndOfSlotHistory, EndOfSlotTracks DEF IInv
  <2>2. CASE UNCHANGED result_vars
    BY <2>2 DEF result_vars, HistoryIsPosted, PostsTrackReports
  <2>3. EndOfSlot \/ UNCHANGED result_vars
    BY DEF Next, vars, result_vars, SendReport, CheckReport, PushReport, ComputeSlot, ArmTimer, Tick
  <2>. QED
    BY <2>1, <2>2, <2>3
<1>. QED
  BY <1>1, <1>2, Inductive, PTL DEF Spec

-----------------------------------------------------------------------------
(* Types.  An average is a sum over a set, of which nothing can be proved  *)
(* without induction; the theorem leaves that aggregator out.              *)

LEMMA AggregateType ==
  ASSUME Aggregator # "average", NEW reports, IsReports(reports), reports # {},
         NEW v \in Aggregates(Aggregator, reports)
  PROVE  v \in Int
<1>1. CASE Aggregator = "median"
  <2>1. 2 * Cardinality(reports) > Cardinality(reports)
    <3>1. IsFiniteSet(reports)
      BY DEF IsReports
    <3>2. Cardinality(reports) \in Nat /\ Cardinality(reports) # 0
      BY <3>1, FS_CardinalityType, FS_EmptySet
    <3>. QED
      BY <3>2
  <2>2. v = Median(reports)
    BY <1>1 DEF Aggregates
  <2>. QED
    BY <2>1, <2>2, MedianIsRobust
<1>2. CASE Aggregator = "majority"
  BY <1>2 DEF Aggregates, Majorities, ValuesOf, IsReports
<1>. QED
  BY <1>1, <1>2, FeedSlotsAssumption DEF FeedSlotsAssumption

Consumed == [is_quorum_reached : BOOLEAN, skip : BOOLEAN,
             value : Int \union {NoValue}, end_slot_timestamp : Nat]

Results ==
  /\ consumed \in Consumed
  /\ history \in Seq(Entry)
  /\ posted \in Seq([update : Entry, proof : SUBSET Report])

LEMMA EndOfSlotResults ==
  ASSUME Aggregator # "average", Shape, Votes, Results, EndOfSlot
  PROVE  Results'
<1>1. CASE ValidReports = {}
  <2>1. consumed' = [NothingConsumed EXCEPT !.end_slot_timestamp = EndSlotTimestamp]
    BY <1>1 DEF EndOfSlot, ConsumeReports
  <2>2. consumed' \in Consumed /\ ~consumed'.is_quorum_reached
    BY <2>1, StampType DEF NothingConsumed, Consumed
  <2>. QED
    BY <2>2 DEF EndOfSlot, PostConsumedReports, Results
<1>2. CASE ValidReports # {}
  <2>1. PICK v \in Aggregates(Aggregator, ValidReports) :
          consumed' = [is_quorum_reached |-> QuorumReached(ValidReports),
                       skip |-> ShouldSkip(v, EndSlotTimestamp),
                       value |-> v,
                       end_slot_timestamp |-> EndSlotTimestamp]
    BY <1>2 DEF EndOfSlot, ConsumeReports
  <2>2. ValidReports \in SUBSET Report
    BY DEF Shape, ValidReports
  <2>3. IsFiniteSet(ValidReports)
    BY <2>2, ReportersOf DEF Votes, ValidReports
  <2>4. v \in Int
    <3>1. IsReports(ValidReports)
      BY <2>2, <2>3, FeedSlotsAssumption DEF IsReports, ValidReports, Report, FeedSlotsAssumption
    <3>. QED
      BY <1>2, <3>1, AggregateType
  <2>5. QuorumReached(ValidReports) \in BOOLEAN /\ ShouldSkip(v, EndSlotTimestamp) \in BOOLEAN
    BY DEF QuorumReached, ShouldSkip
  <2>6. consumed' \in Consumed
    BY <2>1, <2>4, <2>5, StampType DEF Consumed
  <2>. DEFINE entry == [value |-> consumed'.value, end_slot_timestamp |-> consumed'.end_slot_timestamp]
              post == [update |-> entry, proof |-> report]
  <2>7. entry \in Entry
    BY <2>1, <2>4, StampType DEF Entry
  <2>8. post \in [update : Entry, proof : SUBSET Report]
    BY <2>7 DEF Shape
  <2>9. \/ history' = history /\ posted' = posted
        \/ history' = Append(history, entry) /\ posted' = Append(posted, post)
    BY DEF EndOfSlot, PostConsumedReports
  <2>. HIDE DEF entry, post
  <2>. DEFINE PostSet == [update : Entry, proof : SUBSET Report]
  <2>12. history \in Seq(Entry) /\ posted \in Seq(PostSet) /\ post \in PostSet
    BY <2>8 DEF Results
  <2>. HIDE DEF PostSet
  <2>10. history' \in Seq(Entry)
    <3>1. Append(history, entry) \in Seq(Entry)
      BY <2>7, <2>12, AppendProperties
    <3>. QED
      BY <2>9, <2>12, <3>1
  <2>11. posted' \in Seq(PostSet)
    <3>1. Append(posted, post) \in Seq(PostSet)
      BY <2>12, AppendProperties
    <3>. QED
      BY <2>9, <2>12, <3>1
  <2>. QED
    BY <2>6, <2>10, <2>11 DEF Results, PostSet
<1>. QED
  BY <1>1, <1>2

(* Bounds of the clock that Shape and Times leave out.                     *)
Clock ==
  /\ now \in 0..MaxTime /\ n_sent \in Nat
  /\ slot_end <= now + SlotLen

LEMMA NextClock == ASSUME Shape, Clock, [Next]_vars PROVE Clock'
<1>. USE DEF Clock
<1>1. ASSUME NEW r \in Reporters, SendReport(r) PROVE Clock'
  BY <1>1 DEF SendReport, slot_vars
<1>2. ASSUME NEW m \in in_flight, CheckReport(m) PROVE Clock'
  BY <1>2 DEF CheckReport, slot_vars
<1>3. ASSUME NEW m \in checked, PushReport(m) PROVE Clock'
  BY <1>3 DEF PushReport, slot_vars
<1>4. CASE ComputeSlot
  BY <1>4 DEF ComputeSlot, intake_vars
<1>5. CASE ArmTimer
  <2>1. Slot(now) \in Nat /\ Slot(now) * SlotLen <= now
    BY SlotOfTime DEF Shape
  <2>2. (Slot(now) + 1) * SlotLen <= now + SlotLen
    BY <2>1, SlotLenType DEF Shape
  <2>. QED
    BY <1>5, <2>2 DEF ArmTimer, EndOfCurrentSlot, intake_vars
<1>6. CASE EndOfSlot
  BY <1>6 DEF EndOfSlot, intake_vars
<1>7. CASE Tick
  BY <1>7, SlotLenType, FeedSlotsAssumption DEF Tick, intake_vars, slot_vars, Shape, FeedSlotsAssumption
<1>8. CASE UNCHANGED vars
  BY <1>8 DEF vars, intake_vars, slot_vars
<1>. QED
  BY <1>1, <1>2, <1>3, <1>4, <1>5, <1>6, <1>7, <1>8 DEF Next

(* The types of the feed's state; what a median or a majority returns is a *)
(* value that was reported or the middle of two.                           *)
THEOREM TypeCorrect == ASSUME Aggregator # "average" PROVE Spec => []TypeOK
<1>1. Init => Results /\ Clock
  BY SlotLenType, FeedSlotsAssumption
     DEF Init, Results, Clock, Consumed, NothingConsumed, FeedSlotsAssumption
<1>2. IInv /\ [Next]_vars /\ Results /\ Clock => Results' /\ Clock'
  <2>. SUFFICES ASSUME IInv, [Next]_vars, Results, Clock
                PROVE  Results' /\ Clock'
    OBVIOUS
  <2>1. Clock'
    BY NextClock DEF IInv
  <2>2. CASE EndOfSlot
    BY <2>1, <2>2, EndOfSlotResults DEF IInv
  <2>3. CASE UNCHANGED result_vars
    BY <2>1, <2>3 DEF result_vars, Results
  <2>4. EndOfSlot \/ UNCHANGED result_vars
    BY DEF Next, vars, result_vars, SendReport, CheckReport, PushReport, ComputeSlot, ArmTimer, Tick
  <2>. QED
    BY <2>2, <2>3, <2>4
<1>3. IInv /\ Results /\ Clock => TypeOK
  BY DEF IInv, Shape, Times, Results, Clock, Consumed, TypeOK
<1>. QED
  BY <1>1, <1>2, <1>3, Inductive, PTL DEF Spec
===========================================================================
