--------------------------- MODULE FeedAggregate ---------------------------
(***************************************************************************)
(* How the values that reporters sent for one slot become one value        *)
(* (libs/feed_registry/src/aggregate.rs), and when a value has to be       *)
(* published (VotedFeedUpdate::should_skip).                               *)
(*                                                                         *)
(* The reports aggregated are a set of records with distinct reporters and *)
(* a value each.  Values are integers; an instance chooses them so that    *)
(* the means it takes are whole.                                           *)
(***************************************************************************)
EXTENDS Integers, FiniteSets, FiniteSetsExt

ValuesOf(reports) == {r.value : r \in reports}
Below(reports, v) == {r \in reports : r.value < v}
AtMost(reports, v) == {r \in reports : r.value <= v}
Equal(reports, v) == {r \in reports : r.value = v}

(* The element at index k, counted from 0, of the sorted values.           *)
Sorted(reports, k) ==
  CHOOSE v \in ValuesOf(reports) :
    Cardinality(Below(reports, v)) <= k /\ k < Cardinality(AtMost(reports, v))

Median(reports) ==
  LET size == Cardinality(reports)
      middle == size \div 2
  IN  IF size % 2 = 1
      THEN Sorted(reports, middle)
      ELSE (Sorted(reports, middle) + Sorted(reports, middle - 1)) \div 2

Average(reports) ==
  MapThenSumSet(LAMBDA r : r.value, reports) \div Cardinality(reports)

(* The most frequent value; the order of a HashMap decides between several. *)
Majorities(reports) ==
  {v \in ValuesOf(reports) : \A w \in ValuesOf(reports) :
     Cardinality(Equal(reports, w)) <= Cardinality(Equal(reports, v))}

(* The results aggregate() may return for a non-empty set of reports.      *)
Aggregates(aggregator, reports) ==
  CASE aggregator = "median" -> {Median(reports)}
    [] aggregator = "average" -> {Average(reports)}
    [] aggregator = "majority" -> Majorities(reports)

Abs(x) == IF x < 0 THEN -x ELSE x

ThresholdCrossed(last, candidate, percentage) ==
  Abs(last - candidate) * 100 >= percentage * Abs(last)
=============================================================================
