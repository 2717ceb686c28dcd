----------------------- MODULE FeedAggregate_proofs -----------------------
(***************************************************************************)
(* What the median and the majority of any finite set of reports are       *)
(* worth: as long as more than half of the reports come from reporters     *)
(* that are not faulty, they decide.                                       *)
(***************************************************************************)
EXTENDS FeedAggregate, FiniteSetTheorems, TLAPS

IsReports(reports) == IsFiniteSet(reports) /\ \A r \in reports : r.value \in Int

(* A non-empty set of subsets of a finite set has a minimal element: what  *)
(* stands in for induction in this module.                                 *)
LEMMA MinimalSubset ==
  ASSUME NEW S, IsFiniteSet(S), NEW T \in SUBSET SUBSET S, T # {}
  PROVE  \E X \in T : \A Y \in T : Y \subseteq X => Y = X
<1>1. \A X \in T : IsFiniteSet(X) /\ X \in SUBSET S
  BY FS_Subset
<1>2. T \subseteq FiniteSubsetsOf(S)
  BY FS_FiniteSubsetsOfFinite
<1>3. IsWellFoundedOn(StrictSubsetOrdering(S), FiniteSubsetsOf(S))
  BY FS_StrictSubsetOrderingWellFounded
<1>4. PICK X \in T : \A Y \in T : ~ (<<Y, X>> \in StrictSubsetOrdering(S))
  BY <1>2, <1>3, WFMin
<1>. QED
  BY <1>1, <1>4 DEF StrictSubsetOrdering

(* A finite set of reports that is not empty has one of greatest value.    *)
LEMMA GreatestReport ==
  ASSUME NEW reports, IsReports(reports), reports # {}
  PROVE  \E m \in reports : \A r \in reports : r.value <= m.value
<1>. DEFINE AtLeast(m) == {r \in reports : r.value >= m.value}
            T == {AtLeast(m) : m \in reports}
<1>1. T \in SUBSET SUBSET reports /\ T # {}
  OBVIOUS
<1>f. IsFiniteSet(reports)
  BY DEF IsReports
<1>2. PICK X \in T : \A Y \in T : Y \subseteq X => Y = X
  <2>. HIDE DEF T
  <2>. QED
    BY <1>1, <1>f, MinimalSubset
<1>3. PICK m \in reports : X = AtLeast(m)
  BY <1>2
<1>4. ASSUME NEW r \in reports, ~(r.value <= m.value)
      PROVE  FALSE
  <2>1. m.value \in Int /\ r.value \in Int
    BY DEF IsReports
  <2>2. AtLeast(r) \subseteq AtLeast(m) /\ m \in AtLeast(m) /\ m \notin AtLeast(r)
    BY <1>4, <2>1 DEF IsReports
  <2>. QED
    BY <1>2, <1>3, <2>2
<1>. QED
  BY <1>4

(* Every index of the sorted values has an element.                        *)
LEMMA SortedExists ==
  ASSUME NEW reports, IsReports(reports),
         NEW k \in Nat, k < Cardinality(reports)
  PROVE  \E v \in ValuesOf(reports) :
           /\ Cardinality(Below(reports, v)) <= k
           /\ k < Cardinality(AtMost(reports, v))
<1>. DEFINE V == {v \in ValuesOf(reports) : k < Cardinality(AtMost(reports, v))}
            T == {AtMost(reports, v) : v \in V}
<1>1. reports # {}
  BY FS_EmptySet
<1>2. PICK m \in reports : \A r \in reports : r.value <= m.value
  BY <1>1, GreatestReport
<1>3. AtMost(reports, m.value) = reports /\ m.value \in ValuesOf(reports)
  BY <1>2 DEF AtMost, ValuesOf
<1>4. T \in SUBSET SUBSET reports /\ T # {}
  BY <1>3 DEF AtMost
<1>5. PICK X \in T : \A Y \in T : Y \subseteq X => Y = X
  <2>1. IsFiniteSet(reports)
    BY DEF IsReports
  <2>. HIDE DEF T
  <2>. QED
    BY <1>4, <2>1, MinimalSubset
<1>6. PICK v \in V : X = AtMost(reports, v)
  BY <1>5
<1>7. v \in Int /\ v \in ValuesOf(reports)
  BY DEF ValuesOf, IsReports
<1>8. ASSUME Cardinality(Below(reports, v)) > k
      PROVE  FALSE
  <2>. DEFINE B == Below(reports, v)
  <2>1. IsReports(B) /\ Cardinality(B) \in Nat
    <3>1. B \in SUBSET reports
      BY DEF Below
    <3>. QED
      BY <3>1, FS_Subset, FS_CardinalityType DEF IsReports
  <2>2. B # {}
    BY <1>8, <2>1, FS_EmptySet
  <2>3. PICK w \in B : \A r \in B : r.value <= w.value
    BY <2>1, <2>2, GreatestReport
  <2>4. w \in reports /\ w.value \in Int /\ w.value < v
    BY <2>1, <2>3 DEF Below, IsReports
  <2>5. AtMost(reports, w.value) = B
    BY <1>7, <2>3, <2>4 DEF AtMost, Below, IsReports
  <2>6. w.value \in V
    BY <1>8, <2>4, <2>5 DEF ValuesOf
  <2>7. B \in T
    BY <2>5, <2>6
  <2>10. B \subseteq X
    BY <1>6, <1>7 DEF Below, AtMost, IsReports
  <2>8. PICK r \in reports : r.value = v
    BY <1>7 DEF ValuesOf
  <2>9. r \in X /\ r \notin B
    BY <1>6, <1>7, <2>8 DEF Below, AtMost
  <2>. QED
    BY <1>5, <2>7, <2>9, <2>10
<1>9. Cardinality(Below(reports, v)) \in Nat
  BY FS_Subset, FS_CardinalityType DEF Below, IsReports
<1>. QED
  BY <1>7, <1>8, <1>9

LEMMA SortedIsInPlace ==
  ASSUME NEW reports, IsReports(reports),
         NEW k \in Nat, k < Cardinality(reports)
  PROVE  /\ Sorted(reports, k) \in ValuesOf(reports)
         /\ Cardinality(Below(reports, Sorted(reports, k))) <= k
         /\ k < Cardinality(AtMost(reports, Sorted(reports, k)))
BY SortedExists DEF Sorted

(* Enough honest reports reach down to the element at index k ...          *)
LEMMA HonestBelow ==
  ASSUME NEW reports, IsReports(reports), NEW honest \in SUBSET reports,
         NEW k \in Nat, k < Cardinality(reports),
         Cardinality(honest) + k + 1 > Cardinality(reports)
  PROVE  \E m \in honest : m.value <= Sorted(reports, k)
<1>. DEFINE A == AtMost(reports, Sorted(reports, k))
<1>1. A \subseteq reports /\ IsFiniteSet(reports)
  BY DEF AtMost, IsReports
<1>2. Cardinality(A) >= k + 1
  <2>1. k < Cardinality(A)
    BY SortedIsInPlace
  <2>2. Cardinality(A) \in Nat
    BY <1>1, FS_Subset, FS_CardinalityType
  <2>. QED
    BY <2>1, <2>2
<1>3. Cardinality(A) \in Nat /\ Cardinality(honest) \in Nat /\ Cardinality(reports) \in Nat
  BY <1>1, FS_Subset, FS_CardinalityType
<1>4. Cardinality(A) + Cardinality(honest) > Cardinality(reports)
  BY <1>2, <1>3
<1>5. A \cap honest # {}
  <2>. HIDE DEF A
  <2>. QED
    BY <1>1, <1>4, FS_MajoritiesIntersect
<1>. QED
  BY <1>5 DEF AtMost

(* ... and up to it.                                                       *)
LEMMA HonestAbove ==
  ASSUME NEW reports, IsReports(reports), NEW honest \in SUBSET reports,
         NEW k \in Nat, k < Cardinality(reports), Cardinality(honest) > k
  PROVE  \E n \in honest : Sorted(reports, k) <= n.value
<1>. DEFINE v == Sorted(reports, k)
<1>1. v \in ValuesOf(reports) /\ Cardinality(Below(reports, v)) <= k
  BY SortedIsInPlace
<1>2. v \in Int
  BY <1>1 DEF ValuesOf, IsReports
<1>3. Below(reports, v) \subseteq reports /\ IsFiniteSet(reports)
  BY DEF Below, IsReports
<1>4. /\ Cardinality(honest) \in Nat
      /\ IsFiniteSet(Below(reports, v)) /\ Cardinality(Below(reports, v)) \in Nat
  BY <1>3, FS_Subset, FS_CardinalityType
<1>5. ~(honest \subseteq Below(reports, v))
  <2>. SUFFICES ASSUME honest \subseteq Below(reports, v) PROVE FALSE
    OBVIOUS
  <2>1. Cardinality(honest) <= Cardinality(Below(reports, v))
    BY <1>4, FS_Subset
  <2>. QED
    BY <2>1, <1>1, <1>4
<1>6. PICK n \in honest : n \notin Below(reports, v)
  BY <1>5
<1>7. n.value \in Int /\ ~(n.value < v)
  BY <1>6 DEF Below, IsReports
<1>. QED
  BY <1>2, <1>7

LEMMA SortedIsSorted ==
  ASSUME NEW reports, IsReports(reports),
         NEW k \in Nat, k + 1 < Cardinality(reports)
  PROVE  Sorted(reports, k) <= Sorted(reports, k + 1)
<1>. DEFINE b == Sorted(reports, k)
            a == Sorted(reports, k + 1)
<1>1. Cardinality(reports) \in Nat /\ IsFiniteSet(reports)
  BY FS_CardinalityType DEF IsReports
<1>2. b \in ValuesOf(reports) /\ Cardinality(Below(reports, b)) <= k
  BY <1>1, SortedIsInPlace
<1>3. a \in ValuesOf(reports) /\ k + 1 < Cardinality(AtMost(reports, a))
  BY <1>1, SortedIsInPlace
<1>4. a \in Int /\ b \in Int
  BY <1>2, <1>3 DEF ValuesOf, IsReports
<1>. HIDE DEF a, b
<1>5. ASSUME a < b
      PROVE  FALSE
  <2>1. AtMost(reports, a) \subseteq Below(reports, b)
    BY <1>4, <1>5 DEF AtMost, Below, IsReports
  <2>2. Below(reports, b) \subseteq reports
    BY DEF Below
  <2>3. IsFiniteSet(Below(reports, b)) /\ Cardinality(Below(reports, b)) \in Nat
    BY <1>1, <2>2, FS_Subset, FS_CardinalityType
  <2>4. /\ Cardinality(AtMost(reports, a)) \in Nat
        /\ Cardinality(AtMost(reports, a)) <= Cardinality(Below(reports, b))
    BY <2>1, <2>3, FS_Subset, FS_CardinalityType
  <2>. QED
    BY <1>2, <1>3, <2>3, <2>4
<1>6. b <= a
  BY <1>4, <1>5
<1>. QED
  BY <1>6 DEF a, b

(* The median (aggregate.rs) of reports of which more than half are honest *)
(* lies between two honest values, whatever the others report.             *)
THEOREM MedianIsRobust ==
  ASSUME NEW reports, IsReports(reports), NEW honest \in SUBSET reports,
         2 * Cardinality(honest) > Cardinality(reports)
  PROVE  /\ Median(reports) \in Int
         /\ \E m, n \in honest : m.value <= Median(reports) /\ Median(reports) <= n.value
<1>. DEFINE size == Cardinality(reports)
            k == size \div 2
<1>1. size \in Nat /\ Cardinality(honest) \in Nat /\ IsFiniteSet(reports)
  BY FS_Subset, FS_CardinalityType DEF IsReports
<1>2. size > 0
  <2>1. Cardinality(honest) <= size
    BY <1>1, FS_Subset
  <2>. QED
    BY <1>1, <2>1
<1>3. k \in Nat /\ k < size /\ size = 2 * k + (size % 2) /\ size % 2 \in {0, 1}
  BY <1>1, <1>2
<1>4. \A j \in Nat : j < size => Sorted(reports, j) \in Int
  BY SortedIsInPlace DEF ValuesOf, IsReports
<1>5. CASE size % 2 = 1
  <2>1. Median(reports) = Sorted(reports, k)
    BY <1>5 DEF Median
  <2>. HIDE DEF k, size
  <2>2. Cardinality(honest) > k /\ Cardinality(honest) + k + 1 > size
    BY <1>1, <1>3, <1>5 DEF size
  <2>3. \E m \in honest : m.value <= Sorted(reports, k)
    BY <1>3, <2>2, HonestBelow DEF size
  <2>4. \E n \in honest : Sorted(reports, k) <= n.value
    BY <1>3, <2>2, HonestAbove DEF size
  <2>. QED
    BY <1>3, <1>4, <2>1, <2>3, <2>4
<1>6. CASE size % 2 = 0
  <2>. DEFINE a == Sorted(reports, k)
              b == Sorted(reports, k - 1)
  <2>1. Median(reports) = (a + b) \div 2
    BY <1>6 DEF Median
  <2>. HIDE DEF k, size
  <2>2. /\ Cardinality(honest) > k /\ Cardinality(honest) + k > size
        /\ k - 1 \in Nat /\ (k - 1) + 1 = k
    BY <1>1, <1>2, <1>3, <1>6 DEF size
  <2>3. PICK m \in honest : m.value <= b
    <3>1. Cardinality(honest) + (k - 1) + 1 > Cardinality(reports) /\ k - 1 < Cardinality(reports)
      BY <1>1, <1>3, <2>2 DEF size
    <3>. QED
      BY <2>2, <3>1, HonestBelow
  <2>4. PICK n \in honest : a <= n.value
    BY <1>3, <2>2, HonestAbove DEF size
  <2>5. b <= a
    BY <1>3, <2>2, SortedIsSorted DEF size
  <2>6. a \in Int /\ b \in Int
    BY <1>1, <1>3, <1>4, <2>2
  <2>7. m.value \in Int /\ n.value \in Int
    BY DEF IsReports
  <2>. HIDE DEF a, b
  <2>8. (a + b) \div 2 \in Int /\ b <= (a + b) \div 2 /\ (a + b) \div 2 <= a
    BY <2>5, <2>6
  <2>. QED
    BY <2>1, <2>3, <2>4, <2>6, <2>7, <2>8
<1>. QED
  BY <1>3, <1>5, <1>6

(* A value that more than half of the reports carry is the only one        *)
(* majority_vote can return.                                               *)
THEOREM MajorityIsRobust ==
  ASSUME NEW reports, IsReports(reports), NEW v,
         2 * Cardinality(Equal(reports, v)) > Cardinality(reports),
         NEW w \in Majorities(reports)
  PROVE  w = v
<1>. SUFFICES ASSUME w # v PROVE FALSE
  OBVIOUS
<1>1. IsFiniteSet(reports) /\ Equal(reports, v) \subseteq reports /\ Equal(reports, w) \subseteq reports
  BY DEF IsReports, Equal
<1>2. /\ Cardinality(reports) \in Nat
      /\ Cardinality(Equal(reports, v)) \in Nat /\ Cardinality(Equal(reports, w)) \in Nat
  BY <1>1, FS_Subset, FS_CardinalityType
<1>3. v \in ValuesOf(reports)
  <2>1. Equal(reports, v) # {}
    BY <1>2, FS_EmptySet
  <2>. QED
    BY <2>1 DEF Equal, ValuesOf
<1>4. Cardinality(Equal(reports, v)) <= Cardinality(Equal(reports, w))
  BY <1>3 DEF Majorities
<1>5. Equal(reports, v) \cap Equal(reports, w) # {}
  <2>1. Cardinality(Equal(reports, v)) + Cardinality(Equal(reports, w)) > Cardinality(reports)
    BY <1>2, <1>4
  <2>. QED
    BY <1>1, <2>1, FS_MajoritiesIntersect
<1>. QED
  BY <1>5 DEF Equal
===========================================================================
