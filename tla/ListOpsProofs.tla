----------------------------- MODULE ListOpsProofs -----------------------------
(* What the operators of ListOps give, for lists of any length, and what an   *)
(* induction over a list needs: a smallest number, and the run of a loop.     *)
EXTENDS ListOps, FiniteSetTheorems, SequenceTheorems, WellFoundedInduction, TLAPS

LessThan == {ss \in Nat \X Nat : ss[1] < ss[2]}

LEMMA SmallestNat ==
  ASSUME NEW T \in SUBSET Nat, T # {}
  PROVE \E x \in T : \A y \in T : x <= y
<1>1. IsWellFoundedOn(LessThan, Nat)
  BY NatLessThanWellFounded, Zenon DEF LessThan, OpToRel
<1>2. \E x \in T : \A y \in T : ~ (<<y, x>> \in LessThan)
  BY <1>1, WFMin
<1>3. PICK x \in T : \A y \in T : ~ (<<y, x>> \in LessThan)
  BY <1>2
<1>4. \A y \in T : y \in Nat /\ x \in Nat
  OBVIOUS
<1>5. \A y \in T : ~(y < x)
  BY <1>3, <1>4 DEF LessThan
<1> QED
  BY <1>4, <1>5

LEMMA FirstIsOne ==
  ASSUME NEW n \in Nat, NEW places \in SUBSET (1 .. n)
  PROVE /\ FirstOf(places) \in 0 .. n
        /\ places # {} => /\ FirstOf(places) \in places
                          /\ \A p \in places : FirstOf(places) <= p
        /\ places = {} <=> FirstOf(places) = 0
<1>1. CASE places = {}
  BY <1>1 DEF FirstOf
<1>2. CASE places # {}
  <2>1. places \in SUBSET Nat
    OBVIOUS
  <2>2. \E i \in places : \A j \in places : i <= j
    BY <1>2, <2>1, SmallestNat
  <2>3. FirstOf(places) \in places /\ \A j \in places : FirstOf(places) <= j
    BY <1>2, <2>2 DEF FirstOf
  <2>4. FirstOf(places) \in 1 .. n
    BY <2>3
  <2> QED
    BY <1>2, <2>3, <2>4
<1> QED
  BY <1>1, <1>2

LEMMA LastIsOne ==
  ASSUME NEW n \in Nat, NEW places \in SUBSET (1 .. n)
  PROVE /\ LastOf(places) \in 0 .. n
        /\ places # {} => /\ LastOf(places) \in places
                          /\ \A p \in places : LastOf(places) >= p
        /\ places = {} <=> LastOf(places) = 0
<1>1. CASE places = {}
  BY <1>1 DEF LastOf
<1>2. CASE places # {}
  <2> DEFINE above == {i \in 0 .. n : \A p \in places : p <= i}
  <2>1. n \in above /\ above \in SUBSET Nat
    OBVIOUS
  <2>2. PICK least \in above : \A i \in above : least <= i
    BY <2>1, SmallestNat
  <2>3. least \in places
    <3> SUFFICES ASSUME least \notin places PROVE FALSE
      OBVIOUS
    <3>1. PICK p \in places : TRUE
      BY <1>2
    <3>2. least # 0 /\ least \in Nat
      BY <2>2, <3>1
    <3>3. \A q \in places : q <= least /\ q # least /\ q \in Nat
      BY <2>2
    <3>4. \A q \in places : q <= least - 1
      BY <3>2, <3>3
    <3>5. least - 1 \in above
      BY <2>2, <3>2, <3>4
    <3> QED
      BY <2>2, <3>2, <3>5
  <2>4. \E i \in places : \A j \in places : i >= j
    BY <2>2, <2>3
  <2>5. LastOf(places) \in places /\ \A j \in places : LastOf(places) >= j
    BY <1>2, <2>4 DEF LastOf
  <2>6. LastOf(places) \in 1 .. n
    BY <2>5
  <2> QED
    BY <1>2, <2>5, <2>6
<1> QED
  BY <1>1, <1>2

\* One more element, one more in the rank.
LEMMA RankSteps ==
  ASSUME NEW n \in Nat, NEW places \in SUBSET (1 .. n), NEW i \in Nat
  PROVE /\ RankOf(i, places) \in Nat
        /\ RankOf(0, places) = 0
        /\ RankOf(i + 1, places) = RankOf(i, places) + (IF i + 1 \in places THEN 1 ELSE 0)
        /\ i >= n => RankOf(i, places) = Cardinality(places)
<1> DEFINE Below(k) == {j \in places : j <= k}
<1>0. \A j \in places : j \in Nat /\ 1 <= j /\ j <= n
  OBVIOUS
<1>1. IsFiniteSet(1 .. n)
  BY FS_Interval
<1>2. \A k : IsFiniteSet(Below(k))
  <2> TAKE k
  <2>1. Below(k) \in SUBSET (1 .. n)
    OBVIOUS
  <2> QED
    BY <1>1, <2>1, FS_Subset
<1>3. Below(0) = {}
  <2>1. \A j \in places : ~(j <= 0)
    BY <1>0
  <2> QED
    BY <2>1
<1>4. Below(i + 1) = IF i + 1 \in places THEN Below(i) \cup {i + 1} ELSE Below(i)
  <2>1. \A j \in places : j <= i + 1 <=> j <= i \/ j = i + 1
    BY <1>0
  <2> QED
    BY <2>1
<1>5. i + 1 \notin Below(i)
  OBVIOUS
<1>6. i >= n => Below(i) = places
  <2>1. i >= n => \A j \in places : j <= i
    BY <1>0
  <2> QED
    BY <2>1
<1>7. Cardinality(Below(i)) \in Nat /\ Cardinality(Below(0)) = 0
  BY <1>2, <1>3, FS_CardinalityType, FS_EmptySet
<1>8. Cardinality(Below(i) \cup {i + 1}) = Cardinality(Below(i)) + 1
  BY <1>2, <1>5, FS_AddElement
<1> HIDE DEF Below
<1>9. \A k : RankOf(k, places) = Cardinality(Below(k))
  BY DEF RankOf, Below
<1> QED
  BY <1>3, <1>4, <1>6, <1>7, <1>8, <1>9

LEMMA RankGrows ==
  ASSUME NEW n \in Nat, NEW places \in SUBSET (1 .. n), NEW i \in Nat, NEW j \in places, i < j
  PROVE RankOf(i, places) < RankOf(j, places)
<1> DEFINE Low == {k \in places : k <= i}
           High == {k \in places : k <= j}
<1>1. IsFiniteSet(1 .. n)
  BY FS_Interval
<1>2. IsFiniteSet(High) /\ Low \in SUBSET High /\ Low # High
  <2>0. j \in Nat /\ ~(j <= i) /\ j <= j /\ \A k \in places : k \in Nat /\ (k <= i => k <= j)
    OBVIOUS
  <2>1. High \in SUBSET (1 .. n) /\ Low \in SUBSET High /\ j \in High /\ j \notin Low
    BY <2>0
  <2>2. IsFiniteSet(High)
    BY <1>1, <2>1, FS_Subset
  <2> QED
    BY <2>1, <2>2
<1>3. IsFiniteSet(Low) /\ Cardinality(Low) <= Cardinality(High) /\ Cardinality(Low) # Cardinality(High)
  BY <1>2, FS_Subset
<1>4. Cardinality(Low) \in Nat /\ Cardinality(High) \in Nat
  BY <1>2, <1>3, FS_CardinalityType
<1> QED
  BY <1>3, <1>4 DEF RankOf

\* Every rank is that of one place.
LEMMA RankTaken ==
  ASSUME NEW n \in Nat, NEW places \in SUBSET (1 .. n), NEW k \in 1 .. Cardinality(places)
  PROVE \E i \in places : RankOf(i, places) = k
<1> DEFINE T == {i \in 0 .. n : RankOf(i, places) >= k}
<1>0. \A i \in Nat : /\ RankOf(i, places) \in Nat
                     /\ RankOf(0, places) = 0
                     /\ RankOf(i + 1, places) = RankOf(i, places) + (IF i + 1 \in places THEN 1 ELSE 0)
                     /\ i >= n => RankOf(i, places) = Cardinality(places)
  BY RankSteps
<1>1. n \in T /\ T \in SUBSET Nat /\ T # {}
  BY <1>0
<1>2. PICK x \in T : \A y \in T : x <= y
  BY <1>1, SmallestNat
<1>3. x # 0
  BY <1>0, <1>2
<1>4. x - 1 \in 0 .. n /\ x - 1 \notin T /\ x = (x - 1) + 1
  BY <1>2, <1>3
<1>5. RankOf(x - 1, places) < k
  BY <1>0, <1>4
<1>6. RankOf(x, places) = RankOf(x - 1, places) + (IF x \in places THEN 1 ELSE 0)
  BY <1>0, <1>4
<1>7. RankOf(x, places) >= k /\ RankOf(x - 1, places) \in Nat
  BY <1>0, <1>2, <1>4
<1> QED
  BY <1>5, <1>6, <1>7

\* "from" tells where Kept takes its items: all that are chosen, in the order of the list.
TakesAll(from, list, chosen) ==
  LET kept == Kept(list, chosen)
  IN /\ from \in [1 .. Len(kept) -> DOMAIN list]
     /\ \A k \in 1 .. Len(kept) : kept[k] = list[from[k]]
     /\ \A k, m \in 1 .. Len(kept) : k < m => from[k] < from[m]
     /\ \A i \in DOMAIN list : list[i] \in chosen => \E k \in 1 .. Len(kept) : from[k] = i

LEMMA KeptInOrder ==
  ASSUME NEW A, NEW list \in Seq(A), NEW chosen
  PROVE /\ Kept(list, chosen) \in Seq(A \cap chosen)
        /\ \E from : TakesAll(from, list, chosen)
<1> DEFINE n == Len(list)
           places == Places(list, chosen)
           size == Cardinality(places)
           from == [k \in 1 .. size |-> CHOOSE i \in places : RankOf(i, places) = k]
<1>1. n \in Nat /\ DOMAIN list = 1 .. n /\ places \in SUBSET (1 .. n)
  BY DEF Places
<1>2. size \in Nat /\ IsFiniteSet(places)
  <2>1. IsFiniteSet(1 .. n)
    BY <1>1, FS_Interval
  <2>2. IsFiniteSet(places)
    BY <1>1, <2>1, FS_Subset
  <2> QED
    BY <2>2, FS_CardinalityType
<1>3. \A k \in 1 .. size : from[k] \in places /\ RankOf(from[k], places) = k
  BY <1>1, RankTaken
<1>4. Kept(list, chosen) = [k \in 1 .. size |-> list[from[k]]]
  BY DEF Kept
<1>5. \A i \in places : RankOf(i, places) \in 1 .. size
  <2> TAKE i \in places
  <2>0. i \in Nat /\ 0 \in Nat /\ 0 < i
    BY <1>1
  <2> HIDE DEF places, n
  <2>1. RankOf(0, places) = 0 /\ RankOf(i, places) \in Nat
    BY <1>1, <2>0, RankSteps
  <2>2. RankOf(0, places) < RankOf(i, places)
    BY <1>1, <2>0, RankGrows
  <2>3. RankOf(i, places) <= size
    <3>1. {j \in places : j <= i} \in SUBSET places /\ IsFiniteSet(places)
      BY <1>2
    <3> QED
      BY <3>1, FS_Subset DEF RankOf
  <2> QED
    BY <1>2, <2>1, <2>2, <2>3
<1>6. \A i, j \in places : RankOf(i, places) = RankOf(j, places) => i = j
  <2> TAKE i, j \in places
  <2>0. i \in Nat /\ j \in Nat
    BY <1>1
  <2> HIDE DEF places, n
  <2>1. i < j => RankOf(i, places) < RankOf(j, places)
    BY <1>1, <2>0, RankGrows
  <2>2. j < i => RankOf(j, places) < RankOf(i, places)
    BY <1>1, <2>0, RankGrows
  <2>3. RankOf(i, places) \in Nat /\ RankOf(j, places) \in Nat /\ i \in Int /\ j \in Int
    BY <1>1, <1>2, <1>5
  <2> QED
    BY <2>1, <2>2, <2>3
<1>7. \A k, m \in 1 .. size : k < m => from[k] < from[m]
  <2> SUFFICES ASSUME NEW k \in 1 .. size, NEW m \in 1 .. size, k < m, ~(from[k] < from[m])
               PROVE FALSE
    OBVIOUS
  <2>1. from[k] \in places /\ from[m] \in places /\ RankOf(from[k], places) = k
        /\ RankOf(from[m], places) = m
    BY <1>3
  <2> HIDE DEF from
  <2>2. from[k] \in Nat /\ from[m] \in Nat
    BY <1>1, <2>1
  <2>3. CASE from[m] < from[k]
    <3>1. RankOf(from[m], places) < RankOf(from[k], places)
      BY <1>1, <2>1, <2>2, <2>3, RankGrows
    <3> QED
      BY <2>1, <3>1, <1>2
  <2>4. CASE from[m] = from[k]
    BY <2>1, <2>4, <1>2
  <2> QED
    BY <2>2, <2>3, <2>4
<1>8. \A i \in DOMAIN list : list[i] \in chosen => \E k \in 1 .. size : from[k] = i
  <2> TAKE i \in DOMAIN list
  <2> HAVE list[i] \in chosen
  <2>1. i \in places
    BY DEF Places
  <2>2. RankOf(i, places) \in 1 .. size
    BY <1>5, <2>1
  <2>3. from[RankOf(i, places)] \in places /\ RankOf(from[RankOf(i, places)], places) = RankOf(i, places)
    BY <1>3, <2>2
  <2> HIDE DEF from, places
  <2>4. from[RankOf(i, places)] = i
    BY <1>6, <2>1, <2>3
  <2> QED
    BY <2>2, <2>4
<1>9. \A i \in places : list[i] \in A \cap chosen /\ i \in DOMAIN list
  BY DEF Places
<1> HIDE DEF from, places, size
<1>10. from \in [1 .. size -> DOMAIN list]
  BY <1>3, <1>9 DEF from
<1>11. Kept(list, chosen) \in [1 .. size -> A \cap chosen]
  BY <1>3, <1>4, <1>9
<1>12. Kept(list, chosen) \in Seq(A \cap chosen) /\ Len(Kept(list, chosen)) = size
  BY <1>2, <1>4, <1>11
<1>13. TakesAll(from, list, chosen)
  BY <1>4, <1>7, <1>8, <1>10, <1>12 DEF TakesAll
<1> QED
  BY <1>12, <1>13

LEMMA KeptItems ==
  ASSUME NEW A, NEW list \in Seq(A), NEW chosen
  PROVE /\ Kept(list, chosen) \in Seq(A)
        /\ Range(Kept(list, chosen)) = Range(list) \cap chosen
<1>0. PICK from : TakesAll(from, list, chosen)
  BY KeptInOrder
<1>1. /\ Kept(list, chosen) \in Seq(A \cap chosen)
      /\ from \in [1 .. Len(Kept(list, chosen)) -> DOMAIN list]
      /\ \A k \in 1 .. Len(Kept(list, chosen)) : Kept(list, chosen)[k] = list[from[k]]
      /\ \A i \in DOMAIN list : list[i] \in chosen =>
           \E k \in 1 .. Len(Kept(list, chosen)) : from[k] = i
  BY <1>0, KeptInOrder DEF TakesAll
<1> DEFINE kept == Kept(list, chosen)
<1> HIDE DEF kept
<1>2. kept \in Seq(A \cap chosen) /\ DOMAIN kept = 1 .. Len(kept)
  BY <1>1 DEF kept
<1>3. \A k \in DOMAIN kept : kept[k] \in A /\ kept[k] \in chosen
  BY <1>2
<1>4. \A k \in DOMAIN kept : from[k] \in DOMAIN list /\ kept[k] = list[from[k]]
  BY <1>1, <1>2 DEF kept
<1>5. \A i \in DOMAIN list : list[i] \in chosen => \E k \in DOMAIN kept : kept[k] = list[i]
  <2> TAKE i \in DOMAIN list
  <2> HAVE list[i] \in chosen
  <2>1. PICK k \in 1 .. Len(kept) : from[k] = i
    BY <1>1 DEF kept
  <2> QED
    BY <1>2, <1>4, <2>1
<1>6. kept \in Seq(A)
  BY <1>2, <1>3
<1>7. Range(kept) = Range(list) \cap chosen
  BY <1>3, <1>4, <1>5 DEF Range
<1> QED
  BY <1>6, <1>7 DEF kept

\* Induction: what holds of 0 and is handed on holds of every number.
LEMMA AllNumbers ==
  ASSUME NEW T \in SUBSET Nat, 0 \in T, \A k \in T : k + 1 \in T
  PROVE T = Nat
<1> SUFFICES ASSUME Nat \ T # {} PROVE FALSE
  OBVIOUS
<1>1. PICK x \in Nat \ T : \A y \in Nat \ T : x <= y
  BY SmallestNat
<1>2. x # 0
  BY <1>1
<1>3. x - 1 \in Nat /\ ~(x <= x - 1) /\ x = (x - 1) + 1
  BY <1>1, <1>2
<1>4. x - 1 \in T
  BY <1>1, <1>3
<1> QED
  BY <1>1, <1>3, <1>4

\* The states of a loop over m rounds: step gives the state after a round.
IsRun(run, S, m, step, first) ==
  /\ run \in [0 .. m -> S]
  /\ run[0] = first
  /\ \A k \in 1 .. m : run[k] = step[<<run[k - 1], k>>]

LEMMA RunStarts ==
  ASSUME NEW S, NEW step, NEW first \in S
  PROVE IsRun([k \in 0 .. 0 |-> first], S, 0, step, first)
  BY DEF IsRun

LEMMA RunGoesOn ==
  ASSUME NEW S, NEW m \in Nat, NEW step, NEW first, NEW run, IsRun(run, S, m, step, first),
         step[<<run[m], m + 1>>] \in S
  PROVE IsRun([k \in 0 .. m + 1 |-> IF k = m + 1 THEN step[<<run[m], m + 1>>] ELSE run[k]],
              S, m + 1, step, first)
<1> DEFINE longer == [k \in 0 .. m + 1 |-> IF k = m + 1 THEN step[<<run[m], m + 1>>] ELSE run[k]]
<1>1. run \in [0 .. m -> S] /\ run[0] = first
  BY DEF IsRun
<1>2. \A k \in 0 .. m + 1 : k # m + 1 => k \in 0 .. m
  OBVIOUS
<1>3. longer \in [0 .. m + 1 -> S]
  BY <1>1, <1>2
<1>4. longer[0] = first
  BY <1>1
<1>5. ASSUME NEW k \in 1 .. m + 1 PROVE longer[k] = step[<<longer[k - 1], k>>]
  <2>1. k \in 0 .. m + 1 /\ k - 1 \in 0 .. m + 1 /\ k - 1 # m + 1
    OBVIOUS
  <2>2. CASE k = m + 1
    <3>1. longer[k] = step[<<run[m], m + 1>>] /\ k - 1 = m
      BY <2>2
    <3>2. longer[k - 1] = run[k - 1]
      BY <2>1
    <3> QED
      BY <2>2, <3>1, <3>2
  <2>3. CASE k # m + 1
    <3>1. k \in 1 .. m /\ longer[k] = run[k] /\ longer[k - 1] = run[k - 1]
      BY <2>1, <2>3
    <3> QED
      BY <3>1 DEF IsRun
  <2> QED
    BY <2>2, <2>3
<1> HIDE DEF longer
<1>6. IsRun(longer, S, m + 1, step, first)
  BY <1>3, <1>4, <1>5 DEF IsRun
<1> QED
  BY <1>6 DEF longer

\* Every loop of n rounds has a run.
LEMMA RunExists ==
  ASSUME NEW S, NEW n \in Nat, NEW step \in [S \X (1 .. n) -> S], NEW first \in S
  PROVE \E run : IsRun(run, S, n, step, first)
<1> DEFINE T == {m \in Nat : m <= n => \E run : IsRun(run, S, m, step, first)}
<1>1. 0 \in T
  BY RunStarts
<1>2. ASSUME NEW m \in T PROVE m + 1 \in T
  <2>0. m \in Nat /\ (m <= n => \E run : IsRun(run, S, m, step, first))
    BY <1>2
  <2> HIDE DEF T
  <2>1. ASSUME m + 1 <= n PROVE \E run : IsRun(run, S, m + 1, step, first)
    <3>1. m <= n /\ m + 1 \in 1 .. n /\ m \in 0 .. m
      BY <2>0, <2>1
    <3>2. PICK run : IsRun(run, S, m, step, first)
      BY <2>0, <3>1
    <3>3. run[m] \in S
      BY <3>1, <3>2 DEF IsRun
    <3>4. step[<<run[m], m + 1>>] \in S
      BY <3>1, <3>3
    <3> QED
      BY <2>0, <3>2, <3>4, RunGoesOn
  <2> QED
    BY <2>0, <2>1 DEF T
<1>3. T \in SUBSET Nat
  OBVIOUS
<1> HIDE DEF T
<1>4. n \in T
  BY <1>1, <1>2, <1>3, AllNumbers
<1> QED
  BY <1>4 DEF T

=============================================================================
