--------------------------- MODULE StrategyProofs ---------------------------
(***************************************************************************)
(* Proofs about Strategy for every list of responders, every set of bids     *)
(* with metrics within their scale, and every pair of speed limits the       *)
(* solver's own limits allow.                                                *)
(***************************************************************************)
EXTENDS Strategy, SumLemmas, SequenceTheorems

-----------------------------------------------------------------------------
(* The order of proposals.                                                  *)

\* Keys are made of scores; a proposal has a number for every field of one.
ScoreFields == {"total_score", "comparison_score", "business_score"}
Keyed(p, key) == \A i \in DOMAIN key : p[key[i]] \in Int
Level(p, q, key) == \A i \in DOMAIN key : p[key[i]] = q[key[i]]

\* No proposal is above one that is above it.
LEMMA AboveAsymmetric ==
  ASSUME NEW key \in Seq(ScoreFields), NEW p, NEW q, Keyed(p, key), Keyed(q, key),
         Above(p, q, key)
  PROVE  ~Above(q, p, key)
<1> SUFFICES ASSUME Above(q, p, key) PROVE FALSE
  OBVIOUS
<1>1. PICK i \in DOMAIN key : p[key[i]] > q[key[i]] /\ \A j \in 1 .. i - 1 : p[key[j]] = q[key[j]]
  BY DEF Above
<1>2. PICK k \in DOMAIN key : q[key[k]] > p[key[k]] /\ \A j \in 1 .. k - 1 : q[key[j]] = p[key[j]]
  BY DEF Above
<1>3. i \in Nat \ {0} /\ k \in Nat \ {0}
  OBVIOUS
<1>4. p[key[i]] \in Int /\ q[key[i]] \in Int /\ p[key[k]] \in Int /\ q[key[k]] \in Int
  BY DEF Keyed
<1>5. CASE i < k
  BY <1>1, <1>2, <1>3, <1>4, <1>5
<1>6. CASE k < i
  BY <1>1, <1>2, <1>3, <1>4, <1>6
<1>7. CASE i = k
  BY <1>1, <1>2, <1>4, <1>7
<1> QED BY <1>3, <1>5, <1>6, <1>7

\* Being above carries over.
LEMMA AboveTransitive ==
  ASSUME NEW key \in Seq(ScoreFields), NEW p, NEW q, NEW r,
         Keyed(p, key), Keyed(q, key), Keyed(r, key),
         Above(p, q, key), Above(q, r, key)
  PROVE  Above(p, r, key)
<1>1. PICK i \in DOMAIN key : p[key[i]] > q[key[i]] /\ \A j \in 1 .. i - 1 : p[key[j]] = q[key[j]]
  BY DEF Above
<1>2. PICK k \in DOMAIN key : q[key[k]] > r[key[k]] /\ \A j \in 1 .. k - 1 : q[key[j]] = r[key[j]]
  BY DEF Above
<1>3. i \in Nat \ {0} /\ k \in Nat \ {0}
  OBVIOUS
<1>4. \A m \in DOMAIN key : p[key[m]] \in Int /\ q[key[m]] \in Int /\ r[key[m]] \in Int
  BY DEF Keyed
<1>5. CASE i < k
  <2>1. i \in 1 .. k - 1 /\ \A j \in 1 .. i - 1 : j \in 1 .. k - 1
    BY <1>3, <1>5
  <2>2. p[key[i]] > r[key[i]]
    BY <1>1, <1>2, <2>1
  <2>3. \A j \in 1 .. i - 1 : p[key[j]] = r[key[j]]
    BY <1>1, <1>2, <2>1
  <2> QED BY <2>2, <2>3 DEF Above
<1>6. CASE k < i
  <2>1. k \in 1 .. i - 1 /\ \A j \in 1 .. k - 1 : j \in 1 .. i - 1
    BY <1>3, <1>6
  <2>2. p[key[k]] > r[key[k]]
    BY <1>1, <1>2, <2>1
  <2>3. \A j \in 1 .. k - 1 : p[key[j]] = r[key[j]]
    BY <1>1, <1>2, <2>1
  <2> QED BY <2>2, <2>3 DEF Above
<1>7. CASE i = k
  <2>1. p[key[i]] > r[key[i]]
    <3>1. p[key[i]] \in Int /\ q[key[i]] \in Int /\ r[key[i]] \in Int
      BY <1>4
    <3>2. p[key[i]] > q[key[i]] /\ q[key[i]] > r[key[i]]
      BY <1>1, <1>2, <1>7
    <3> QED BY <3>1, <3>2
  <2>2. \A j \in 1 .. i - 1 : p[key[j]] = r[key[j]]
    BY <1>1, <1>2, <1>7
  <2> QED BY <2>1, <2>2 DEF Above
<1> QED BY <1>3, <1>5, <1>6, <1>7

\* Of two proposals that differ in the key one is above the other.
LEMMA AboveOrLevel ==
  ASSUME NEW key \in Seq(ScoreFields), NEW p, NEW q, Keyed(p, key), Keyed(q, key),
         ~Above(p, q, key), ~Above(q, p, key)
  PROVE  Level(p, q, key)
<1> DEFINE T == {i \in DOMAIN key : p[key[i]] # q[key[i]]}
<1>1. T \in SUBSET Nat
  OBVIOUS
<1>2. SUFFICES ASSUME T # {} PROVE FALSE
  BY DEF Level
<1>3. PICK i \in T : \A j \in T : i <= j
  BY <1>1, <1>2, LeastNat
<1>4. \A j \in 1 .. i - 1 : p[key[j]] = q[key[j]]
  BY <1>3
<1>5. i \in DOMAIN key /\ p[key[i]] \in Int /\ q[key[i]] \in Int /\ p[key[i]] # q[key[i]]
  BY DEF Keyed
<1>6. p[key[i]] > q[key[i]] \/ q[key[i]] > p[key[i]]
  BY <1>5
<1> QED BY <1>4, <1>5, <1>6 DEF Above

\* Proposals that are level stand alike to every other.
LEMMA LevelAlike ==
  ASSUME NEW key \in Seq(ScoreFields), NEW p, NEW q, NEW r, Level(p, q, key)
  PROVE  /\ Above(p, r, key) <=> Above(q, r, key)
         /\ Above(r, p, key) <=> Above(r, q, key)
<1>1. \A i \in DOMAIN key : \A j \in 1 .. i - 1 : j \in DOMAIN key
  OBVIOUS
<1> QED BY <1>1 DEF Level, Above


-----------------------------------------------------------------------------
(* Sorting.                                                                 *)

\* A list of proposals that can be sorted by the key.
Sortable(ps, key) ==
  /\ key \in Seq(ScoreFields) /\ Len(ps) \in Nat /\ DOMAIN ps = 1..Len(ps)
  /\ \A i \in DOMAIN ps : Keyed(ps[i], key)

\* Of two positions one comes before the other, and not both.
LEMMA BeforeTotal ==
  ASSUME NEW ps, NEW key, Sortable(ps, key), NEW i \in DOMAIN ps, NEW j \in DOMAIN ps
  PROVE  /\ ~Before(ps, key, i, i)
         /\ i # j => Before(ps, key, i, j) \/ Before(ps, key, j, i)
         /\ Before(ps, key, i, j) => ~Before(ps, key, j, i)
<1>1. i \in Nat /\ j \in Nat /\ key \in Seq(ScoreFields) /\ Keyed(ps[i], key) /\ Keyed(ps[j], key)
  BY DEF Sortable
<1>2. Above(ps[i], ps[j], key) => ~Above(ps[j], ps[i], key)
  BY <1>1, AboveAsymmetric
<1>3. ~Above(ps[i], ps[i], key)
  BY <1>1, AboveAsymmetric
<1> QED BY <1>1, <1>2, <1>3 DEF Before

\* Coming before carries over.
LEMMA BeforeTransitive ==
  ASSUME NEW ps, NEW key, Sortable(ps, key), NEW i \in DOMAIN ps, NEW j \in DOMAIN ps,
         NEW k \in DOMAIN ps, Before(ps, key, i, j), Before(ps, key, j, k)
  PROVE  Before(ps, key, i, k)
<1> DEFINE A(m, n) == Above(ps[m], ps[n], key)
<1>1. /\ i \in Nat /\ j \in Nat /\ k \in Nat /\ key \in Seq(ScoreFields)
      /\ Keyed(ps[i], key) /\ Keyed(ps[j], key) /\ Keyed(ps[k], key)
  BY DEF Sortable
<1>2. (A(i, j) => ~A(j, i)) /\ (A(j, k) => ~A(k, j)) /\ (A(i, k) => ~A(k, i))
  BY <1>1, AboveAsymmetric
<1>3. CASE A(i, j) /\ A(j, k)
  BY <1>1, <1>3, AboveTransitive DEF Before
<1>4. CASE A(i, j) /\ ~A(j, k)
  <2>1. ~A(k, j)
    BY <1>4, <1>2 DEF Before
  <2>2. Level(ps[j], ps[k], key)
    BY <1>1, <1>4, <2>1, AboveOrLevel
  <2>3. A(i, k)
    BY <1>1, <1>4, <2>2, LevelAlike
  <2> QED BY <2>3 DEF Before
<1>5. CASE ~A(i, j) /\ A(j, k)
  <2>1. ~A(j, i)
    BY <1>5 DEF Before
  <2>2. Level(ps[i], ps[j], key)
    BY <1>1, <1>5, <2>1, AboveOrLevel
  <2>3. A(i, k)
    BY <1>1, <1>5, <2>2, LevelAlike
  <2> QED BY <2>3 DEF Before
<1>6. CASE ~A(i, j) /\ ~A(j, k)
  <2>1. ~A(j, i) /\ ~A(k, j) /\ i < j /\ j < k
    BY <1>6 DEF Before
  <2>2. Level(ps[i], ps[j], key)
    BY <1>1, <1>6, <2>1, AboveOrLevel
  <2>3. ~A(k, i)
    BY <1>1, <2>1, <2>2, LevelAlike
  <2> QED BY <1>1, <2>1, <2>3 DEF Before
<1> QED BY <1>3, <1>4, <1>5, <1>6

\* How many positions come before one, and that a position before another has
\* fewer before it.
LEMMA PlaceRange ==
  ASSUME NEW ps, NEW key, Sortable(ps, key), NEW i \in DOMAIN ps
  PROVE  Place(ps, key, i) \in DOMAIN ps
<1> DEFINE n == Len(ps)
           S == {j \in DOMAIN ps : Before(ps, key, j, i)}
<1>1. n \in Nat /\ DOMAIN ps = 1..n /\ i \in 1..n
  BY DEF Sortable
<1>2. IsFiniteSet(1..n) /\ Cardinality(1..n) = n
  <2> HIDE DEF n, S
  <2>1. 1 \in Int /\ n \in Int
    BY <1>1
  <2>2. IsFiniteSet(1..n) /\ Cardinality(1..n) = IF 1 > n THEN 0 ELSE n - 1 + 1
    BY <2>1, FS_Interval
  <2>3. (IF 1 > n THEN 0 ELSE n - 1 + 1) = n
    BY <1>1
  <2> QED BY <2>2, <2>3
<1>3. IsFiniteSet((1..n) \ {i}) /\ Cardinality((1..n) \ {i}) = n - 1
  <2> HIDE DEF n, S
  <2>1. IsFiniteSet((1..n) \ {i}) /\ Cardinality((1..n) \ {i}) = Cardinality(1..n) - 1
    BY <1>1, <1>2, FS_RemoveElement
  <2> QED BY <1>2, <2>1
<1>4. S \subseteq (1..n) \ {i}
  BY <1>1, BeforeTotal
<1>5. IsFiniteSet(S) /\ Cardinality(S) <= n - 1
  BY <1>3, <1>4, FS_Subset
<1>6. Cardinality(S) \in Nat
  BY <1>5, FS_CardinalityType
<1>7. Place(ps, key, i) = 1 + Cardinality(S)
  BY DEF Place
<1> HIDE DEF n, S
<1> QED BY <1>1, <1>5, <1>6, <1>7

LEMMA PlaceMonotone ==
  ASSUME NEW ps, NEW key, Sortable(ps, key), NEW i \in DOMAIN ps, NEW j \in DOMAIN ps,
         Before(ps, key, i, j)
  PROVE  Place(ps, key, i) < Place(ps, key, j)
<1> DEFINE S == {k \in DOMAIN ps : Before(ps, key, k, i)}
           T == {k \in DOMAIN ps : Before(ps, key, k, j)}
<1>1. IsFiniteSet(DOMAIN ps)
  BY FS_Interval DEF Sortable
<1>2. IsFiniteSet(S) /\ IsFiniteSet(T)
  BY <1>1, FS_Subset
<1>3. S \subseteq T
  BY BeforeTransitive
<1>4. i \in T /\ i \notin S
  BY BeforeTotal
<1>5. Cardinality(S) <= Cardinality(T) /\ (Cardinality(S) = Cardinality(T) => S = T)
  BY <1>2, <1>3, FS_Subset
<1>6. Cardinality(S) \in Nat /\ Cardinality(T) \in Nat
  BY <1>2, FS_CardinalityType
<1>7. Place(ps, key, i) = 1 + Cardinality(S) /\ Place(ps, key, j) = 1 + Cardinality(T)
  BY DEF Place
<1>8. S # T
  BY <1>4
<1> HIDE DEF S, T
<1> QED BY <1>5, <1>6, <1>7, <1>8

\* Places are distinct, and every place is taken.
LEMMA PlaceTaken ==
  ASSUME NEW ps, NEW key, Sortable(ps, key)
  PROVE  /\ \A i, j \in DOMAIN ps : Place(ps, key, i) = Place(ps, key, j) => i = j
         /\ \A k \in DOMAIN ps : \E i \in DOMAIN ps : Place(ps, key, i) = k
<1> DEFINE f == [i \in DOMAIN ps |-> Place(ps, key, i)]
<1>1. \A i \in DOMAIN ps : Place(ps, key, i) \in DOMAIN ps /\ Place(ps, key, i) \in Int
  BY PlaceRange DEF Sortable
<1>2. ASSUME NEW i \in DOMAIN ps, NEW j \in DOMAIN ps, Place(ps, key, i) = Place(ps, key, j)
      PROVE  i = j
  <2>1. ~Before(ps, key, i, j) /\ ~Before(ps, key, j, i)
    BY <1>1, <1>2, PlaceMonotone
  <2> QED BY <2>1, BeforeTotal
<1>3. f \in Injection(DOMAIN ps, DOMAIN ps)
  BY <1>1, <1>2 DEF Injection, IsInjective
<1>4. IsFiniteSet(DOMAIN ps)
  BY FS_Interval DEF Sortable
<1>5. f \in Surjection(DOMAIN ps, DOMAIN ps)
  BY <1>3, <1>4, FS_Injection
<1>6. \A k \in DOMAIN ps : \E i \in DOMAIN ps : f[i] = k
  BY <1>5 DEF Surjection
<1> QED BY <1>2, <1>6


\* What the sorted list holds at k is the proposal whose place is k; nobody is
\* lost or doubled, and nobody is above one that precedes it.
LEMMA SortedProperties ==
  ASSUME NEW ps, NEW key, Sortable(ps, key)
  PROVE  LET s == SortedBy(ps, key)
         IN  /\ DOMAIN s = DOMAIN ps
             /\ \A k \in DOMAIN ps : \E i \in DOMAIN ps : s[k] = ps[i]
             /\ \A i \in DOMAIN ps : \E k \in DOMAIN ps : s[k] = ps[i]
             /\ \A k, m \in DOMAIN ps : k < m => ~Above(s[m], s[k], key)
<1> DEFINE s == SortedBy(ps, key)
           at(k) == CHOOSE i \in DOMAIN ps : Place(ps, key, i) = k
<1>1. DOMAIN s = DOMAIN ps /\ \A k \in DOMAIN ps : s[k] = ps[at(k)]
  BY DEF SortedBy
<1>2. \A k \in DOMAIN ps : at(k) \in DOMAIN ps /\ Place(ps, key, at(k)) = k
  BY PlaceTaken
<1>3. \A i \in DOMAIN ps : Place(ps, key, i) \in DOMAIN ps /\ at(Place(ps, key, i)) = i
  <2> SUFFICES ASSUME NEW i \in DOMAIN ps
               PROVE  Place(ps, key, i) \in DOMAIN ps /\ at(Place(ps, key, i)) = i
    OBVIOUS
  <2>1. Place(ps, key, i) \in DOMAIN ps
    BY PlaceRange
  <2>2. at(Place(ps, key, i)) \in DOMAIN ps
        /\ Place(ps, key, at(Place(ps, key, i))) = Place(ps, key, i)
    BY <1>2, <2>1
  <2> HIDE DEF at
  <2> QED BY <2>1, <2>2, PlaceTaken
<1> HIDE DEF s, at
<1>4. ASSUME NEW k \in DOMAIN ps, NEW m \in DOMAIN ps, k < m
      PROVE  ~Above(s[m], s[k], key)
  <2>1. at(k) \in DOMAIN ps /\ at(m) \in DOMAIN ps
    BY <1>2
  <2>2. k \in Int /\ m \in Int
    BY DEF Sortable
  <2>3. ~Before(ps, key, at(m), at(k))
    <3>1. SUFFICES ASSUME Before(ps, key, at(m), at(k)) PROVE FALSE
      OBVIOUS
    <3>2. Place(ps, key, at(m)) < Place(ps, key, at(k))
      BY <2>1, <3>1, PlaceMonotone
    <3>3. m < k
      BY <1>2, <3>2
    <3> QED BY <1>4, <2>2, <3>3
  <2>4. ~Above(ps[at(m)], ps[at(k)], key)
    BY <2>3 DEF Before
  <2> QED BY <1>1, <2>4
<1>5. \A k \in DOMAIN ps : \E i \in DOMAIN ps : s[k] = ps[i]
  BY <1>1, <1>2
<1>6. \A i \in DOMAIN ps : \E k \in DOMAIN ps : s[k] = ps[i]
  BY <1>1, <1>3
<1> QED BY <1>1, <1>4, <1>5, <1>6 DEF s

\* A proposal no other is above and that comes first stays first.
LEMMA SortedHead ==
  ASSUME NEW ps, NEW key, Sortable(ps, key), Len(ps) # 0,
         \A j \in DOMAIN ps : ~Above(ps[j], ps[1], key)
  PROVE  SortedBy(ps, key)[1] = ps[1]
<1>1. 1 \in DOMAIN ps /\ \A j \in DOMAIN ps : j \in Nat /\ j >= 1
  BY DEF Sortable
<1>2. {j \in DOMAIN ps : Before(ps, key, j, 1)} = {}
  BY <1>1 DEF Before
<1>3. Place(ps, key, 1) = 1
  BY <1>2, FS_EmptySet DEF Place
<1>4. (CHOOSE i \in DOMAIN ps : Place(ps, key, i) = 1) = 1
  BY <1>1, <1>3, PlaceTaken
<1> QED BY <1>1, <1>4 DEF SortedBy


-----------------------------------------------------------------------------
(* Normalising and scoring.                                                 *)

\* The keys a normalised comparison does not have: Get finds them in the
\* metrics only.
OwnMetrics == {"cost_estimate", "constraint_violation_total"}

\* What can be scored: metrics and comparison in range, the comparison without
\* keys of its own metrics.
Comparable(p) ==
  IsMetrics(p.metrics) /\ IsMetrics(p.comparison) /\ DOMAIN p.comparison \cap OwnMetrics = {}

InScale(c) ==
  /\ c.expected_effect \in 1..125 /\ c.expected_cost \in 1..100 /\ c.confidence \in 1..100
  /\ c.quality_risk \in 0..100 /\ c.constraint_violation \in 0..100

\* A metric that is found is within its scale.
LEMMA GetRange ==
  ASSUME NEW p, IsMetrics(p.metrics), IsMetrics(p.comparison), NEW key
  PROVE  Get(p, key) = None \/ Get(p, key) \in 0..MetricMax(key)
  BY DEF Get, IsMetrics

\* Normalising puts every metric in its scale, and no zero where the default
\* takes its place.
LEMMA NormalizeScale ==
  ASSUME NEW p, Comparable(p)
  PROVE  InScale(Normalize(p))
<1>1. /\ Get(p, "expected_effect") = None \/ Get(p, "expected_effect") \in 0..125
      /\ \A key \in MetricKeys \ {"expected_effect"} :
           Get(p, key) = None \/ Get(p, key) \in 0..100
  BY GetRange DEF Comparable, MetricMax
<1>2. /\ Get(p, "expected_cost") = None \/ Get(p, "expected_cost") \in 0..100
      /\ Get(p, "cost_estimate") = None \/ Get(p, "cost_estimate") \in 0..100
      /\ Get(p, "quality_risk") = None \/ Get(p, "quality_risk") \in 0..100
      /\ Get(p, "constraint_violation") = None \/ Get(p, "constraint_violation") \in 0..100
      /\ Get(p, "constraint_violation_total") = None
           \/ Get(p, "constraint_violation_total") \in 0..100
      /\ Get(p, "confidence") = None \/ Get(p, "confidence") \in 0..100
  BY <1>1 DEF MetricKeys
<1>3. Normalize(p).expected_effect \in 1..125
  BY <1>1 DEF Normalize, Or, Default, None
<1>4. Normalize(p).expected_cost \in 1..100
  BY <1>2 DEF Normalize, Or, Default, None
<1>5. Normalize(p).confidence \in 1..100
  BY <1>2 DEF Normalize, Or, Default, None
<1>6. Normalize(p).quality_risk \in 0..100
  BY <1>2 DEF Normalize, Or, Default, None
<1>7. Normalize(p).constraint_violation \in 0..100
  BY <1>2 DEF Normalize, Or, Default, None
<1> QED BY <1>3, <1>4, <1>5, <1>6, <1>7 DEF InScale

\* A comparison can be taken for metrics again.
NormalKeys == {"expected_effect", "expected_cost", "quality_risk",
               "constraint_violation", "confidence"}

LEMMA NormalizeMetrics ==
  ASSUME NEW p, Comparable(p)
  PROVE  /\ DOMAIN Normalize(p) = NormalKeys
         /\ IsMetrics(Normalize(p)) /\ DOMAIN Normalize(p) \cap OwnMetrics = {}
<1>1. DOMAIN Normalize(p) = NormalKeys
  BY DEF Normalize, NormalKeys
<1>2. NormalKeys \subseteq MetricKeys /\ NormalKeys \cap OwnMetrics = {}
  BY DEF NormalKeys, MetricKeys, OwnMetrics
<1>3. InScale(Normalize(p))
  BY NormalizeScale
<1>4. \A key \in NormalKeys : Normalize(p)[key] \in 0..MetricMax(key)
  BY <1>3 DEF InScale, NormalKeys, MetricMax
<1> QED BY <1>1, <1>2, <1>4 DEF IsMetrics

\* Normalising what has been normalised changes nothing.
LEMMA NormalizeAgain ==
  ASSUME NEW p, Comparable(p), NEW q, q.metrics = p.metrics, q.comparison = Normalize(p)
  PROVE  Normalize(q) = Normalize(p)
<1> DEFINE c == Normalize(p)
<1>1. InScale(c) /\ DOMAIN c = NormalKeys /\ DOMAIN c \cap OwnMetrics = {}
  BY NormalizeScale, NormalizeMetrics
<1>2. \A key \in NormalKeys : Get(q, key) = c[key]
  BY <1>1 DEF Get
<1>3. Get(q, "constraint_violation_total") = Get(p, "constraint_violation_total")
  BY <1>1 DEF Get, OwnMetrics, Comparable
<1>4. c.constraint_violation = 0 => Get(p, "constraint_violation_total") \in {None, 0}
  BY DEF Normalize, Or, Default, None
<1> HIDE DEF c
<1>5. /\ Get(q, "expected_effect") = c.expected_effect
      /\ Get(q, "expected_cost") = c.expected_cost
      /\ Get(q, "quality_risk") = c.quality_risk
      /\ Get(q, "constraint_violation") = c.constraint_violation
      /\ Get(q, "confidence") = c.confidence
  BY <1>2 DEF NormalKeys
<1>6. /\ Normalize(q).expected_effect = c.expected_effect
      /\ Normalize(q).expected_cost = c.expected_cost
      /\ Normalize(q).quality_risk = c.quality_risk
      /\ Normalize(q).confidence = c.confidence
  BY <1>1, <1>5 DEF Normalize, Or, Default, None, InScale
<1>7. Normalize(q).constraint_violation = c.constraint_violation
  BY <1>1, <1>3, <1>4, <1>5 DEF Normalize, Or, Default, None, InScale
<1> QED BY <1>6, <1>7 DEF Normalize, c


\* The clamp puts every speed within the limits and leaves those there alone.
LEMMA ClampSpeed ==
  /\ \A v \in Nat : Clamp(v) \in SpeedMin..SpeedMax
  /\ \A v \in SpeedMin..SpeedMax : Clamp(v) = v /\ Greatest(40, Least(100, v)) = v
<1>1. SpeedMin \in 40..100 /\ SpeedMax \in SpeedMin..100
  BY StrategyAssumption
<1>2. ASSUME NEW v \in Nat PROVE Clamp(v) \in SpeedMin..SpeedMax
  BY ONLY <1>1, v \in Nat DEF Clamp, Greatest, Least
<1>3. ASSUME NEW v \in SpeedMin..SpeedMax
      PROVE  Clamp(v) = v /\ Greatest(40, Least(100, v)) = v
  BY ONLY <1>1, v \in SpeedMin..SpeedMax DEF Clamp, Greatest, Least
<1> QED BY <1>2, <1>3

\* A bid as evaluate_proposal gets it.
Received(raw) == [raw EXCEPT !.speed = Clamp(@)]

LEMMA ReceivedProperties ==
  ASSUME NEW a \in DOMAIN RawBids, NEW raw \in RawBids[a]
  PROVE  LET r == Received(raw)
         IN  /\ r.agent = a /\ r.scores = Scores[a] /\ r.mode \in InspectionMode
             /\ r.speed \in SpeedMin..SpeedMax /\ Comparable(r)
<1> DEFINE r == Received(raw)
           plain == [raw EXCEPT !.comparison = NoComparison]
<1>1. IsRawBid(raw, a)
  BY StrategyAssumption
<1>2. /\ r.agent = raw.agent /\ r.scores = raw.scores /\ r.mode = raw.mode
      /\ r.metrics = raw.metrics /\ r.comparison = raw.comparison
      /\ r.speed = Clamp(raw.speed)
  BY <1>1 DEF IsRawBid, Received
<1>3. plain.metrics = raw.metrics /\ plain.comparison = NoComparison
  BY <1>1 DEF IsRawBid
<1>4. IsMetrics(NoComparison) /\ DOMAIN NoComparison \cap OwnMetrics = {}
  BY DEF IsMetrics, NoComparison
<1>5. Comparable(plain)
  BY <1>1, <1>3, <1>4 DEF Comparable, IsRawBid
<1>6. IsMetrics(Normalize(plain)) /\ DOMAIN Normalize(plain) \cap OwnMetrics = {}
  BY <1>5, NormalizeMetrics
<1>7. raw.comparison = NoComparison \/ raw.comparison = Normalize(plain)
  BY <1>1 DEF IsRawBid
<1> HIDE DEF r, plain
<1>8. Comparable(r)
  BY <1>1, <1>2, <1>4, <1>6, <1>7 DEF Comparable, IsRawBid
<1>9. r.speed \in SpeedMin..SpeedMax
  BY <1>1, <1>2, ClampSpeed DEF IsRawBid
<1> QED BY <1>1, <1>2, <1>8, <1>9 DEF IsRawBid, r

\* The scores the agents claim are percentages, and the weights add up to one.
LEMMA BusinessRange ==
  ASSUME NEW a \in DOMAIN Scores
  PROVE  /\ BusinessScore(Scores[a]) \in Int
         /\ 0 <= BusinessScore(Scores[a]) /\ BusinessScore(Scores[a]) <= 10000
<1>1. DOMAIN Scores = {"EA", "QA", "SA", "DA", "IA"}
  BY DEF Scores
<1> DEFINE q == Scores[a].quality
           d == Scores[a].delivery
           c == Scores[a].cost
           s == Scores[a].safety
<1>2. q \in 0..100 /\ d \in 0..100 /\ c \in 0..100 /\ s \in 0..100
  BY <1>1 DEF Scores
<1>3. BusinessScore(Scores[a]) = q * 30 + d * 25 + c * 25 + s * 20
  BY DEF BusinessScore, KpiWeights
<1> HIDE DEF q, d, c, s
<1> QED BY <1>2, <1>3

\* A product grows with its factors.
LEMMA ProductMonotone ==
  ASSUME NEW m \in Nat, NEW n \in Nat, NEW i \in Nat, NEW j \in Nat, i <= m, j <= n
  PROVE  i * j <= m * n /\ m * n \in Nat /\ i * j \in Nat
<1>1. \A a, b, c \in Nat : a <= b => a * c <= b * c
  OBVIOUS
<1>2. \A a, b, c \in Nat : a <= b => c * a <= c * b
  OBVIOUS
<1>3. \A a, b \in Nat : a * b \in Nat
  OBVIOUS
<1>4. i * j <= m * j
  BY ONLY <1>1, i \in Nat, m \in Nat, j \in Nat, i <= m
<1>5. m * j <= m * n
  BY ONLY <1>2, j \in Nat, m \in Nat, n \in Nat, j <= n
<1>6. i * j \in Nat /\ m * j \in Nat /\ m * n \in Nat
  BY ONLY <1>3, i \in Nat, m \in Nat, j \in Nat, n \in Nat
<1>7. \A a, b, c \in Nat : a <= b /\ b <= c => a <= c
  OBVIOUS
<1>8. i * j <= m * n
  BY ONLY <1>4, <1>5, <1>6, <1>7
<1> QED BY <1>6, <1>8

\* The numbers a comparison score is made of.
ScoreParts(c, e, f, x, y) ==
  /\ e = c.expected_effect /\ f = c.confidence /\ x = c.expected_cost
  /\ y = Or(c.quality_risk, 30)
  /\ e <= 125 /\ f <= 100 /\ x <= 100 /\ y <= 100
  /\ ComparisonScore(c) = e * f - 35 * x - 25 * y

LEMMA ComparisonParts ==
  ASSUME NEW c, InScale(c)
  PROVE  \E e, f, x, y \in Nat : ScoreParts(c, e, f, x, y)
<1>1. PICK e \in Nat : e = c.expected_effect /\ 1 <= e /\ e <= 125
  BY DEF InScale
<1>2. PICK f \in Nat : f = c.confidence /\ 1 <= f /\ f <= 100
  BY DEF InScale
<1>3. PICK x \in Nat : x = c.expected_cost /\ 1 <= x /\ x <= 100
  BY DEF InScale
<1>4. PICK y \in Nat : y = Or(c.quality_risk, 30) /\ y <= 100
  BY DEF InScale, Or, None
<1>5. Or(e, 50) = e /\ Or(f, 70) = f /\ Or(x, 50) = x
  BY <1>1, <1>2, <1>3 DEF Or, None
<1>6. ComparisonScore(c) = e * f - 35 * x - 25 * y
  BY <1>1, <1>2, <1>3, <1>4, <1>5 DEF ComparisonScore
<1>7. ScoreParts(c, e, f, x, y)
  BY <1>1, <1>2, <1>3, <1>4, <1>6 DEF ScoreParts
<1> QED BY <1>7

LEMMA ComparisonRange ==
  ASSUME NEW c, InScale(c)
  PROVE  /\ ComparisonScore(c) \in Int
         /\ -6000 <= ComparisonScore(c) /\ ComparisonScore(c) <= 12500
<1>1. PICK e, f, x, y \in Nat : ScoreParts(c, e, f, x, y)
  BY ComparisonParts
<1>2. e * f <= 125 * 100 /\ e * f \in Nat
  BY <1>1, ProductMonotone DEF ScoreParts
<1>3. \A m \in Nat : m <= 12500 => LET s == m - 35 * x - 25 * y IN
                       s \in Int /\ -6000 <= s /\ s <= 12500
  BY <1>1 DEF ScoreParts
<1> QED BY <1>1, <1>2, <1>3 DEF ScoreParts

\* Within the limits only the violation the agent admits costs anything.
LEMMA PenaltyRange ==
  ASSUME NEW c, InScale(c), NEW v \in SpeedMin..SpeedMax
  PROVE  /\ ConstraintPenalty(v, c) = 20 * c.constraint_violation
         /\ ConstraintPenalty(v, c) \in Int
         /\ 0 <= ConstraintPenalty(v, c) /\ ConstraintPenalty(v, c) <= 2000
<1>1. ~(v < SpeedMin \/ v > SpeedMax) /\ c.constraint_violation \in 0..100
  BY StrategyAssumption DEF InScale
<1>2. ConstraintPenalty(v, c) = Least(10000, 0 + 20 * c.constraint_violation)
  BY <1>1 DEF ConstraintPenalty
<1>3. PICK n \in 0..100 : n = c.constraint_violation
  BY <1>1
<1>4. Least(10000, 0 + 20 * n) = 20 * n
  BY DEF Least
<1>5. ConstraintPenalty(v, c) = 20 * n
  BY <1>2, <1>3, <1>4
<1>6. 20 * n \in Int /\ 0 <= 20 * n /\ 20 * n <= 2000
  OBVIOUS
<1> QED BY <1>3, <1>5, <1>6

\* Everything PA may collect, and what all of it has in common: a speed within
\* the limits, scores in their scale, and no change by another evaluation.
Collected(a) == {Scored(raw) : raw \in RawBids[a]}
Bids == UNION {Collected(a) : a \in DOMAIN RawBids}

LEMMA ScoredFields ==
  ASSUME NEW a \in DOMAIN RawBids, NEW raw \in RawBids[a]
  PROVE  LET p == Scored(raw)
         IN  /\ p.agent = a /\ p.scores = Scores[a]
             /\ p.speed \in SpeedMin..SpeedMax /\ p.mode \in InspectionMode
             /\ p.comparison = Normalize(Received(raw)) /\ InScale(p.comparison)
             /\ p.business_score = BusinessScore(Scores[a])
             /\ p.comparison_score = ComparisonScore(p.comparison)
             /\ p.constraint_penalty = 20 * p.comparison.constraint_violation
             /\ p.total_score = Round(40 * p.business_score + 60 * p.comparison_score
                                        - 20 * p.constraint_penalty)
<1> DEFINE r == Received(raw)
           c == Normalize(r)
<1>1. /\ r.agent = a /\ r.scores = Scores[a] /\ r.mode \in InspectionMode
      /\ r.speed \in SpeedMin..SpeedMax /\ Comparable(r)
  BY ReceivedProperties
<1>2. InScale(c)
  BY <1>1, NormalizeScale
<1>3. ConstraintPenalty(r.speed, c) = 20 * c.constraint_violation
  BY <1>1, <1>2, PenaltyRange
<1>4. Scored(raw) = Evaluate(r)
  BY DEF Scored, Received
<1> HIDE DEF r, c
<1>5. LET p == Evaluate(r)
      IN  /\ p.agent = r.agent /\ p.scores = r.scores /\ p.speed = r.speed /\ p.mode = r.mode
          /\ p.comparison = c
          /\ p.business_score = BusinessScore(r.scores)
          /\ p.comparison_score = ComparisonScore(c)
          /\ p.constraint_penalty = ConstraintPenalty(r.speed, c)
          /\ p.total_score = Round(40 * p.business_score + 60 * p.comparison_score
                                     - 20 * p.constraint_penalty)
  BY DEF Evaluate, c
<1> QED BY <1>1, <1>2, <1>3, <1>4, <1>5 DEF r, c


\* Rounding keeps the order.
LEMMA RoundMonotone ==
  /\ \A x \in Int : Round(x) \in Int
  /\ \A x, y \in Int : x <= y => Round(x) <= Round(y)
  BY DEF Round

\* The total score of any metrics in their scale.
LEMMA ScoredRange ==
  ASSUME NEW a \in DOMAIN RawBids, NEW raw \in RawBids[a]
  PROVE  LET p == Scored(raw)
         IN  /\ p.business_score \in Int /\ p.comparison_score \in Int
             /\ p.constraint_penalty \in Int
             /\ p.total_score \in Int /\ p.total_score \in WorstScore..BestScore
<1> DEFINE p == Scored(raw)
           b == p.business_score
           s == p.comparison_score
           v == p.constraint_penalty
           w == p.total_score
<1>1. a \in DOMAIN Scores
  BY StrategyAssumption
<1>2. b \in Int /\ 0 <= b /\ b <= 10000
  BY <1>1, BusinessRange, ScoredFields
<1>3. s \in Int /\ -6000 <= s /\ s <= 12500
  BY ComparisonRange, ScoredFields
<1>4. v \in Int /\ 0 <= v /\ v <= 2000
  <2>1. /\ p.comparison.constraint_violation \in 0..100
        /\ v = 20 * p.comparison.constraint_violation
    BY ScoredFields DEF InScale
  <2>2. PICK n \in 0..100 : n = p.comparison.constraint_violation
    BY <2>1
  <2>3. v = 20 * n
    BY <2>1, <2>2
  <2> HIDE DEF v, p
  <2> QED BY <2>3
<1>5. w = Round(40 * b + 60 * s - 20 * v)
  BY ScoredFields
<1> HIDE DEF p, b, s, v, w
<1>6. PICK t \in Int : t = 40 * b + 60 * s - 20 * v
  BY <1>2, <1>3, <1>4
<1>7. -400000 <= t /\ t <= 1150000
  BY <1>2, <1>3, <1>4, <1>6
<1>8. w = (t + 50) \div 100
  BY <1>5, <1>6 DEF Round
<1>9. w \in Int /\ -4000 <= w /\ w <= 11500
  <2>1. (t + 50) \div 100 \in Int /\ -4000 <= (t + 50) \div 100
    BY ONLY <1>7, t \in Int
  <2>2. (t + 50) \div 100 <= 11500
    BY ONLY <1>7, t \in Int
  <2> QED BY <1>8, <2>1, <2>2
<1>10. w \in Int /\ w \in WorstScore..BestScore
  <2>1. WorstScore \in Int /\ BestScore \in Int /\ WorstScore <= w /\ w <= BestScore
    BY <1>9 DEF WorstScore, BestScore
  <2> QED BY <1>9, <2>1
<1> QED BY <1>2, <1>3, <1>4, <1>10 DEF p, b, s, v, w

\* Scoring a scored bid again changes nothing.
LEMMA EvaluateAgain ==
  ASSUME NEW a \in DOMAIN RawBids, NEW raw \in RawBids[a]
  PROVE  Evaluate(Scored(raw)) = Scored(raw)
<1> DEFINE r == Received(raw)
           p == Evaluate(r)
<1>1. Comparable(r)
  BY ReceivedProperties
<1>2. Scored(raw) = p
  BY DEF Scored, Received
<1> HIDE DEF r
<1>3. /\ p.agent = r.agent /\ p.speed = r.speed /\ p.mode = r.mode /\ p.scores = r.scores
      /\ p.metrics = r.metrics /\ p.comparison = Normalize(r)
  BY DEF Evaluate
<1>4. Normalize(p) = Normalize(r)
  BY <1>1, <1>3, NormalizeAgain
<1>5. Evaluate(p) = Evaluate(r)
  <2> HIDE DEF p
  <2> QED BY <1>3, <1>4 DEF Evaluate
<1> QED BY <1>2, <1>5

\* Of two bids of one agent the one that is better on every axis scores at
\* least as high.
LEMMA BetterScores ==
  ASSUME NEW a \in DOMAIN RawBids, NEW raw \in RawBids[a], NEW other \in RawBids[a],
         Dominates(Scored(raw).comparison, Scored(other).comparison),
         Scored(raw).comparison.quality_risk # 0, Scored(other).comparison.quality_risk # 0
  PROVE  Scored(raw).total_score >= Scored(other).total_score
<1> DEFINE q == Scored(raw)
           p == Scored(other)
<1>1. InScale(q.comparison) /\ InScale(p.comparison)
  BY ScoredFields
<1>2. PICK e, f, x, y \in Nat : ScoreParts(q.comparison, e, f, x, y)
  BY <1>1, ComparisonParts
<1>3. PICK g, h, m, n \in Nat : ScoreParts(p.comparison, g, h, m, n)
  BY <1>1, ComparisonParts
<1>4. y = q.comparison.quality_risk /\ n = p.comparison.quality_risk
  <2>1. q.comparison.quality_risk \in 1..100 /\ p.comparison.quality_risk \in 1..100
    BY <1>1 DEF InScale
  <2>2. \A k \in 1..100 : Or(k, 30) = k
    BY DEF Or, None
  <2>3. y = Or(q.comparison.quality_risk, 30) /\ n = Or(p.comparison.quality_risk, 30)
    BY <1>2, <1>3 DEF ScoreParts
  <2> QED BY <2>1, <2>2, <2>3
<1>5. g <= e /\ h <= f /\ x <= m /\ y <= n
  BY <1>2, <1>3, <1>4 DEF ScoreParts, Dominates
<1>6. g * h <= e * f /\ e * f \in Nat /\ g * h \in Nat
  BY <1>5, ProductMonotone
<1> DEFINE b == q.business_score
           s == q.comparison_score
           t == p.comparison_score
           v == q.constraint_penalty
           u == p.constraint_penalty
<1>7. t <= s
  <2>1. s = e * f - 35 * x - 25 * y /\ t = g * h - 35 * m - 25 * n
    BY <1>2, <1>3, ScoredFields DEF ScoreParts
  <2>2. \A j, k \in Nat : j <= k => j - 35 * m - 25 * n <= k - 35 * x - 25 * y
    BY <1>5
  <2> HIDE DEF s, t
  <2> QED BY <1>6, <2>1, <2>2
<1>8. v <= u
  <2>1. /\ q.comparison.constraint_violation \in 0..100
        /\ p.comparison.constraint_violation \in 0..100
        /\ q.comparison.constraint_violation <= p.comparison.constraint_violation
    BY <1>1 DEF InScale, Dominates
  <2>2. PICK i, j \in 0..100 : /\ i = q.comparison.constraint_violation
                               /\ j = p.comparison.constraint_violation /\ i <= j
    BY <2>1
  <2>3. v = 20 * i /\ u = 20 * j
    BY <2>2, ScoredFields
  <2> HIDE DEF u, v
  <2> QED BY <2>2, <2>3
<1>9. p.business_score = b
  BY ScoredFields
<1>10. b \in Int /\ s \in Int /\ t \in Int /\ u \in Int /\ v \in Int
  BY ScoredRange
<1>11. /\ q.total_score = Round(40 * b + 60 * s - 20 * v)
       /\ p.total_score = Round(40 * b + 60 * t - 20 * u)
  BY <1>9, ScoredFields
<1> HIDE DEF p, q, b, s, t, u, v
<1>12. PICK i, j \in Int : /\ i = 40 * b + 60 * t - 20 * u
                           /\ j = 40 * b + 60 * s - 20 * v
  BY <1>10
<1>13. i <= j
  BY <1>7, <1>8, <1>10, <1>12
<1>14. p.total_score = Round(i) /\ q.total_score = Round(j)
  BY <1>11, <1>12
<1>15. Round(i) <= Round(j) /\ Round(i) \in Int /\ Round(j) \in Int
  BY <1>13, RoundMonotone
<1>16. q.total_score >= p.total_score
  BY <1>14, <1>15
<1> QED BY <1>16 DEF p, q


-----------------------------------------------------------------------------
(* Ranking.                                                                 *)

\* What the fields of a key say of two proposals.
LEMMA RankKeyFields ==
  ASSUME NEW p, NEW q, p.total_score \in Int, q.total_score \in Int,
         p.comparison_score \in Int, q.comparison_score \in Int,
         ~Above(q, p, RankKey)
  PROVE  /\ p.total_score >= q.total_score
         /\ p.total_score = q.total_score => p.comparison_score >= q.comparison_score
<1>1. /\ DOMAIN RankKey = 1..3 /\ RankKey[1] = "total_score"
      /\ RankKey[2] = "comparison_score"
  BY DEF RankKey
<1>2. q.total_score > p.total_score => Above(q, p, RankKey)
  <2>1. 1 \in DOMAIN RankKey /\ \A j \in 1 .. 1 - 1 : q[RankKey[j]] = p[RankKey[j]]
    BY <1>1
  <2> QED BY <1>1, <2>1 DEF Above
<1>3. q.total_score = p.total_score /\ q.comparison_score > p.comparison_score
        => Above(q, p, RankKey)
  <2> SUFFICES ASSUME q.total_score = p.total_score, q.comparison_score > p.comparison_score
               PROVE  Above(q, p, RankKey)
    OBVIOUS
  <2>1. 2 \in DOMAIN RankKey /\ \A j \in 1 .. 2 - 1 : q[RankKey[j]] = p[RankKey[j]]
    BY <1>1
  <2> QED BY <1>1, <2>1 DEF Above
<1> QED BY <1>2, <1>3

LEMMA TotalKeyFields ==
  ASSUME NEW p, NEW q, p.total_score \in Int, q.total_score \in Int,
         p.total_score >= q.total_score
  PROVE  ~Above(q, p, <<"total_score">>)
  BY DEF Above

\* Collected bids have all the numbers a key may ask for.
LEMMA BidsKeyed ==
  ASSUME NEW p \in Bids
  PROVE  /\ p.total_score \in Int /\ p.comparison_score \in Int /\ p.business_score \in Int
         /\ Keyed(p, RankKey) /\ Keyed(p, <<"total_score">>)
         /\ p.total_score \in WorstScore..BestScore /\ p.speed \in SpeedMin..SpeedMax
         /\ p.mode \in InspectionMode /\ Evaluate(p) = p
<1>0. PICK a \in DOMAIN RawBids : p \in Collected(a)
  BY DEF Bids
<1>1. PICK raw \in RawBids[a] : p = Scored(raw)
  BY <1>0 DEF Collected
<1>2. /\ p.total_score \in Int /\ p.comparison_score \in Int /\ p.business_score \in Int
      /\ p.total_score \in WorstScore..BestScore
  BY <1>1, ScoredRange
<1>3. p.speed \in SpeedMin..SpeedMax /\ p.mode \in InspectionMode
  BY <1>1, ScoredFields
<1>4. Evaluate(p) = p
  BY <1>1, EvaluateAgain
<1>5. Keyed(p, RankKey)
  BY <1>2 DEF Keyed, RankKey
<1>6. Keyed(p, <<"total_score">>)
  BY <1>2 DEF Keyed
<1> QED BY <1>2, <1>3, <1>4, <1>5, <1>6

\* The ranking of collected bids: the same bids, scored as they were, in order.
InOrder(s) ==
  \A i, j \in DOMAIN s : i < j =>
    /\ s[i].total_score >= s[j].total_score
    /\ s[i].total_score = s[j].total_score => s[i].comparison_score >= s[j].comparison_score

LEMMA RankProperties ==
  ASSUME NEW ps \in Seq(Bids)
  PROVE  /\ Rank(ps) \in Seq(Bids) /\ Len(Rank(ps)) = Len(ps)
         /\ Range(Rank(ps)) = Range(ps)
         /\ InOrder(Rank(ps))
<1> DEFINE s == Rank(ps)
<1>1. DOMAIN ps = 1..Len(ps) /\ Len(ps) \in Nat /\ \A i \in DOMAIN ps : ps[i] \in Bids
  OBVIOUS
<1>2. Sortable(ps, RankKey)
  <2>1. RankKey \in Seq(ScoreFields)
    BY DEF RankKey, ScoreFields
  <2> QED BY <1>1, <2>1, BidsKeyed DEF Sortable
<1>3. s = SortedBy(ps, RankKey)
  <2>1. \A i \in DOMAIN ps : Evaluate(ps[i]) = ps[i]
    BY <1>1, BidsKeyed
  <2>2. [i \in DOMAIN ps |-> Evaluate(ps[i])] = ps
    BY <1>1, <2>1
  <2> QED BY <2>2 DEF Rank
<1>4. /\ DOMAIN s = DOMAIN ps
      /\ \A k \in DOMAIN ps : \E i \in DOMAIN ps : s[k] = ps[i]
      /\ \A i \in DOMAIN ps : \E k \in DOMAIN ps : s[k] = ps[i]
      /\ \A k, m \in DOMAIN ps : k < m => ~Above(s[m], s[k], RankKey)
  BY <1>2, <1>3, SortedProperties
<1>5. s \in [1..Len(ps) -> Bids]
  <2>1. \A k \in 1..Len(ps) : s[k] \in Bids
    BY <1>1, <1>4
  <2>2. s = [k \in DOMAIN ps |-> s[k]]
    BY <1>3 DEF SortedBy
  <2> HIDE DEF s
  <2> QED BY <1>1, <2>1, <2>2
<1> HIDE DEF s
<1>6. s \in Seq(Bids) /\ Len(s) = Len(ps)
  BY <1>1, <1>5
<1>7. Range(s) = Range(ps)
  BY <1>4 DEF Range
<1>8. InOrder(s)
  <2> SUFFICES ASSUME NEW i \in DOMAIN s, NEW j \in DOMAIN s, i < j
               PROVE  /\ s[i].total_score >= s[j].total_score
                      /\ s[i].total_score = s[j].total_score =>
                           s[i].comparison_score >= s[j].comparison_score
    BY DEF InOrder
  <2>1. ~Above(s[j], s[i], RankKey)
    BY <1>4
  <2>2. s[i] \in Bids /\ s[j] \in Bids
    BY <1>1, <1>4
  <2> QED BY <2>1, <2>2, BidsKeyed, RankKeyFields
<1> QED BY <1>6, <1>7, <1>8 DEF s

\* The solver's own sort of a ranking keeps its winner.
LEMMA SolverKeepsWinner ==
  ASSUME NEW s \in Seq(Bids), InOrder(s), s # << >>
  PROVE  SortedBy(s, <<"total_score">>)[1] = s[1]
<1>1. /\ DOMAIN s = 1..Len(s) /\ Len(s) \in Nat /\ Len(s) # 0 /\ 1 \in DOMAIN s
      /\ \A i \in DOMAIN s : s[i] \in Bids
  OBVIOUS
<1>2. <<"total_score">> \in Seq(ScoreFields)
  BY DEF ScoreFields
<1>3. Sortable(s, <<"total_score">>)
  BY <1>1, <1>2, BidsKeyed DEF Sortable
<1>4. \A j \in DOMAIN s : s[1].total_score >= s[j].total_score
  <2> SUFFICES ASSUME NEW j \in DOMAIN s PROVE s[1].total_score >= s[j].total_score
    OBVIOUS
  <2>1. CASE j = 1
    BY <1>1, <2>1, BidsKeyed
  <2>2. CASE j # 1
    <3>1. 1 < j
      BY <1>1, <2>2
    <3> QED BY <1>1, <3>1 DEF InOrder
  <2> QED BY <2>1, <2>2
<1>5. \A j \in DOMAIN s : ~Above(s[j], s[1], <<"total_score">>)
  BY <1>1, <1>4, BidsKeyed, TotalKeyFields
<1> QED BY <1>1, <1>3, <1>5, SortedHead


-----------------------------------------------------------------------------
(* The strategy.                                                            *)

StrategyKeys == {"agent", "speed", "mode", "score", "decision", "rationale"}

\* What the rules make of a ranking.
LEMMA RulesFields ==
  ASSUME NEW s
  PROVE  LET t == RulesStrategy(s)
         IN  /\ DOMAIN t = StrategyKeys
             /\ t.agent = s[1].agent /\ t.speed = s[1].speed /\ t.mode = s[1].mode
             /\ t.score = s[1].total_score
             /\ t.decision = "rule_based" /\ t.rationale = "rules"
  BY DEF RulesStrategy, StrategyKeys

\* What the solver makes of it, with an answer of the LLM or without: the
\* winner's numbers; the answer adds its rationale and nothing else.
LEMMA SolverFields ==
  ASSUME NEW s \in Seq(Bids), InOrder(s), s # << >>, NEW answer \in LlmAnswers
  PROVE  LET t == SolverStrategy(s, answer)
         IN  /\ DOMAIN t = StrategyKeys
             /\ t.agent = s[1].agent /\ t.speed = s[1].speed
             /\ t.mode = SolverMode(s[1].mode) /\ t.score = s[1].total_score
             /\ t.decision = IF answer = "none" THEN "solver_only" ELSE "hybrid_solver_llm"
             /\ t.rationale = IF answer = "explains" THEN "llm" ELSE "rules"
<1> DEFINE best == s[1]
           numeric == NumericStrategy(s)
           part == LlmPart(answer)
           merged == MergeRationale(numeric, part)
           t == SolverStrategy(s, answer)
<1>1. best \in Bids
  OBVIOUS
<1>2. best.speed \in SpeedMin..SpeedMax
  BY <1>1, BidsKeyed
<1>3. Greatest(40, Least(100, best.speed)) = best.speed
  BY <1>2, ClampSpeed
<1>4. SortedBy(s, <<"total_score">>)[1] = best
  BY SolverKeepsWinner
<1> HIDE DEF best
<1>5. /\ DOMAIN numeric = NumericKeys
      /\ numeric.agent = best.agent /\ numeric.speed = best.speed
      /\ numeric.mode = SolverMode(best.mode) /\ numeric.score = best.total_score
      /\ numeric.decision = "solver_first"
  BY <1>3, <1>4 DEF NumericStrategy, NumericKeys
<1>6. /\ DOMAIN part \subseteq StrategyKeys
      /\ "rationale" \in DOMAIN part <=> answer = "explains"
      /\ answer = "explains" => part.rationale = "llm"
  <2>1. CASE answer = "none"
    <3>1. part = << >>
      BY <2>1 DEF LlmPart
    <3> QED BY <2>1, <3>1
  <2>2. CASE answer = "terse"
    <3>1. part = [agent |-> "LLM", speed |-> SpeedMin, mode |-> "total",
                  score |-> 0, decision |-> "llm"]
      BY <2>2 DEF LlmPart
    <3> HIDE DEF part
    <3>2. DOMAIN part = NumericKeys
      BY <3>1 DEF NumericKeys
    <3> QED BY <2>2, <3>2 DEF NumericKeys, StrategyKeys
  <2>3. CASE answer = "explains"
    <3>1. part = [agent |-> "LLM", speed |-> SpeedMin, mode |-> "total",
                  score |-> 0, decision |-> "llm", rationale |-> "llm"]
      BY <2>3 DEF LlmPart
    <3> HIDE DEF part
    <3>2. DOMAIN part = StrategyKeys /\ part.rationale = "llm"
      BY <3>1 DEF StrategyKeys
    <3> QED BY <2>3, <3>2 DEF StrategyKeys
  <2> QED BY <2>1, <2>2, <2>3 DEF LlmAnswers
<1> HIDE DEF numeric, part
<1>8. StrategyKeys = NumericKeys \cup {"rationale"} /\ "rationale" \notin NumericKeys
  BY DEF StrategyKeys, NumericKeys
<1>9. DOMAIN merged = StrategyKeys
  BY <1>5, <1>6, <1>8 DEF MergeRationale
<1>10. \A k \in NumericKeys : merged[k] = numeric[k]
  BY <1>5, <1>8 DEF MergeRationale
<1>11. merged.rationale = IF answer = "explains" THEN "llm" ELSE "rules"
  BY <1>5, <1>6, <1>8 DEF MergeRationale
<1>12. /\ merged.agent = best.agent /\ merged.speed = best.speed
       /\ merged.mode = SolverMode(best.mode) /\ merged.score = best.total_score
  BY <1>5, <1>10 DEF NumericKeys
<1>13. t = [merged EXCEPT !.decision = IF answer = "none" THEN "solver_only"
                                                      ELSE "hybrid_solver_llm"]
  BY DEF SolverStrategy, numeric, part
<1> HIDE DEF merged, t
<1>14. /\ DOMAIN t = StrategyKeys
       /\ t.agent = merged.agent /\ t.speed = merged.speed /\ t.mode = merged.mode
       /\ t.score = merged.score /\ t.rationale = merged.rationale
       /\ t.decision = IF answer = "none" THEN "solver_only" ELSE "hybrid_solver_llm"
  BY <1>9, <1>13 DEF StrategyKeys
<1> QED BY <1>11, <1>12, <1>14 DEF t, best

-----------------------------------------------------------------------------
(* The invariant.                                                           *)

\* The ranking is that of everything collected.
RankedAll ==
  /\ proposals \in Seq(Bids)
  /\ IF pc = "collect" THEN ranked = << >> ELSE ranked = Rank(proposals)
  /\ pc \in {"build", "report"} => proposals # << >>

DecisionMade == Made => DOMAIN strategy = StrategyKeys /\ OneWinner /\ LlmOnlyExplains

\* The LLM is told the bands of the readings it is told.
ContextKnown ==
  context.reading \in [vib : Nat, ma : Nat, oil : Nat] /\ context = LlmContext(context.reading)

PcInv == pc \in {"collect", "build", "report", "done"} /\ next \in 1 .. Len(Responders) + 1

StrategyInv == PcInv /\ RankedAll /\ DecisionMade /\ ContextKnown

\* The ranking as the invariant knows it.
LEMMA RankedFacts ==
  ASSUME RankedAll
  PROVE  /\ ranked \in Seq(Bids) /\ InOrder(ranked)
         /\ pc # "collect" => Len(ranked) = Len(proposals) /\ Range(ranked) = Range(proposals)
         /\ pc \in {"build", "report"} => ranked # << >>
         /\ ranked # << >> => ranked[1] \in Bids
<1>1. CASE pc = "collect"
  <2>1. ranked = << >>
    BY <1>1 DEF RankedAll
  <2> QED BY <1>1, <2>1 DEF InOrder
<1>2. CASE pc # "collect"
  <2>1. proposals \in Seq(Bids) /\ ranked = Rank(proposals)
    BY <1>2 DEF RankedAll
  <2>2. /\ ranked \in Seq(Bids) /\ Len(ranked) = Len(proposals)
        /\ Range(ranked) = Range(proposals) /\ InOrder(ranked)
    BY <2>1, RankProperties
  <2>3. pc \in {"build", "report"} => ranked # << >>
    BY <2>1, <2>2, EmptySeq DEF RankedAll
  <2>4. ranked # << >> => ranked[1] \in Bids
    BY <2>2
  <2> QED BY <1>2, <2>2, <2>3, <2>4
<1> QED BY <1>1, <1>2


LEMMA StrategyInit == Init => StrategyInv
<1> SUFFICES ASSUME Init PROVE StrategyInv
  OBVIOUS
<1>1. PcInv
  BY StrategyAssumption DEF Init, PcInv
<1>2. RankedAll
  BY DEF Init, RankedAll
<1>3. DecisionMade
  BY DEF Init, DecisionMade, Made
<1>4. ContextKnown
  BY DEF Init, ContextKnown, NoContext, LlmContext
<1> QED BY <1>1, <1>2, <1>3, <1>4 DEF StrategyInv

LEMMA PcStep == StrategyInv /\ [Next]_vars => PcInv'
<1> SUFFICES ASSUME PcInv, [Next]_vars PROVE PcInv'
  BY DEF StrategyInv
<1>1. Len(Responders) \in Nat
  BY StrategyAssumption
<1> USE DEF PcInv
<1>2. CASE Collect \/ CollectFails
  BY <1>1, <1>2 DEF Collect, CollectFails
<1>3. CASE RankAll
  BY <1>1, <1>3 DEF RankAll
<1>4. CASE BuildByRules \/ BuildBySolver \/ Report
  BY <1>1, <1>4 DEF BuildByRules, BuildBySolver, Report
<1>5. CASE UNCHANGED vars
  BY <1>5 DEF vars
<1> QED BY <1>2, <1>3, <1>4, <1>5 DEF Next

LEMMA RankedStep == StrategyInv /\ [Next]_vars => RankedAll'
<1> SUFFICES ASSUME PcInv, RankedAll, [Next]_vars PROVE RankedAll'
  BY DEF StrategyInv
<1>1. CASE Collect
  <2>1. PICK raw \in RawBids[Responders[next]] : proposals' = Append(proposals, Scored(raw))
    BY <1>1 DEF Collect
  <2>2. next \in DOMAIN Responders
    BY <1>1, StrategyAssumption DEF Collect, PcInv
  <2>3. Responders[next] \in DOMAIN RawBids
    BY <2>2, StrategyAssumption
  <2>4. Scored(raw) \in Bids
    BY <2>1, <2>3 DEF Bids, Collected
  <2>5. proposals' \in Seq(Bids)
    BY <2>1, <2>4 DEF RankedAll
  <2> QED BY <1>1, <2>5 DEF Collect, RankedAll
<1>2. CASE CollectFails
  BY <1>2 DEF CollectFails, RankedAll
<1>3. CASE RankAll
  <2>1. proposals' = proposals /\ ranked' = Rank(proposals')
    BY <1>3 DEF RankAll
  <2>2. pc' # "collect" /\ (pc' \in {"build", "report"} => proposals # << >>)
    BY <1>3 DEF RankAll
  <2> QED BY <2>1, <2>2 DEF RankedAll
<1>4. CASE BuildByRules \/ BuildBySolver \/ Report
  <2>1. /\ pc' # "collect" /\ pc # "collect" /\ pc \in {"build", "report"}
        /\ proposals' = proposals /\ ranked' = ranked
    BY <1>4 DEF BuildByRules, BuildBySolver, Report
  <2> QED BY <2>1 DEF RankedAll
<1>5. CASE UNCHANGED vars
  BY <1>5 DEF vars, RankedAll
<1> QED BY <1>1, <1>2, <1>3, <1>4, <1>5 DEF Next

LEMMA ContextStep == StrategyInv /\ [Next]_vars => ContextKnown'
<1> SUFFICES ASSUME ContextKnown, [Next]_vars PROVE ContextKnown'
  BY DEF StrategyInv
<1>1. CASE BuildBySolver
  <2>1. PICK r \in Readings : context' = LlmContext(r)
    BY <1>1 DEF BuildBySolver
  <2>2. r \in [vib : Nat, ma : Nat, oil : Nat]
    BY StrategyAssumption
  <2>3. LlmContext(r).reading = r
    BY DEF LlmContext
  <2> QED BY <2>1, <2>2, <2>3 DEF ContextKnown
<1>2. CASE ~BuildBySolver
  <2>1. context' = context
    BY <1>2 DEF Next, Collect, CollectFails, RankAll, BuildByRules, Report, vars
  <2> QED BY <2>1 DEF ContextKnown
<1> QED BY <1>1, <1>2

LEMMA DecisionStep == StrategyInv /\ [Next]_vars => DecisionMade'
<1> SUFFICES ASSUME PcInv, RankedAll, DecisionMade, [Next]_vars PROVE DecisionMade'
  BY DEF StrategyInv
<1> USE DEF DecisionMade
<1>1. CASE Collect \/ CollectFails
  BY <1>1 DEF Collect, CollectFails, Made
<1>2. CASE RankAll
  <2>1. CASE proposals = << >>
    <3>1. Rank(proposals) \in Seq(Bids) /\ Len(Rank(proposals)) = 0
      BY <2>1, RankProperties, EmptySeq
    <3>2. ranked' = << >>
      BY <1>2, <3>1 DEF RankAll
    <3> QED BY <3>2 DEF Made
  <2>2. CASE proposals # << >>
    BY <1>2, <2>2 DEF RankAll, Made
  <2> QED BY <2>1, <2>2
<1>3. CASE BuildByRules
  <2>1. /\ pc' = "report" /\ ranked' = ranked /\ strategy' = RulesStrategy(ranked)
        /\ llm' \in {"off", "raises"}
    BY <1>3 DEF BuildByRules
  <2>2. /\ DOMAIN strategy' = StrategyKeys
        /\ strategy'.agent = ranked[1].agent /\ strategy'.speed = ranked[1].speed
        /\ strategy'.mode = ranked[1].mode /\ strategy'.score = ranked[1].total_score
        /\ strategy'.decision = "rule_based" /\ strategy'.rationale = "rules"
    BY <2>1, RulesFields
  <2>3. OneWinner'
    BY <2>1, <2>2 DEF OneWinner
  <2>4. LlmOnlyExplains'
    BY <2>1, <2>2 DEF LlmOnlyExplains
  <2> QED BY <2>2, <2>3, <2>4
<1>4. CASE BuildBySolver
  <2>1. /\ pc = "build" /\ pc' = "report" /\ ranked' = ranked
        /\ llm' \in LlmAnswers /\ strategy' = SolverStrategy(ranked, llm')
    BY <1>4 DEF BuildBySolver
  <2>2. ranked \in Seq(Bids) /\ InOrder(ranked) /\ ranked # << >>
    BY <2>1, RankedFacts
  <2>3. PICK answer \in LlmAnswers : answer = llm'
    BY <2>1
  <2>4. strategy' = SolverStrategy(ranked, answer)
    BY <2>1, <2>3
  <2>5. /\ DOMAIN strategy' = StrategyKeys
        /\ strategy'.agent = ranked[1].agent /\ strategy'.speed = ranked[1].speed
        /\ strategy'.mode = SolverMode(ranked[1].mode)
        /\ strategy'.score = ranked[1].total_score
        /\ strategy'.decision = IF answer = "none" THEN "solver_only" ELSE "hybrid_solver_llm"
        /\ strategy'.rationale = IF answer = "explains" THEN "llm" ELSE "rules"
    BY <2>2, <2>4, SolverFields
  <2>6. OneWinner'
    BY <2>1, <2>5 DEF OneWinner
  <2>7. strategy'.decision = "hybrid_solver_llm" <=> llm' \in {"terse", "explains"}
    BY <2>3, <2>5 DEF LlmAnswers
  <2>8. strategy'.rationale = "llm" <=> llm' = "explains"
    BY <2>3, <2>5
  <2>9. LlmOnlyExplains'
    BY <2>1, <2>5, <2>7, <2>8 DEF LlmOnlyExplains
  <2> QED BY <2>5, <2>6, <2>9
<1>5. CASE Report
  <2>1. /\ pc = "report" /\ pc' = "done" /\ ranked' = ranked /\ llm' = llm
        /\ strategy' = [strategy EXCEPT !.speed = Clamp(@)]
        /\ card'.agent = ranked[1].agent /\ card'.speed = Clamp(strategy.speed)
    BY <1>5 DEF Report
  <2>2. Made /\ ranked[1] \in Bids
    BY <2>1, RankedFacts DEF Made
  <2>3. /\ DOMAIN strategy = StrategyKeys
        /\ strategy.agent = ranked[1].agent /\ strategy.speed = ranked[1].speed
        /\ strategy.score = ranked[1].total_score
        /\ strategy.mode \in {ranked[1].mode, SolverMode(ranked[1].mode)}
        /\ (strategy.decision = "hybrid_solver_llm" <=> llm \in {"terse", "explains"})
        /\ (strategy.rationale = "llm" <=> llm = "explains")
    BY <2>2 DEF OneWinner, LlmOnlyExplains
  <2>4. Clamp(strategy.speed) = ranked[1].speed
    BY <2>2, <2>3, BidsKeyed, ClampSpeed
  <2>5. /\ DOMAIN strategy' = StrategyKeys /\ strategy'.speed = ranked[1].speed
        /\ strategy'.agent = strategy.agent /\ strategy'.mode = strategy.mode
        /\ strategy'.score = strategy.score /\ strategy'.decision = strategy.decision
        /\ strategy'.rationale = strategy.rationale
    BY <2>1, <2>3, <2>4 DEF StrategyKeys
  <2>6. OneWinner'
    BY <2>1, <2>3, <2>4, <2>5 DEF OneWinner
  <2>7. LlmOnlyExplains'
    BY <2>1, <2>3, <2>5 DEF LlmOnlyExplains
  <2> QED BY <2>5, <2>6, <2>7
<1>6. CASE UNCHANGED vars
  BY <1>6 DEF vars, Made, OneWinner, LlmOnlyExplains
<1> QED BY <1>1, <1>2, <1>3, <1>4, <1>5, <1>6 DEF Next

\* The invariant holds throughout a round.
LEMMA StrategyAlways == Spec => []StrategyInv
<1>1. StrategyInv /\ [Next]_vars => StrategyInv'
  BY PcStep, RankedStep, ContextStep, DecisionStep DEF StrategyInv
<1> QED BY <1>1, StrategyInit, PTL DEF Spec

-----------------------------------------------------------------------------
(* The theorems.                                                            *)

\* Whatever the agents bid, the ranking a round decides on holds speeds within
\* the constraints and scores in their scale, has every collected bid once with
\* the scores it was collected with (evaluate_proposal run a second time by
\* rank_proposals_by_comparison changes nothing), and is in order.
THEOREM RankingIsSound == Spec => []RankingSound
<1>1. StrategyInv => RankingSound
  <2> SUFFICES ASSUME PcInv, RankedAll, DecisionMade PROVE RankingSound
    BY DEF StrategyInv
  <2>1. TypeOK
    <3>1. \A i \in DOMAIN proposals : proposals[i] \in Bids
      BY DEF RankedAll
    <3>2. \A i \in DOMAIN proposals : /\ proposals[i].speed \in SpeedMin..SpeedMax
                                      /\ proposals[i].total_score \in WorstScore..BestScore
      BY <3>1, BidsKeyed
    <3>3. Made => strategy.speed \in SpeedMin..SpeedMax
      <4> SUFFICES ASSUME Made PROVE strategy.speed \in SpeedMin..SpeedMax
        OBVIOUS
      <4>1. ranked[1] \in Bids
        BY RankedFacts DEF Made
      <4>2. strategy.speed = ranked[1].speed
        BY DEF DecisionMade, OneWinner
      <4> QED BY <4>1, <4>2, BidsKeyed
    <3> QED BY <3>2, <3>3 DEF TypeOK, PcInv
  <2>2. ReevaluationStable
    BY RankedFacts DEF ReevaluationStable, RankedAll
  <2>3. RankedByScore
    BY RankedFacts DEF RankedByScore, InOrder
  <2> QED BY <2>1, <2>2, <2>3 DEF RankingSound
<1> QED BY <1>1, StrategyAlways, PTL

\* The ranking, the solver of cnp_numeric_strategy and the decision card name
\* one winner, the speed to be applied is the one it bid, and an answer of the
\* LLM adds the hybrid label, its words if it has any, and nothing else.
THEOREM OneStrategyMade == Spec => []OneStrategy
<1>1. StrategyInv => OneStrategy
  BY DEF StrategyInv, DecisionMade, OneStrategy, OneWinner, LlmOnlyExplains
<1> QED BY <1>1, StrategyAlways, PTL

\* No agent could have scored higher with a bid that is worse on an axis and
\* better on none, the zeros evaluate_proposal takes for missing values apart.
THEOREM BetterBidsScoreHigher == Spec => []BetterBidScoresHigher
<1>1. StrategyInv => BetterBidScoresHigher
  <2> SUFFICES ASSUME RankedAll,
                      NEW i \in DOMAIN proposals, NEW raw \in RawBids[proposals[i].agent],
                      Dominates(Scored(raw).comparison, proposals[i].comparison),
                      \A a \in Axes : /\ proposals[i].comparison[a] # 0
                                      /\ Scored(raw).comparison[a] # 0
               PROVE  Scored(raw).total_score >= proposals[i].total_score
    BY DEF StrategyInv, BetterBidScoresHigher
  <2>1. proposals[i] \in Bids
    BY DEF RankedAll
  <2>2. PICK a \in DOMAIN RawBids : proposals[i] \in Collected(a)
    BY <2>1 DEF Bids
  <2>3. PICK other \in RawBids[a] : proposals[i] = Scored(other)
    BY <2>2 DEF Collected
  <2>4. proposals[i].agent = a
    BY <2>3, ScoredFields
  <2>5. "quality_risk" \in Axes
    BY DEF Axes
  <2>6. /\ Scored(raw).comparison.quality_risk # 0
        /\ Scored(other).comparison.quality_risk # 0
    BY <2>3, <2>5
  <2> QED BY <2>3, <2>4, <2>6, BetterScores
<1> QED BY <1>1, StrategyAlways, PTL

\* Whatever WC-01's sensors read when the LLM is asked, the bands of
\* infer_domain_signals do not contradict the rules of the router.
THEOREM SignalsNeverContradict == Spec => []SignalsAgreeWithRouter
<1>1. StrategyInv => SignalsAgreeWithRouter
  <2> SUFFICES ASSUME ContextKnown PROVE SignalsAgreeWithRouter
    BY DEF StrategyInv
  <2> DEFINE r == context.reading
             sensors == <<[name |-> "vibration", value |-> r.vib],
                          [name |-> "oil_temp", value |-> r.oil]>>
             snap == [stations |-> <<[sensors |-> sensors]>>, materials |-> << >>]
  <2>1. r.vib \in Nat /\ r.ma \in Nat /\ r.oil \in Nat
    BY DEF ContextKnown
  <2>2. context.rul_band = RulBand(r) /\ context.defect_risk_band = DefectRisk(r)
    BY DEF ContextKnown, LlmContext
  <2>3. Reading(snap, "vibration") = r.vib /\ Reading(snap, "oil_temp") = r.oil
    BY <2>1 DEF Reading
  <2>4. SafetyRule(snap) => RulBand(r) = "RED"
    <3> HIDE DEF r, snap
    <3> QED BY <2>1, <2>3 DEF SafetyRule, RulBand
  <2>5. ThresholdRule("EA", snap) => DefectRisk(r) = "HIGH"
    <3> HIDE DEF r, snap
    <3> QED BY <2>1, <2>3 DEF ThresholdRule, DefectRisk
  <2> QED BY <2>2, <2>4, <2>5 DEF SignalsAgreeWithRouter
<1> QED BY <1>1, StrategyAlways, PTL

\* A proposal made of a bid and metrics within their scale is one
\* StrategyAssumption allows, sent as it is or with its comparison filled in.
LEMMA ProposalIsRaw ==
  ASSUME NEW a \in DOMAIN Scores, NEW bid \in Bid, NEW metrics, IsMetrics(metrics)
  PROVE  /\ IsRawBid(Proposal(a, bid, metrics), a)
         /\ IsRawBid(Merged(Proposal(a, bid, metrics)), a)
<1> DEFINE p == Proposal(a, bid, metrics)
           m == Merged(p)
           ProposalKeys == {"agent", "speed", "mode", "scores", "metrics", "comparison"}
<1>1. /\ DOMAIN p = ProposalKeys /\ p.agent = a /\ p.scores = Scores[a]
      /\ p.speed \in Nat /\ p.mode \in InspectionMode /\ p.metrics = metrics
      /\ p.comparison = NoComparison
  BY DEF Proposal, Bid
<1>2. /\ DOMAIN m = ProposalKeys /\ m.agent = p.agent /\ m.scores = p.scores
      /\ m.speed = p.speed /\ m.mode = p.mode /\ m.metrics = p.metrics
      /\ m.comparison = Normalize(p)
  <2> HIDE DEF p
  <2> QED BY <1>1 DEF Merged
<1>3. [m EXCEPT !.comparison = NoComparison] = p
  <2> DEFINE n == Normalize(p)
             record(c) == [agent |-> a, speed |-> bid.speed, mode |-> bid.mode,
                           scores |-> Scores[a], metrics |-> metrics, comparison |-> c]
  <2>1. p = record(NoComparison) /\ m = [p EXCEPT !.comparison = n]
    BY DEF Merged, Proposal
  <2> HIDE DEF p, m, n
  <2>2. m = record(n)
    BY <2>1
  <2>3. [record(n) EXCEPT !.comparison = NoComparison] = record(NoComparison)
    BY DEF NoComparison
  <2> HIDE DEF record
  <2> QED BY <2>1, <2>2, <2>3
<1>4. IsRawBid(p, a)
  <2> HIDE DEF p
  <2> QED BY <1>1 DEF IsRawBid
<1>5. IsRawBid(m, a)
  <2> HIDE DEF p, m
  <2> QED BY <1>1, <1>2, <1>3 DEF IsRawBid
<1> QED BY <1>4, <1>5

\* What handle_cfp of each agent returns is a bid StrategyAssumption allows:
\* the assumption is what the agents do, for any bid within Bid (every bid of
\* an AgentCycle behaviour is) and any Cpk up to its default of 2.
THEOREM AgentsBidInScale ==
  /\ \A rul : EaBid(rul) \in Bid => IsRawBid(EaProposal(rul), "EA")
  /\ \A cpk \in 0..200 : IsRawBid(QaProposal(cpk), "QA")
  /\ \A log : SaBid(log) \in Bid => IsRawBid(SaProposal(log), "SA")
  /\ \A util : DaBid(util) \in Bid => IsRawBid(DaProposal(util), "DA")
  /\ \A flow : IaBid(flow) \in Bid => IsRawBid(IaProposal(flow), "IA")
<1>1. DOMAIN Scores = {"EA", "QA", "SA", "DA", "IA"}
  BY DEF Scores
<1>2. \A bid \in Bid : bid.cost \in 0..100 /\ bid.viol \in 0..100
  BY DEF Bid
<1>3. \A bid \in Bid : IsMetrics(BidMetrics(bid))
  BY <1>2 DEF IsMetrics, BidMetrics, MetricKeys, MetricMax
<1>4. ASSUME NEW rul, EaBid(rul) \in Bid PROVE IsRawBid(EaProposal(rul), "EA")
  <2> DEFINE bid == EaBid(rul)
             metrics == [cost_estimate |-> bid.cost, constraint_violation_total |-> bid.viol,
                         expected_effect |-> 100 - bid.cost, quality_risk |-> 35,
                         confidence |-> 75]
  <2>1. bid.cost \in 0..100 /\ bid.viol \in 0..100
    BY <1>2, <1>4
  <2>2. IsMetrics(metrics)
    <3> HIDE DEF bid
    <3> QED BY <2>1 DEF IsMetrics, MetricKeys, MetricMax
  <2>3. EaProposal(rul) = Merged(Proposal("EA", bid, metrics))
    BY DEF EaProposal
  <2> QED BY <1>1, <1>4, <2>2, <2>3, ProposalIsRaw
<1>5. ASSUME NEW cpk \in 0..200 PROVE IsRawBid(QaProposal(cpk), "QA")
  <2> DEFINE bid == QaBid(cpk)
             effect == 50 + (50 * cpk) \div CpkGood
             risk == 100 - Least(100, (100 * cpk) \div CpkGood)
             metrics == [cost_estimate |-> bid.cost, constraint_violation_total |-> bid.viol,
                         expected_effect |-> effect, quality_risk |-> risk,
                         confidence |-> 82]
  <2>1. effect \in 0..125 /\ risk \in 0..100
    BY DEF CpkGood, Least
  <2>2. bid \in Bid
    <3>1. /\ bid.speed \in Nat /\ bid.mode \in InspectionMode
          /\ bid.cost \in 0..100 /\ bid.viol \in 0..100
      BY DEF QaBid, CpkGood, CpkWarning, Greatest, Least, InspectionMode
    <3>2. bid = [speed |-> bid.speed, mode |-> bid.mode, cost |-> bid.cost, viol |-> bid.viol]
      BY DEF QaBid
    <3> HIDE DEF bid
    <3> QED BY <3>1, <3>2 DEF Bid
  <2>3. IsMetrics(metrics)
    <3>1. bid.cost \in 0..100 /\ bid.viol \in 0..100
      BY <1>2, <2>2
    <3> HIDE DEF bid, effect, risk
    <3> QED BY <2>1, <3>1 DEF IsMetrics, MetricKeys, MetricMax
  <2>4. QaProposal(cpk) = Merged(Proposal("QA", bid, metrics))
    BY DEF QaProposal
  <2> QED BY <1>1, <2>2, <2>3, <2>4, ProposalIsRaw
<1>6. ASSUME NEW log, SaBid(log) \in Bid PROVE IsRawBid(SaProposal(log), "SA")
  BY <1>1, <1>3, <1>6, ProposalIsRaw DEF SaProposal
<1>7. ASSUME NEW util, DaBid(util) \in Bid PROVE IsRawBid(DaProposal(util), "DA")
  BY <1>1, <1>3, <1>7, ProposalIsRaw DEF DaProposal
<1>8. ASSUME NEW flow, IaBid(flow) \in Bid PROVE IsRawBid(IaProposal(flow), "IA")
  BY <1>1, <1>3, <1>8, ProposalIsRaw DEF IaProposal
<1> QED BY <1>4, <1>5, <1>6, <1>7, <1>8
=============================================================================
