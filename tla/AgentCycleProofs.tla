-------------------------- MODULE AgentCycleProofs --------------------------
(***************************************************************************)
(* Proofs about AgentCycle, for every line, every set of snapshots and any   *)
(* number of exceptions: its threads stay consistent, the bids PA collects   *)
(* are the ones Planning assumes, EA's bid comes from its last passes over    *)
(* the stations, and QA inspects every part only with cause.                 *)
(***************************************************************************)
EXTENDS AgentCycle, SumLemmas, SequenceTheorems

-----------------------------------------------------------------------------
(* What the agents compute.                                                 *)

Line == SnapshotsOf(NumStations)

\* The images of a finite set under a function are finite.
LEMMA ImageFinite ==
  ASSUME NEW S, IsFiniteSet(S), NEW f, DOMAIN f = S, f = [x \in S |-> f[x]]
  PROVE  IsFiniteSet({f[x] : x \in S})
<1> DEFINE T == {f[x] : x \in S}
<1>1. f \in Surjection(S, T)
  BY DEF Surjection
<1> QED BY <1>1, FS_Surjection

\* A repeated alert is a sequence of alerts.
LEMMA TimesType ==
  ASSUME NEW S, NEW x \in S, NEW n \in Nat
  PROVE  Times(n, x) \in Seq(S)
  BY DEF Times

LEMMA ConcatType ==
  ASSUME NEW S, NEW s \in Seq(S), NEW t \in Seq(S)
  PROVE  s \o t \in Seq(S)
  OBVIOUS

LEMMA IfType ==
  ASSUME NEW S, NEW c, NEW s \in Seq(S)
  PROVE  If(c, s) \in Seq(S)
<1>1. <<>> \in Seq(S)
  OBVIOUS
<1> QED BY <1>1 DEF If

LEMMA MembersType ==
  ASSUME NEW S, NEW q \in Seq(S)
  PROVE  \A i \in DOMAIN q : q[i] \in S
  OBVIOUS

\* A quotient of naturals.
LEMMA DivNat ==
  ASSUME NEW n \in Nat, NEW d \in Nat, d > 0
  PROVE  n \div d \in Nat
  OBVIOUS

\* The sensors of a snapshot are finitely many.
LEMMA SensorsOfLine ==
  ASSUME NEW snap \in Line
  PROVE  /\ DOMAIN snap.stations = 1..NumStations
         /\ \A s \in 1..NumStations : snap.stations[s] \in Stations
         /\ \A x \in SensorsOf(snap) : SensorAt(snap, x) \in Sensors
         /\ IsFiniteSet(SensorsOf(snap))
<1>1. /\ DOMAIN snap.stations = 1..NumStations
      /\ \A s \in 1..NumStations : snap.stations[s] \in Stations
  BY DEF Line, SnapshotsOf
<1>2. \A s \in 1..NumStations : snap.stations[s].sensors \in Seq(Sensors)
  BY <1>1 DEF Stations
<1>3. ASSUME NEW x \in SensorsOf(snap)
      PROVE  SensorAt(snap, x) \in Sensors
  <2>1. PICK s \in 1..NumStations : \E i \in DOMAIN snap.stations[s].sensors : x = <<s, i>>
    BY <1>1, <1>3 DEF SensorsOf
  <2>2. PICK i \in DOMAIN snap.stations[s].sensors : x = <<s, i>>
    BY <2>1
  <2>3. SensorAt(snap, x) = snap.stations[s].sensors[i]
    BY <2>2 DEF SensorAt
  <2> QED BY <1>2, <2>2, <2>3
<1>4. IsFiniteSet(SensorsOf(snap))
  <2> DEFINE At(s) == {<<s, i>> : i \in DOMAIN snap.stations[s].sensors}
             g == [s \in 1..NumStations |-> At(s)]
  <2>1. ASSUME NEW s \in 1..NumStations PROVE IsFiniteSet(At(s))
    <3> DEFINE D == DOMAIN snap.stations[s].sensors
               f == [i \in D |-> <<s, i>>]
    <3>1. D = 1..Len(snap.stations[s].sensors) /\ Len(snap.stations[s].sensors) \in Nat
      BY <1>2, LenProperties
    <3>2. IsFiniteSet(D)
      BY <3>1, FS_Interval
    <3> HIDE DEF D
    <3>3. DOMAIN f = D /\ f = [i \in D |-> f[i]]
      OBVIOUS
    <3>4. At(s) = {f[i] : i \in D}
      BY DEF D
    <3> HIDE DEF f, At
    <3>5. IsFiniteSet({f[i] : i \in D})
      BY <3>2, <3>3, ImageFinite
    <3> QED BY <3>4, <3>5
  <2>2. IsFiniteSet(1..NumStations)
    BY FS_Interval, AgentCycleAssumption
  <2>3. SensorsOf(snap) = UNION {g[s] : s \in 1..NumStations}
    BY <1>1 DEF SensorsOf
  <2>4. \A s \in 1..NumStations : g[s] = At(s)
    OBVIOUS
  <2>5. DOMAIN g = 1..NumStations /\ g = [s \in 1..NumStations |-> g[s]]
    OBVIOUS
  <2> HIDE DEF g, At
  <2>6. IsFiniteSet({g[s] : s \in 1..NumStations})
    BY <2>2, <2>5, ImageFinite
  <2>7. \A T \in {g[s] : s \in 1..NumStations} : IsFiniteSet(T)
    BY <2>1, <2>4
  <2> QED BY <2>3, <2>6, <2>7, FS_UNION
<1> QED BY <1>1, <1>3, <1>4

\* The members of a finite set that satisfy a condition can be counted.
LEMMA PartCount ==
  ASSUME NEW S, IsFiniteSet(S), NEW T \in SUBSET S
  PROVE  Cardinality(T) \in Nat
  BY FS_Subset, FS_CardinalityType

\* An anomaly is a percentage.
LEMMA AnomalyType ==
  ASSUME NEW x \in Sensors
  PROVE  Anomaly(x) \in 0..100
<1> DEFINE q == (x.dev * 20) \div x.std
           t == IF x.rising >= 8 THEN 40 ELSE IF x.rising >= 6 THEN 20 ELSE 0
           w == RawAnomaly(x) * x.gain
<1>1. x.dev * 20 \in Nat /\ x.std \in Nat /\ x.gain \in Nat
  BY DEF Sensors
<1>2. x.std # 0 => q \in Nat
  BY <1>1, DivNat
<1>3. t \in Nat
  BY DEF Sensors
<1> HIDE DEF q, t
<1>4. RawAnomaly(x) \in 0..100
  <2>1. CASE x.std = 0
    BY <2>1 DEF RawAnomaly
  <2>2. CASE x.std # 0
    <3>1. RawAnomaly(x) = Least(100, q + t)
      BY <2>2 DEF RawAnomaly, q, t
    <3> QED BY <2>2, <3>1, <1>2, <1>3 DEF Least
  <2> QED BY <2>1, <2>2
<1>5. w \in Nat
  BY <1>1, <1>4
<1>6. w \div 100 \in Nat
  BY <1>5, DivNat
<1>7. Anomaly(x) = Least(100, w \div 100)
  BY DEF Anomaly
<1> HIDE DEF w
<1> QED BY <1>6, <1>7 DEF Least

\* An estimate of remaining life is a number of tenths of an hour.
LEMMA RulType ==
  ASSUME NEW st \in Stations
  PROVE  RulOf(st) \in Nat
<1> DEFINE Penalty(x) == IF Anomaly(x) > AlarmThreshold THEN Anomaly(x) * 30 ELSE 0
           f == [i \in DOMAIN st.sensors |-> Penalty(st.sensors[i])]
           D == DOMAIN st.sensors
           tool == IF st.tool < ToolWarn THEN (ToolWarn - st.tool) * 300 ELSE 0
           base == IF st.mtbf = 0 THEN 1000 ELSE (st.mtbf * Health(st)) \div 1000
<1>1. /\ st.sensors \in Seq(Sensors) /\ st.tool \in Nat /\ st.mtbf \in Nat
      /\ st.rul_scale \in Nat
  BY DEF Stations
<1>2. D = 1..Len(st.sensors) /\ Len(st.sensors) \in Nat
  BY <1>1, LenProperties
<1>3. IsFiniteSet(D) /\ DOMAIN f = D
  BY <1>2, FS_Interval
<1>4. ASSUME NEW i \in D PROVE f[i] \in Int
  <2>1. st.sensors[i] \in Sensors
    BY <1>1
  <2>2. Anomaly(st.sensors[i]) \in 0..100
    BY <2>1, AnomalyType
  <2> QED BY <2>2
<1>5. SumFunction(f) \in Int
  <2> HIDE DEF f, D
  <2>1. SumFunctionOnSet(f, D) \in Int
    BY <1>3, <1>4, SumType
  <2> QED BY <2>1, <1>3 DEF SumFunction
<1>6. tool \in Int
  BY <1>1 DEF ToolWarn
<1>7. Health(st) \in Int
  <2>1. Health(st) = 10000 - SumFunction(f) - tool
    BY DEF Health
  <2> HIDE DEF f, tool
  <2> QED BY <2>1, <1>5, <1>6
<1>8. base \in Int
  <2>1. st.mtbf * Health(st) \in Int
    BY <1>1, <1>7
  <2> QED BY <2>1
<1>9. RulOf(st) = Greatest(5, (base * st.rul_scale) \div 100)
  BY DEF RulOf
<1> HIDE DEF base
<1>10. base * st.rul_scale \in Int
  BY <1>1, <1>8
<1>11. (base * st.rul_scale) \div 100 \in Int
  BY <1>10
<1> QED BY <1>9, <1>11 DEF Greatest

\* Whatever an agent sends is an alert of a known severity.
LEMMA AlertsType ==
  ASSUME NEW snap \in Line, NEW u \in Int
  PROVE  /\ EaAlerts(snap) \in Seq(Severity)
         /\ QaAlerts(snap) \in Seq(Severity)
         /\ SaAlerts(snap) \in Seq(Severity)
         /\ DaAlerts(snap, u) \in Seq(Severity)
         /\ IaAlerts(snap) \in Seq(Severity)
<1>0. "CRITICAL" \in Severity /\ "HIGH" \in Severity /\ "MEDIUM" \in Severity
  BY DEF Severity
<1>1. IsFiniteSet(SensorsOf(snap)) /\ IsFiniteSet(DOMAIN snap.stations)
  <2>1. IsFiniteSet(1..NumStations)
    BY FS_Interval, AgentCycleAssumption
  <2> QED BY <2>1, SensorsOfLine
<1>2. /\ IsFiniteSet(DOMAIN snap.materials) /\ IsFiniteSet(DOMAIN snap.orders)
      /\ IsFiniteSet(DOMAIN snap.wip)
  <2>1. /\ DOMAIN snap.materials = 1..Len(snap.materials) /\ Len(snap.materials) \in Nat
        /\ DOMAIN snap.orders = 1..Len(snap.orders) /\ Len(snap.orders) \in Nat
        /\ DOMAIN snap.wip = 1..Len(snap.wip) /\ Len(snap.wip) \in Nat
    BY LenProperties DEF Line, SnapshotsOf
  <2>2. \A n \in Nat : IsFiniteSet(1..n)
    BY FS_Interval
  <2> QED BY <2>1, <2>2
<1>3. EaAlerts(snap) \in Seq(Severity)
  <2> DEFINE A == {x \in SensorsOf(snap) : Anomaly(SensorAt(snap, x)) > CriticalThreshold}
             B == {s \in DOMAIN snap.stations : snap.stations[s].tool < ToolUrgent}
  <2>1. A \in SUBSET SensorsOf(snap) /\ B \in SUBSET DOMAIN snap.stations
    OBVIOUS
  <2>2. EaAlerts(snap) = Times(Cardinality(A), "CRITICAL") \o Times(Cardinality(B), "HIGH")
    BY DEF EaAlerts
  <2> HIDE DEF A, B
  <2>3. Cardinality(A) \in Nat /\ Cardinality(B) \in Nat
    BY <1>1, <2>1, PartCount
  <2>4. /\ Times(Cardinality(A), "CRITICAL") \in Seq(Severity)
        /\ Times(Cardinality(B), "HIGH") \in Seq(Severity)
    BY <1>0, <2>3, TimesType
  <2> QED BY <2>2, <2>4, ConcatType
<1>4. QaAlerts(snap) \in Seq(Severity)
  <2> DEFINE A == CriticalCpk(snap)
             r == [x \in SensorsOf(snap) |-> SensorAt(snap, x).rules]
             n == RuleViolations(snap)
  <2>1. A \in SUBSET SensorsOf(snap)
    BY DEF CriticalCpk, CpkStatus
  <2>2. DOMAIN r = SensorsOf(snap) /\ \A x \in SensorsOf(snap) : r[x] \in Nat
    BY SensorsOfLine DEF Sensors
  <2>3. n = SumFunctionOnSet(r, SensorsOf(snap))
    BY DEF RuleViolations, SumFunction
  <2>4. QaAlerts(snap) = Times(Cardinality(A), "HIGH") \o Times(n, "MEDIUM")
                           \o If(Worsening(snap), <<"CRITICAL">>)
    BY DEF QaAlerts
  <2> HIDE DEF A, r, n
  <2>5. n \in Nat
    BY <1>1, <2>2, <2>3, SumType
  <2>6. Cardinality(A) \in Nat
    BY <1>1, <2>1, PartCount
  <2>7. <<"CRITICAL">> \in Seq(Severity)
    BY <1>0
  <2>8. /\ Times(Cardinality(A), "HIGH") \in Seq(Severity)
        /\ Times(n, "MEDIUM") \in Seq(Severity)
        /\ If(Worsening(snap), <<"CRITICAL">>) \in Seq(Severity)
    BY <1>0, <2>5, <2>6, <2>7, TimesType, IfType
  <2> QED BY <2>4, <2>8, ConcatType
<1>5. SaAlerts(snap) \in Seq(Severity)
  <2>1. Shortages(snap) \in SUBSET DOMAIN snap.materials
    BY DEF Shortages
  <2>2. Cardinality(Shortages(snap)) \in Nat
    BY <1>2, <2>1, PartCount
  <2> QED BY <1>0, <2>2, TimesType DEF SaAlerts
<1>6. DaAlerts(snap, u) \in Seq(Severity)
  <2>1. AtRisk(snap) \in SUBSET DOMAIN snap.orders
    BY DEF AtRisk
  <2>2. Cardinality(AtRisk(snap)) \in Nat
    BY <1>2, <2>1, PartCount
  <2>3. <<"CRITICAL">> \in Seq(Severity) /\ <<"MEDIUM">> \in Seq(Severity)
    BY <1>0
  <2>4. /\ Times(Cardinality(AtRisk(snap)), "HIGH") \in Seq(Severity)
        /\ If(OnTimeLow(snap), <<"CRITICAL">>) \in Seq(Severity)
        /\ If(u > 110, <<"MEDIUM">>) \in Seq(Severity)
    BY <1>0, <2>2, <2>3, TimesType, IfType
  <2> QED BY <2>4, ConcatType DEF DaAlerts
<1>7. IaAlerts(snap) \in Seq(Severity)
  <2> DEFINE A == {w \in DOMAIN snap.wip : snap.wip[w] > WipOverload}
             b == Bottleneck(snap) # 0 /\ snap.stations[Bottleneck(snap)].oee < BottleneckOee
  <2>1. A \in SUBSET DOMAIN snap.wip
    OBVIOUS
  <2>2. IaAlerts(snap) = Times(Cardinality(A), "HIGH") \o If(b, <<"MEDIUM">>)
                           \o If(ScrapRate(snap) > 5, <<"MEDIUM">>)
    BY DEF IaAlerts
  <2> HIDE DEF A, b
  <2>3. Cardinality(A) \in Nat
    BY <1>2, <2>1, PartCount
  <2>4. <<"MEDIUM">> \in Seq(Severity)
    BY <1>0
  <2>5. /\ Times(Cardinality(A), "HIGH") \in Seq(Severity)
        /\ If(b, <<"MEDIUM">>) \in Seq(Severity)
        /\ If(ScrapRate(snap) > 5, <<"MEDIUM">>) \in Seq(Severity)
    BY <1>0, <2>3, <2>4, TimesType, IfType
  <2> QED BY <2>2, <2>5, ConcatType
<1> QED BY <1>3, <1>4, <1>5, <1>6, <1>7

\* No sensor of a line has limits, so that the worst Cpk is the default.
LEMMA CpkDefault ==
  ASSUME NEW snap, CpkStatus(snap) = {}
  PROVE  WorstCpk(snap) = 200 /\ CriticalCpk(snap) = {}
<1>1. {SensorAt(snap, x).cpk : x \in CpkStatus(snap)} \cup {200} = {200}
  OBVIOUS
<1>2. (CHOOSE c \in {200} : \A d \in {200} : c <= d) = 200
  OBVIOUS
<1>3. WorstCpk(snap) = 200
  BY <1>1, <1>2 DEF WorstCpk
<1>4. CriticalCpk(snap) = {}
  BY DEF CriticalCpk
<1> QED BY <1>3, <1>4

\* The utilisation DA remembers is a percentage of at most 150.
LEMMA UtilType ==
  ASSUME NEW snap \in Line, NEW n \in Nat
  PROVE  CapacityUtil(snap, n) \in 0..150
<1> DEFINE f == [i \in DOMAIN snap.orders |-> snap.orders[i].qty]
           D == DOMAIN snap.orders
           capacity == Greatest(1, (snap.produced * 480) \div n)
           demand == IF snap.orders = <<>> THEN 0
                     ELSE TotalDemand(snap) \div Len(snap.orders)
<1>1. /\ snap.produced \in Nat
      /\ snap.orders \in Seq([qty : Nat, delivered : Nat, urgent : BOOLEAN])
  BY DEF Line, SnapshotsOf
<1>2. D = 1..Len(snap.orders) /\ Len(snap.orders) \in Nat
  BY <1>1, LenProperties
<1>3. IsFiniteSet(D) /\ DOMAIN f = D /\ \A i \in D : f[i] \in Nat
  <2>1. IsFiniteSet(D)
    BY <1>2, FS_Interval
  <2>2. \A i \in D : snap.orders[i] \in [qty : Nat, delivered : Nat, urgent : BOOLEAN]
    BY <1>1, MembersType
  <2> QED BY <2>1, <2>2
<1>4. TotalDemand(snap) \in Nat
  <2>1. TotalDemand(snap) = SumFunctionOnSet(f, D)
    BY DEF TotalDemand, SumFunction
  <2> HIDE DEF f, D
  <2> QED BY <2>1, <1>3, SumType
<1>5. demand \in Nat
  <2>1. CASE snap.orders = <<>>
    BY <2>1
  <2>2. CASE snap.orders # <<>>
    <3>1. Len(snap.orders) > 0
      BY <1>1, <2>2
    <3>2. TotalDemand(snap) \div Len(snap.orders) \in Nat
      BY <1>2, <1>4, <3>1, DivNat
    <3> QED BY <2>2, <3>2
  <2> QED BY <2>1, <2>2
<1>6. CASE n = 0
  BY <1>6 DEF CapacityUtil
<1>7. CASE n # 0
  <2>1. snap.produced * 480 \in Nat
    BY <1>1
  <2>2. (snap.produced * 480) \div n \in Nat
    BY <1>7, <2>1, DivNat
  <2>3. capacity \in Nat /\ capacity > 0
    BY <2>2 DEF Greatest
  <2>4. CapacityUtil(snap, n) = Least(150, (100 * demand) \div capacity)
    BY <1>7 DEF CapacityUtil
  <2> HIDE DEF demand, capacity
  <2>5. 100 * demand \in Nat
    BY <1>5
  <2>6. (100 * demand) \div capacity \in Nat
    BY <2>3, <2>5, DivNat
  <2> QED BY <2>4, <2>6 DEF Least
<1> QED BY <1>6, <1>7

\* IA names a station of the line as the bottleneck, or none.
LEMMA BottleneckType ==
  ASSUME NEW snap \in Line
  PROVE  Bottleneck(snap) \in 0..NumStations
<1> DEFINE low == {s \in DOMAIN snap.stations : snap.stations[s].oee < 100}
           oees == {snap.stations[s].oee : s \in low}
<1>0. DOMAIN snap.stations = 1..NumStations /\ NumStations \in Nat
  BY SensorsOfLine, AgentCycleAssumption
<1>1. \A s \in 1..NumStations : snap.stations[s].oee \in Nat
  BY SensorsOfLine DEF Stations
<1>2. CASE low = {}
  BY <1>2, <1>0 DEF Bottleneck
<1>3. CASE low # {}
  <2>1. low \in SUBSET 1..NumStations
    BY <1>0
  <2>2. oees \in SUBSET Nat /\ oees # {}
    BY <1>1, <1>3, <2>1
  <2> HIDE DEF low
  <2>3. PICK o \in oees : \A p \in oees : o <= p
    <3> HIDE DEF oees
    <3> QED BY <2>2, LeastNat
  <2> DEFINE least == {s \in low : snap.stations[s].oee = o}
  <2>4. least \in SUBSET Nat /\ least # {}
    <3>1. \A s \in low : s \in Nat
      BY <2>1, <1>0
    <3>2. \E s \in low : snap.stations[s].oee = o
      BY <2>3
    <3> QED BY <3>1, <3>2
  <2>5. PICK s \in least : \A t \in least : s <= t
    <3> HIDE DEF least
    <3> QED BY <2>4, LeastNat
  <2>6. ASSUME NEW t \in low
        PROVE  \/ snap.stations[s].oee < snap.stations[t].oee
               \/ snap.stations[s].oee = snap.stations[t].oee /\ s <= t
    <3>1. snap.stations[t].oee \in Nat /\ o \in Nat /\ o <= snap.stations[t].oee
      BY <1>1, <2>1, <2>2, <2>3
    <3>2. snap.stations[s].oee = o
      BY <2>5
    <3>3. CASE snap.stations[t].oee = o
      BY <2>5, <3>2, <3>3
    <3>4. CASE snap.stations[t].oee # o
      BY <3>1, <3>2, <3>4
    <3> QED BY <3>3, <3>4
  <2>7. s \in low
    BY <2>5
  <2>8. Bottleneck(snap) \in low
    <3>1. Bottleneck(snap) = CHOOSE u \in low : \A t \in low :
             \/ snap.stations[u].oee < snap.stations[t].oee
             \/ snap.stations[u].oee = snap.stations[t].oee /\ u <= t
      BY <1>3 DEF Bottleneck, low
    <3> QED BY <2>6, <2>7, <3>1
  <2>9. Bottleneck(snap) \in 1..NumStations
    BY <2>1, <2>8
  <2> QED BY <2>9, <1>0
<1> QED BY <1>2, <1>3

Flow == [bottleneck : 0..NumStations, scrap : 0..100, wip : Nat, throughput : Seq(Nat)]

\* What IA remembers has its type; the scrap rate is a percentage.
LEMMA FlowType ==
  ASSUME NEW snap \in Line, NEW old \in Flow
  PROVE  IaFlow(snap, old) \in Flow
<1> DEFINE total == Greatest(1, snap.produced + snap.scrap)
           A == {w \in DOMAIN snap.wip : snap.wip[w] > WipWarn}
<1>1. snap.produced \in Nat /\ snap.scrap \in Nat /\ snap.wip \in Seq(Nat)
  BY DEF Line, SnapshotsOf
<1>2. ScrapRate(snap) \in 0..100
  <2>1. total \in Nat /\ total > 0 /\ snap.scrap <= total
    BY <1>1 DEF Greatest
  <2>2. ScrapRate(snap) = (100 * snap.scrap) \div total
    BY DEF ScrapRate
  <2> HIDE DEF total
  <2>3. 100 * snap.scrap \in Nat /\ 100 * snap.scrap <= 100 * total
    BY <1>1, <2>1
  <2>4. \A m, d \in Nat : d > 0 /\ m <= 100 * d => m \div d <= 100
    OBVIOUS
  <2>5. (100 * snap.scrap) \div total \in Nat
    BY <2>1, <2>3, DivNat
  <2> QED BY <2>1, <2>2, <2>3, <2>4, <2>5
<1>3. Cardinality(A) \in Nat
  <2>1. DOMAIN snap.wip = 1..Len(snap.wip) /\ Len(snap.wip) \in Nat
    BY <1>1, LenProperties
  <2>2. IsFiniteSet(DOMAIN snap.wip)
    BY <2>1, FS_Interval
  <2>3. A \in SUBSET DOMAIN snap.wip
    OBVIOUS
  <2> HIDE DEF A
  <2> QED BY <2>2, <2>3, PartCount
<1>4. Append(old.throughput, snap.produced) \in Seq(Nat)
  BY <1>1 DEF Flow
<1>5. Bottleneck(snap) \in 0..NumStations
  BY BottleneckType
<1> HIDE DEF A
<1>6. IaFlow(snap, old) = [bottleneck |-> Bottleneck(snap), scrap |-> ScrapRate(snap),
         wip |-> Cardinality(A), throughput |-> Append(old.throughput, snap.produced)]
  BY DEF IaFlow, A
<1> QED BY <1>2, <1>3, <1>4, <1>5, <1>6 DEF Flow

\* What EA and SA remember of a cycle.
LEMMA MaintenanceType ==
  ASSUME NEW snap \in Line
  PROVE  EaMaintenance(snap) \subseteq
           [station : 1..NumStations, action : {"emergency", "tool"}]
<1>1. \A x \in SensorsOf(snap) : x[1] \in 1..NumStations
  <2> TAKE x \in SensorsOf(snap)
  <2>1. PICK s \in DOMAIN snap.stations :
          x \in {<<s, i>> : i \in DOMAIN snap.stations[s].sensors}
    BY DEF SensorsOf
  <2>2. x[1] = s
    BY <2>1
  <2> QED BY <2>1, <2>2, SensorsOfLine
<1>2. DOMAIN snap.stations = 1..NumStations
  BY SensorsOfLine
<1>3. ASSUME NEW m \in EaMaintenance(snap)
      PROVE  m \in [station : 1..NumStations, action : {"emergency", "tool"}]
  <2>1. CASE \E x \in SensorsOf(snap) : m = [station |-> x[1], action |-> "emergency"]
    BY <2>1, <1>1
  <2>2. CASE \E s \in DOMAIN snap.stations : m = [station |-> s, action |-> "tool"]
    BY <2>2, <1>2
  <2> QED BY <2>1, <2>2, <1>3 DEF EaMaintenance
<1> QED BY <1>3

LEMMA ReordersType ==
  ASSUME NEW snap \in Line
  PROVE  SaReorders(snap) \in Seq({"urgent", "regular"})
<1>1. DOMAIN snap.materials = 1..Len(snap.materials) /\ Len(snap.materials) \in Nat
  BY LenProperties DEF Line, SnapshotsOf
<1>2. IsFiniteSet(DOMAIN snap.materials)
  BY <1>1, FS_Interval
<1>3. /\ Shortages(snap) \in SUBSET DOMAIN snap.materials
      /\ ReorderNeeded(snap) \in SUBSET DOMAIN snap.materials
  BY DEF Shortages, ReorderNeeded
<1>4. Cardinality(Shortages(snap)) \in Nat /\ Cardinality(ReorderNeeded(snap)) \in Nat
  BY <1>2, <1>3, PartCount
<1>5. /\ Times(Cardinality(Shortages(snap)), "urgent") \in Seq({"urgent", "regular"})
      /\ Times(Cardinality(ReorderNeeded(snap)), "regular") \in Seq({"urgent", "regular"})
  BY <1>4, TimesType
<1> QED BY <1>5, ConcatType DEF SaReorders

\* The estimate EA bids from is the least one of a station.
Worst(f) == CHOOSE r \in Range(f) : \A q \in Range(f) : r <= q

LEMMA WorstIs ==
  ASSUME NEW f \in [1..NumStations -> Nat]
  PROVE  /\ \E s \in 1..NumStations : Worst(f) = f[s]
         /\ \A s \in 1..NumStations : Worst(f) <= f[s]
         /\ Worst(f) \in Nat
<1>1. Range(f) \in SUBSET Nat /\ \A s \in 1..NumStations : f[s] \in Range(f)
  BY DEF Range
<1>2. 1 \in 1..NumStations
  BY AgentCycleAssumption
<1>3. Range(f) # {}
  BY <1>1, <1>2
<1>4. \E r \in Range(f) : \A q \in Range(f) : r <= q
  BY <1>1, <1>3, LeastNat
<1>5. Worst(f) \in Range(f) /\ \A q \in Range(f) : Worst(f) <= q
  BY <1>4 DEF Worst
<1>6. \A r \in Range(f) : \E s \in 1..NumStations : r = f[s]
  BY DEF Range
<1> QED BY <1>1, <1>5, <1>6

\* Every bid has its type, from whatever the agent remembers.
LEMMA EaBidType ==
  ASSUME NEW f \in [1..NumStations -> Nat]
  PROVE  EaBid(f) \in Bid
<1> DEFINE w == Worst(f)
           q == Least(w, 1200) \div 12
<1>1. w \in Nat
  BY WorstIs
<1>2. EaBid(f) = [speed |-> IF w < RulCnp THEN 80 ELSE 100, mode |-> "standard",
         cost |-> Greatest(0, 100 - q),
         viol |-> IF w < RulLow THEN 100 ELSE IF w < RulCnp THEN 50 ELSE 0]
  BY DEF EaBid, Worst
<1> HIDE DEF w
<1>3. q \in Nat
  <2>1. Least(w, 1200) \in Nat
    BY <1>1 DEF Least
  <2> QED BY <2>1, DivNat
<1> HIDE DEF q
<1>4. Greatest(0, 100 - q) \in 0..100
  BY <1>3 DEF Greatest
<1> QED BY <1>2, <1>4 DEF Bid, InspectionMode

LEMMA QaBidIs ==
  QaBid(200) = [speed |-> 90, mode |-> "tightened", cost |-> 0, viol |-> 0]
  BY DEF QaBid, CpkWarning, CpkGood

LEMMA SaBidType ==
  ASSUME NEW log \in Seq({"urgent", "regular"})
  PROVE  SaBid(log) \in Bid
<1>1. ASSUME NEW n \in Nat
      PROVE  Last(log, n) \in Seq({"urgent", "regular"})
  <2>1. Len(log) \in Nat
    OBVIOUS
  <2>2. Greatest(1, Len(log) - n + 1) \in Int /\ Greatest(1, Len(log) - n + 1) >= 1
    BY <2>1 DEF Greatest
  <2> DEFINE k == Greatest(1, Len(log) - n + 1)
  <2> HIDE DEF k
  <2>3. \A i \in k .. Len(log) : log[i] \in {"urgent", "regular"}
    BY <2>2 DEF k
  <2>4. SubSeq(log, k, Len(log)) \in Seq({"urgent", "regular"})
    BY <2>1, <2>2, <2>3, SubSeqProperties DEF k
  <2> QED BY <2>4 DEF Last, k
<1> DEFINE t == Last(log, 5)
           critical == CountOf(t, "urgent")
           len == Len(Last(log, 10))
<1>2. len \in Nat
  BY <1>1
<1>3. critical \in Nat
  <2>1. DOMAIN t = 1..Len(t) /\ Len(t) \in Nat
    BY <1>1, LenProperties
  <2> HIDE DEF t
  <2>2. IsFiniteSet(DOMAIN t)
    BY <2>1, FS_Interval
  <2>3. {i \in DOMAIN t : t[i] = "urgent"} \in SUBSET DOMAIN t
    OBVIOUS
  <2> QED BY <2>2, <2>3, PartCount DEF CountOf
<1>4. SaBid(log) = [speed |-> 100, mode |-> "standard",
         cost |-> Least(100, 20 * critical + 5 * len),
         viol |-> IF critical > 0 THEN 100 ELSE IF log # <<>> THEN 40 ELSE 0]
  BY DEF SaBid
<1> HIDE DEF critical, len
<1>5. Least(100, 20 * critical + 5 * len) \in 0..100
  BY <1>2, <1>3 DEF Least
<1> QED BY <1>4, <1>5 DEF Bid, InspectionMode

LEMMA DaBidType ==
  ASSUME NEW u \in 0..150
  PROVE  DaBid(u) \in Bid
<1>1. (IF u > 100 THEN Least(100, u - 100) ELSE 0) \in 0..100
  BY DEF Least
<1> QED BY <1>1 DEF DaBid, Bid, InspectionMode

LEMMA IaBidType ==
  ASSUME NEW f \in Flow
  PROVE  IaBid(f) \in Bid
<1> DEFINE th == f.throughput
           up == Len(th) > 2 /\ th[Len(th)] > th[Len(th) - 1]
           x == 8 * f.scrap + (IF up THEN 12 ELSE 0)
           y == 35 * f.wip + (IF f.bottleneck # 0 THEN 45 ELSE 0)
<1>0. f.scrap \in 0..100 /\ f.wip \in Nat
  BY DEF Flow
<1>1. f.scrap \in Nat /\ f.wip \in Nat
  BY <1>0
<1>2. x \in Nat /\ y \in Nat
  <2> HIDE DEF up
  <2> QED BY <1>1
<1>3. IaBid(f) = [speed |-> 100, mode |-> "standard",
                  cost |-> Least(100, x), viol |-> Least(100, y)]
  BY DEF IaBid
<1> HIDE DEF x, y
<1>4. Least(100, x) \in 0..100 /\ Least(100, y) \in 0..100
  BY <1>2 DEF Least
<1> QED BY <1>3, <1>4 DEF Bid, InspectionMode

-----------------------------------------------------------------------------
(* The inductive invariant of the threads.                                  *)

\* A thread inside its cycle works with a snapshot.
HeldInv ==
  \A a \in Threads : pc[a] \in {"sense", "decide", "act"} => held[a].index # 0

\* Only PA collects bids, and PA's act() does nothing.
PhaseInv == (\A a \in Agents : pc[a] # "collect") /\ pc["PA"] # "act"

\* PA has alerts in hand only between its sense() and its reason().
PendingInv == pc["PA"] # "decide" => pending = NoAlerts

\* QA never computes a Cpk.
CpkInv == cpk = 200

ThreadsInv ==
  /\ ThreadsConsistent
  /\ HeldInv /\ PhaseInv /\ PendingInv /\ CpkInv

\* PA is none of the domain agents.
LEMMA PaIsApart ==
  /\ "PA" \notin Agents /\ "PA" \in Threads /\ Agents \subseteq Threads
  /\ \A a \in Threads : a \in Agents <=> a # "PA"
  /\ \A a \in Faulty : a \in Threads
  BY AgentCycleAssumption DEF Threads

\* The snapshot a thread works with is one of the line's.
LEMMA SnapType ==
  ASSUME TypeOK, HeldInv, NEW a \in Threads, pc[a] \in {"sense", "decide", "act"}
  PROVE  /\ held[a].index \in DOMAIN Snapshots
         /\ Snap(a) \in Line /\ CpkStatus(Snap(a)) = {}
         /\ held[a].cycle \in Nat
<1>1. Snapshots \in Seq(Line)
  BY AgentCycleAssumption DEF Line
<1>2. Len(Snapshots) \in Nat /\ DOMAIN Snapshots = 1..Len(Snapshots)
  BY <1>1, LenProperties
<1>3. held[a].index \in 0..Len(Snapshots) /\ held[a].index # 0 /\ held[a].cycle \in Nat
  BY DEF TypeOK, HeldInv
<1>4. held[a].index \in DOMAIN Snapshots
  BY <1>2, <1>3
<1> QED BY <1>1, <1>3, <1>4, AgentCycleAssumption DEF Snap

LEMMA ThreadsInit == Init => ThreadsInv
<1> SUFFICES ASSUME Init PROVE ThreadsInv
  OBVIOUS
<1>1. Len(Snapshots) \in Nat
  BY AgentCycleAssumption
<1>2. NumStations \in Nat /\ 1 \in 1..NumStations /\ 0 \in 0..NumStations
  BY AgentCycleAssumption
<1>3. LogMax \in Nat /\ 0 \in 0..LogMax /\ QueueSize \in Nat /\ 0 \in 0..QueueSize
  BY AgentCycleAssumption
<1>4. NoAlerts \in [Severity -> Nat] /\ Count(NoAlerts) = 0
  BY DEF NoAlerts, Severity, Count
<1>5. \A S : <<>> \in Seq(S)
  OBVIOUS
<1>6. held \in [Threads -> [index : 0..Len(Snapshots), cycle : Nat]]
  BY <1>1 DEF Init, NoSnap
<1>7. flow \in [bottleneck : 0..NumStations, scrap : 0..100, wip : Nat,
               throughput : Seq(Nat)]
  BY <1>2, <1>5 DEF Init
<1>8. TypeOK
  BY <1>1, <1>2, <1>3, <1>4, <1>5, <1>6, <1>7 DEF Init, TypeOK, NoRul, InspectionMode
<1>9. AlertsAccountedFor /\ IdleWhenAsleep
  BY <1>4 DEF Init, AlertsAccountedFor, IdleWhenAsleep
<1>10. HeldInv /\ PhaseInv /\ PendingInv /\ CpkInv
  BY PaIsApart DEF Init, HeldInv, PhaseInv, PendingInv, CpkInv
<1> QED BY <1>8, <1>9, <1>10 DEF ThreadsInv, ThreadsConsistent

\* The router's log stays within its limit.
LEMMA RecordType ==
  ASSUME NEW n \in 0..LogMax
  PROVE  Record(n) \in 0..LogMax
  BY AgentCycleAssumption DEF Record

\* Every bid PA may collect has its type.
LEMMA BidType ==
  ASSUME TypeOK, CpkInv, NEW a \in Agents
  PROVE  BidOf(a) \in Bid
<1>1. /\ rul \in [1..NumStations -> Nat] /\ reorder_log \in Seq({"urgent", "regular"})
      /\ util \in 0..150 /\ flow \in Flow /\ cpk = 200
  BY DEF TypeOK, Flow, CpkInv
<1>2. EaBid(rul) \in Bid
  BY <1>1, EaBidType
<1>3. QaBid(cpk) \in Bid
  BY <1>1, QaBidIs DEF Bid, InspectionMode
<1>4. SaBid(reorder_log) \in Bid
  BY <1>1, SaBidType
<1>5. DaBid(util) \in Bid
  BY <1>1, DaBidType
<1>6. IaBid(flow) \in Bid
  BY <1>1, IaBidType
<1>7. a \in {"EA", "QA", "SA", "DA", "IA"}
  BY AgentCycleAssumption
<1> QED BY <1>2, <1>3, <1>4, <1>5, <1>6, <1>7 DEF BidOf

\* What reason() sends are alerts, whichever agent reasons.
LEMMA AlertsOfType ==
  ASSUME NEW a \in Agents, NEW snap \in Line, util \in 0..150
  PROVE  AlertsOf(a, snap) \in Seq(Severity)
<1>1. util \in Int
  OBVIOUS
<1>2. /\ EaAlerts(snap) \in Seq(Severity) /\ QaAlerts(snap) \in Seq(Severity)
      /\ SaAlerts(snap) \in Seq(Severity) /\ DaAlerts(snap, util) \in Seq(Severity)
      /\ IaAlerts(snap) \in Seq(Severity)
  BY <1>1, AlertsType
<1>3. a \in {"EA", "QA", "SA", "DA", "IA"}
  BY AgentCycleAssumption
<1> QED BY <1>2, <1>3 DEF AlertsOf

\* Every step has one of these forms.
LEMMA StepKinds ==
  ASSUME [Next]_vars
  PROVE  \/ \E i \in DOMAIN Snapshots : EnvTick(i)
         \/ \E a \in Threads : Wake(a)
         \/ "EA" \in Agents /\ EaSense
         \/ \E a \in Agents : Sense(a) \/ Decide(a) \/ SendAlert(a) \/ EndCycle(a)
         \/ PaSense \/ PaDecide \/ Collect \/ Execute
         \/ \E a \in Threads : Fault(a)
         \/ UNCHANGED vars
<1>1. CASE Next
  BY <1>1, PaIsApart DEF Next, AgentStep, PaStep
<1>2. CASE UNCHANGED vars
  BY <1>2
<1> QED BY <1>1, <1>2

\* What publish() of an alert keeps.
LEMMA PublishType ==
  ASSUME NEW x \in Severity, Publish(x), QueueSize \in Nat,
         inbox \in [Severity -> Nat], unread \in Nat, undelivered \in Nat,
         queued \in 0..QueueSize
  PROVE  /\ inbox' \in [Severity -> Nat] /\ unread' \in Nat
         /\ queued' \in 0..QueueSize /\ undelivered' \in Nat
<1>1. \/ queued < QueueSize /\ queued' = queued + 1 /\ undelivered' = undelivered
      \/ queued' = queued /\ undelivered' = undelivered + 1
  BY DEF Publish
<1>2. inbox' = inbox \/ inbox' = [inbox EXCEPT ![x] = @ + 1]
  BY DEF Publish
<1>3. unread' = unread + 1
  BY DEF Publish
<1> QED BY <1>1, <1>2, <1>3

\* Every mode a round may set is one an agent bid.
LEMMA QaModesAre ==
  ASSUME NEW m \in QaModes, bids \in Seq(Bid \cup {NoBid})
  PROVE  \E i \in DOMAIN bids :
           /\ Responders[i] = "QA" /\ bids[i] # NoBid /\ m = bids[i].mode
           /\ bids[i] \in Bid
<1>1. PICK i \in {j \in DOMAIN bids : Responders[j] = "QA" /\ bids[j] # NoBid} :
        m = bids[i].mode
  BY DEF QaModes
<1>2. i \in DOMAIN bids /\ bids[i] \in Bid \cup {NoBid}
  BY <1>1
<1> QED BY <1>1, <1>2

\* Every step keeps the types.
LEMMA TypeStep == ThreadsInv /\ [Next]_vars => TypeOK'
<1> SUFFICES ASSUME ThreadsInv, [Next]_vars PROVE TypeOK'
  OBVIOUS
<1> USE DEF envVars, threadVars, memVars, mailVars, paVars
<1>a. /\ TypeOK /\ AlertsAccountedFor /\ HeldInv /\ PhaseInv /\ PendingInv /\ CpkInv
  BY DEF ThreadsInv, ThreadsConsistent
<1>b. /\ "PA" \notin Agents /\ "PA" \in Threads /\ Agents \subseteq Threads
  BY PaIsApart
<1>c. \A a \in Threads : pc[a] \in {"sense", "decide", "act"} =>
        /\ held[a].index \in DOMAIN Snapshots /\ Snap(a) \in Line
        /\ CpkStatus(Snap(a)) = {} /\ held[a].cycle \in Nat
  BY <1>a, SnapType
<1>d. Len(Snapshots) \in Nat /\ DOMAIN Snapshots = 1..Len(Snapshots)
  BY AgentCycleAssumption
<1>e. NoAlerts \in [Severity -> Nat]
  BY DEF NoAlerts
<1>f. NoSnap \in [index : 0..Len(Snapshots), cycle : Nat]
  BY <1>d DEF NoSnap
<1>g. \A S : <<>> \in Seq(S)
  OBVIOUS
<1>1. ASSUME NEW i \in DOMAIN Snapshots, EnvTick(i) PROVE TypeOK'
  <2>1. cycle' \in Nat /\ cached' \in 0..Len(Snapshots)
    BY <1>1, <1>a, <1>d DEF EnvTick, TypeOK
  <2> QED BY <1>1, <1>a, <2>1 DEF EnvTick, TypeOK
<1>2. ASSUME NEW a \in Threads, Wake(a) PROVE TypeOK'
  <2>1. held' \in [Threads -> [index : 0..Len(Snapshots), cycle : Nat]]
    BY <1>2, <1>a DEF Wake, TypeOK
  <2>2. pc' \in [Threads -> {"sleep", "sense", "decide", "act", "collect"}]
    BY <1>2, <1>a DEF Wake, TypeOK
  <2> QED BY <1>2, <1>a, <2>1, <2>2 DEF Wake, TypeOK
<1>3. ASSUME "EA" \in Agents, EaSense PROVE TypeOK'
  <2>1. Snap("EA") \in Line /\ station \in 1..NumStations
    BY <1>3, <1>a, <1>b, <1>c DEF EaSense, TypeOK
  <2>2. Snap("EA").stations[station] \in Stations
    BY <2>1, SensorsOfLine
  <2>3. RulOf(Snap("EA").stations[station]) \in Nat
    BY <2>2, RulType
  <2>4. rul' \in [1..NumStations -> Nat]
    BY <1>3, <1>a, <2>3 DEF EaSense, TypeOK
  <2>5. station' \in 1..NumStations
    BY <1>3, <2>1, AgentCycleAssumption DEF EaSense
  <2>6. pc' \in [Threads -> {"sleep", "sense", "decide", "act", "collect"}]
    <3>1. pc' = pc \/ pc' = [pc EXCEPT !["EA"] = "decide"]
      BY <1>3 DEF EaSense
    <3> QED BY <3>1, <1>a DEF TypeOK
  <2>7. state' \in [Threads -> {"IDLE", "SENSING", "REASONING", "ACTING"}]
    BY <1>3, <1>a DEF EaSense, TypeOK
  <2> QED BY <1>3, <1>a, <2>4, <2>5, <2>6, <2>7 DEF EaSense, TypeOK
<1>4. ASSUME NEW a \in Agents, Sense(a) PROVE TypeOK'
  <2>1. Snap(a) \in Line /\ CpkStatus(Snap(a)) = {} /\ held[a].cycle \in Nat
    BY <1>4, <1>b, <1>c DEF Sense
  <2>2. cpk' \in Nat
    <3>1. WorstCpk(Snap(a)) = 200
      BY <2>1, CpkDefault
    <3> QED BY <1>4, <1>a, <3>1 DEF Sense, TypeOK
  <2>3. util' \in 0..150
    <3>1. CapacityUtil(Snap(a), held[a].cycle) \in 0..150
      BY <2>1, UtilType
    <3> QED BY <1>4, <1>a, <3>1 DEF Sense, TypeOK
  <2>4. flow' \in Flow
    <3>1. flow \in Flow
      BY <1>a DEF TypeOK, Flow
    <3>2. IaFlow(Snap(a), flow) \in Flow
      BY <2>1, <3>1, FlowType
    <3> QED BY <1>4, <3>1, <3>2 DEF Sense
  <2>5. pc' \in [Threads -> {"sleep", "sense", "decide", "act", "collect"}]
    BY <1>4, <1>a DEF Sense, TypeOK
  <2>6. state' \in [Threads -> {"IDLE", "SENSING", "REASONING", "ACTING"}]
    BY <1>4, <1>a DEF Sense, TypeOK
  <2> QED BY <1>4, <1>a, <2>2, <2>3, <2>4, <2>5, <2>6 DEF Sense, TypeOK, Flow
<1>5. CASE PaSense
  <2>1. pc' \in [Threads -> {"sleep", "sense", "decide", "act", "collect"}]
    BY <1>5, <1>a DEF PaSense, TypeOK
  <2>2. state' \in [Threads -> {"IDLE", "SENSING", "REASONING", "ACTING"}]
    BY <1>5, <1>a DEF PaSense, TypeOK
  <2> QED BY <1>5, <1>a, <1>e, <2>1, <2>2 DEF PaSense, TypeOK
<1>6. ASSUME NEW a \in Agents, Decide(a) PROVE TypeOK'
  <2>1. Snap(a) \in Line
    BY <1>6, <1>b, <1>c DEF Decide
  <2>2. todo' \in [Agents -> Seq(Severity)]
    <3>1. AlertsOf(a, Snap(a)) \in Seq(Severity)
      BY <1>a, <2>1, AlertsOfType DEF TypeOK
    <3> QED BY <1>6, <1>a, <3>1 DEF Decide, TypeOK
  <2>3. mode' \in InspectionMode
    BY <1>6, <1>a DEF Decide, TypeOK, QaMode, InspectionMode
  <2>4. logged' \in 0..LogMax
    BY <1>6, <1>a, RecordType DEF Decide, Route, TypeOK
  <2>5. pc' \in [Threads -> {"sleep", "sense", "decide", "act", "collect"}]
    BY <1>6, <1>a DEF Decide, TypeOK
  <2>6. state' \in [Threads -> {"IDLE", "SENSING", "REASONING", "ACTING"}]
    BY <1>6, <1>a DEF Decide, TypeOK
  <2> QED BY <1>6, <1>a, <2>2, <2>3, <2>4, <2>5, <2>6 DEF Decide, TypeOK
<1>7. CASE PaDecide
  <2>1. held["PA"].cycle \in Nat
    BY <1>7, <1>b, <1>c DEF PaDecide
  <2>2. unread' \in Nat
    <3>1. Count(inbox) \in Nat /\ Count(pending) \in Nat
      <4>1. inbox \in [Severity -> Nat] /\ pending \in [Severity -> Nat]
        BY <1>a DEF TypeOK
      <4> QED BY <4>1 DEF Count, Severity
    <3>2. /\ Count(inbox) + Count(pending) + undelivered <= unread
          /\ unread \in Nat /\ undelivered \in Nat
      BY <1>a DEF AlertsAccountedFor, TypeOK
    <3>3. unread' = unread - Count(pending)
      BY <1>7 DEF PaDecide
    <3> QED BY <3>1, <3>2, <3>3
  <2>3. last_cnp_cycle' \in Nat
    BY <1>7, <1>a, <2>1 DEF PaDecide, TypeOK
  <2>4. logged' \in 0..LogMax
    BY <1>7, <1>a, RecordType DEF PaDecide, Route, TypeOK
  <2>5. pc' \in [Threads -> {"sleep", "sense", "decide", "act", "collect"}]
    <3>1. \/ pc' = [pc EXCEPT !["PA"] = "collect"]
          \/ pc' = [pc EXCEPT !["PA"] = "sleep"]
      BY <1>7 DEF PaDecide
    <3> QED BY <3>1, <1>a DEF TypeOK
  <2>6. state' \in [Threads -> {"IDLE", "SENSING", "REASONING", "ACTING"}]
    BY <1>7, <1>a DEF PaDecide, TypeOK
  <2>7. /\ held' \in [Threads -> [index : 0..Len(Snapshots), cycle : Nat]]
        /\ fallen' \in [Threads -> BOOLEAN]
    BY <1>7, <1>a, <1>f DEF PaDecide, Sleeps, TypeOK
  <2>8. pending' \in [Severity -> Nat]
    BY <1>7, <1>e DEF PaDecide
  <2> QED
    BY <1>7, <1>a, <2>2, <2>3, <2>4, <2>5, <2>6, <2>7, <2>8 DEF PaDecide, TypeOK
<1>8. ASSUME NEW a \in Agents, SendAlert(a) PROVE TypeOK'
  <2>1. todo[a] \in Seq(Severity) /\ todo[a] # <<>>
    BY <1>8, <1>a DEF SendAlert, TypeOK
  <2>2. Head(todo[a]) \in Severity /\ Tail(todo[a]) \in Seq(Severity)
    BY <2>1, HeadTailProperties
  <2>3. /\ inbox' \in [Severity -> Nat] /\ unread' \in Nat
        /\ queued' \in 0..QueueSize /\ undelivered' \in Nat
    <3>1. Publish(Head(todo[a]))
      BY <1>8 DEF SendAlert
    <3>2. /\ inbox \in [Severity -> Nat] /\ unread \in Nat /\ undelivered \in Nat
          /\ queued \in 0..QueueSize /\ QueueSize \in Nat
      BY <1>a, AgentCycleAssumption DEF TypeOK
    <3> QED BY <2>2, <3>1, <3>2, PublishType
  <2>4. todo' \in [Agents -> Seq(Severity)]
    BY <1>8, <1>a, <2>2 DEF SendAlert, TypeOK
  <2>5. state' \in [Threads -> {"IDLE", "SENSING", "REASONING", "ACTING"}]
    BY <1>8, <1>a DEF SendAlert, TypeOK
  <2> QED BY <1>8, <1>a, <2>3, <2>4, <2>5 DEF SendAlert, TypeOK
<1>9. ASSUME NEW a \in Agents, EndCycle(a) PROVE TypeOK'
  <2>1. Snap(a) \in Line
    BY <1>9, <1>b, <1>c DEF EndCycle
  <2>2. queue' \subseteq [station : 1..NumStations, action : {"emergency", "tool"}]
    <3>1. EaMaintenance(Snap(a)) \subseteq
            [station : 1..NumStations, action : {"emergency", "tool"}]
      BY <2>1, MaintenanceType
    <3> QED BY <1>9, <1>a, <3>1 DEF EndCycle, EaAct, TypeOK
  <2>3. reorder_log' \in Seq({"urgent", "regular"})
    <3>1. SaReorders(Snap(a)) \in Seq({"urgent", "regular"})
      BY <2>1, ReordersType
    <3>2. reorder_log \in Seq({"urgent", "regular"})
      BY <1>a DEF TypeOK
    <3>3. reorder_log \o SaReorders(Snap(a)) \in Seq({"urgent", "regular"})
      BY <3>1, <3>2, ConcatType
    <3> QED BY <1>9, <3>2, <3>3 DEF EndCycle, SaAct
  <2>4. pc' \in [Threads -> {"sleep", "sense", "decide", "act", "collect"}]
    BY <1>9, <1>a DEF EndCycle, TypeOK
  <2>5. state' \in [Threads -> {"IDLE", "SENSING", "REASONING", "ACTING"}]
    BY <1>9, <1>a DEF EndCycle, TypeOK
  <2>6. /\ held' \in [Threads -> [index : 0..Len(Snapshots), cycle : Nat]]
        /\ fallen' \in [Threads -> BOOLEAN]
    BY <1>9, <1>a, <1>f DEF EndCycle, Sleeps, TypeOK
  <2> QED BY <1>9, <1>a, <2>2, <2>3, <2>4, <2>5, <2>6 DEF EndCycle, TypeOK
<1>10. ASSUME NEW a \in Threads, Fault(a) PROVE TypeOK'
  <2>1. pc' \in [Threads -> {"sleep", "sense", "decide", "act", "collect"}]
    BY <1>10, <1>a DEF Fault, TypeOK
  <2>2. /\ held' \in [Threads -> [index : 0..Len(Snapshots), cycle : Nat]]
        /\ fallen' \in [Threads -> BOOLEAN]
    <3>1. \/ held' = held /\ fallen' = [fallen EXCEPT ![a] = TRUE]
          \/ /\ held' = [held EXCEPT ![a] = NoSnap]
             /\ fallen' = [fallen EXCEPT ![a] = FALSE]
      BY <1>10 DEF Fault, Sleeps
    <3>2. /\ held \in [Threads -> [index : 0..Len(Snapshots), cycle : Nat]]
          /\ fallen \in [Threads -> BOOLEAN]
      BY <1>a DEF TypeOK
    <3> QED BY <3>1, <3>2, <1>f
  <2>3. todo' \in [Agents -> Seq(Severity)]
    BY <1>10, <1>a, <1>g DEF Fault, TypeOK
  <2>4. pending' \in [Severity -> Nat]
    BY <1>10, <1>a, <1>e DEF Fault, TypeOK
  <2>5. station' \in 1..NumStations /\ faults' \in Nat
    BY <1>10, <1>a, AgentCycleAssumption DEF Fault, TypeOK
  <2> QED BY <1>10, <1>a, <2>1, <2>2, <2>3, <2>4, <2>5 DEF Fault, TypeOK
<1>11. CASE Collect
  <2>1. bids \in Seq(Bid \cup {NoBid}) /\ Len(bids) + 1 \in DOMAIN Responders
    <3>1. Responders \in Seq(Agents)
      BY AgentCycleAssumption
    <3>2. bids \in Seq(Bid \cup {NoBid}) /\ Len(bids) < Len(Responders)
      BY <1>11, <1>a DEF Collect, TypeOK
    <3> QED BY <3>1, <3>2
  <2>2. Responders[Len(bids) + 1] \in Agents
    BY <2>1, AgentCycleAssumption
  <2>3. BidOf(Responders[Len(bids) + 1]) \in Bid
    BY <1>a, <2>2, BidType
  <2>4. bids' \in Seq(Bid \cup {NoBid})
    <3>1. \/ bids' = Append(bids, BidOf(Responders[Len(bids) + 1]))
          \/ bids' = Append(bids, NoBid)
      BY <1>11 DEF Collect
    <3> HIDE DEF NoBid
    <3> QED BY <2>1, <2>3, <3>1
  <2> QED BY <1>11, <1>a, <2>4 DEF Collect, TypeOK
<1>12. CASE Execute
  <2>1. mode' \in InspectionMode
    <3>1. mode' = mode \/ mode' \in QaModes
      BY <1>12 DEF Execute
    <3>2. bids \in Seq(Bid \cup {NoBid}) /\ mode \in InspectionMode
      BY <1>a DEF TypeOK
    <3>3. ASSUME mode' \in QaModes PROVE mode' \in InspectionMode
      <4>1. PICK i \in DOMAIN bids : mode' = bids[i].mode /\ bids[i] \in Bid
        BY <3>2, <3>3, QaModesAre
      <4> QED BY <4>1 DEF Bid
    <3> QED BY <3>1, <3>2, <3>3
  <2>2. bids' \in Seq(Bid \cup {NoBid})
    BY <1>12 DEF Execute
  <2>3. pc' \in [Threads -> {"sleep", "sense", "decide", "act", "collect"}]
    BY <1>12, <1>a DEF Execute, TypeOK
  <2> QED BY <1>12, <1>a, <2>1, <2>2, <2>3 DEF Execute, TypeOK
<1>13. CASE UNCHANGED vars
  BY <1>13, <1>a DEF vars, TypeOK
<1> QED
  BY <1>1, <1>2, <1>3, <1>4, <1>5, <1>6, <1>7, <1>8, <1>9, <1>10, <1>11, <1>12,
     <1>13, StepKinds

LEMMA CountType ==
  ASSUME NEW f \in [Severity -> Nat]
  PROVE  Count(f) \in Nat
  BY DEF Count, Severity

LEMMA CountNone == Count(NoAlerts) = 0
  BY DEF Count, NoAlerts, Severity

LEMMA CountOneMore ==
  ASSUME NEW f \in [Severity -> Nat], NEW x \in Severity
  PROVE  Count([f EXCEPT ![x] = @ + 1]) = Count(f) + 1
<1>1. f["CRITICAL"] \in Nat /\ f["HIGH"] \in Nat /\ f["MEDIUM"] \in Nat
  BY DEF Severity
<1>2. CASE x = "CRITICAL"
  BY <1>1, <1>2 DEF Count, Severity
<1>3. CASE x = "HIGH"
  BY <1>1, <1>3 DEF Count, Severity
<1>4. CASE x = "MEDIUM"
  BY <1>1, <1>4 DEF Count, Severity
<1> QED BY <1>2, <1>3, <1>4 DEF Severity

\* No step loses an alert on its way to PA, or counts one twice, except for an
\* exception in PA's cycle and for publish() into a full Queue.
LEMMA AlertsStep == ThreadsInv /\ [Next]_vars => AlertsAccountedFor' /\ PendingInv'
<1> SUFFICES ASSUME ThreadsInv, [Next]_vars PROVE AlertsAccountedFor' /\ PendingInv'
  OBVIOUS
<1> USE DEF envVars, threadVars, memVars, mailVars, paVars
<1>a. /\ inbox \in [Severity -> Nat] /\ pending \in [Severity -> Nat]
      /\ unread \in Nat /\ undelivered \in Nat /\ queued \in 0..QueueSize
      /\ QueueSize \in Nat /\ faults \in Nat /\ todo \in [Agents -> Seq(Severity)]
      /\ pc \in [Threads -> {"sleep", "sense", "decide", "act", "collect"}]
  BY AgentCycleAssumption DEF ThreadsInv, ThreadsConsistent, TypeOK
<1>b. AlertsAccountedFor /\ PendingInv
  BY DEF ThreadsInv, ThreadsConsistent
<1>c. "PA" \notin Agents /\ "PA" \in Threads /\ Agents \subseteq Threads
  BY PaIsApart
<1>d. Count(inbox) \in Nat /\ Count(pending) \in Nat /\ Count(NoAlerts) = 0
  BY <1>a, CountType, CountNone
<1>e. /\ Count(inbox) + Count(pending) + undelivered <= unread
      /\ faults = 0 => Count(inbox) + Count(pending) + undelivered = unread
      /\ undelivered > 0 => queued = QueueSize
      /\ Count(inbox) + Count(pending) <= queued
  BY <1>b DEF AlertsAccountedFor
<1>1. CASE UNCHANGED <<mailVars, pending, faults>>
           /\ (pc'["PA"] # "decide" => pc["PA"] # "decide")
  <2>1. PendingInv'
    BY <1>1, <1>b DEF PendingInv
  <2>2. AlertsAccountedFor'
    BY <1>1, <1>e DEF AlertsAccountedFor
  <2> QED BY <2>1, <2>2
<1>2. ASSUME NEW a \in Agents, SendAlert(a) PROVE AlertsAccountedFor' /\ PendingInv'
  <2> DEFINE x == Head(todo[a])
  <2>1. todo[a] \in Seq(Severity) /\ todo[a] # <<>>
    BY <1>2, <1>a DEF SendAlert
  <2>2. x \in Severity
    BY <2>1, HeadTailProperties
  <2>3. Publish(x) /\ UNCHANGED <<pc, pending, faults>>
    BY <1>2 DEF SendAlert
  <2> HIDE DEF x
  <2>4. CASE queued < QueueSize
    <3>1. /\ inbox' = [inbox EXCEPT ![x] = @ + 1] /\ unread' = unread + 1
          /\ queued' = queued + 1 /\ undelivered' = undelivered
      BY <1>a, <2>3, <2>4 DEF Publish
    <3>2. Count(inbox') = Count(inbox) + 1
      BY <1>a, <2>2, <3>1, CountOneMore
    <3>3. undelivered = 0 /\ pending' = pending /\ faults' = faults
      BY <1>a, <1>e, <2>3, <2>4
    <3>4. Count(pending') = Count(pending)
      BY <3>3
    <3>5. /\ Count(inbox) + 1 + Count(pending) + 0 <= unread + 1
          /\ faults = 0 => Count(inbox) + 1 + Count(pending) + 0 = unread + 1
          /\ Count(inbox) + 1 + Count(pending) <= queued + 1
          /\ ~(0 > 0)
      BY <1>a, <1>d, <1>e, <3>3
    <3>6. AlertsAccountedFor'
      BY <3>1, <3>2, <3>3, <3>4, <3>5 DEF AlertsAccountedFor
    <3> QED BY <1>b, <2>3, <3>6 DEF PendingInv
  <2>5. CASE ~(queued < QueueSize)
    <3>1. /\ inbox' = inbox /\ unread' = unread + 1
          /\ queued' = queued /\ undelivered' = undelivered + 1
      BY <2>3, <2>5 DEF Publish
    <3>2. queued = QueueSize /\ pending' = pending /\ faults' = faults
      BY <1>a, <2>3, <2>5
    <3>3. Count(pending') = Count(pending) /\ Count(inbox') = Count(inbox)
      BY <3>1, <3>2
    <3> DEFINE known == Count(inbox) + Count(pending)
    <3>4. /\ known + (undelivered + 1) <= unread + 1
          /\ faults = 0 => known + (undelivered + 1) = unread + 1
          /\ known <= queued
      <4>1. /\ known \in Nat /\ undelivered \in Nat /\ unread \in Nat
            /\ known + undelivered <= unread /\ known <= queued
            /\ faults = 0 => known + undelivered = unread
        BY <1>a, <1>d, <1>e
      <4> HIDE DEF known
      <4>2. known + (undelivered + 1) = (known + undelivered) + 1
        BY <4>1
      <4> QED BY <4>1, <4>2
    <3>5. AlertsAccountedFor'
      BY <3>1, <3>2, <3>3, <3>4 DEF AlertsAccountedFor
    <3> QED BY <1>b, <2>3, <3>5 DEF PendingInv
  <2> QED BY <2>4, <2>5
<1>3. CASE PaSense
  <2>1. /\ pending' = inbox /\ inbox' = NoAlerts
        /\ UNCHANGED <<queued, unread, undelivered, faults>>
        /\ pc["PA"] = "sense" /\ pc'["PA"] = "decide"
    BY <1>3, <1>a, <1>c DEF PaSense
  <2>2. pending = NoAlerts
    BY <1>b, <2>1 DEF PendingInv
  <2>3. AlertsAccountedFor'
    BY <1>a, <1>d, <1>e, <2>1, <2>2 DEF AlertsAccountedFor
  <2> QED BY <2>1, <2>3 DEF PendingInv
<1>4. CASE PaDecide
  <2>1. /\ pending' = NoAlerts /\ UNCHANGED <<inbox, queued, undelivered, faults>>
        /\ unread' = unread - Count(pending)
    BY <1>4 DEF PaDecide
  <2>2. AlertsAccountedFor'
    BY <1>a, <1>d, <1>e, <2>1 DEF AlertsAccountedFor
  <2> QED BY <2>1, <2>2 DEF PendingInv
<1>5. ASSUME NEW a \in Threads, Fault(a) PROVE AlertsAccountedFor' /\ PendingInv'
  <2>1. /\ faults' = faults + 1 /\ UNCHANGED mailVars
        /\ pending' = IF a = "PA" THEN NoAlerts ELSE pending
    BY <1>5 DEF Fault
  <2>2. Count(pending') \in Nat /\ Count(pending') <= Count(pending)
    BY <1>d, <2>1
  <2>3. faults' # 0
    BY <1>a, <2>1
  <2>4. AlertsAccountedFor'
    BY <1>a, <1>d, <1>e, <2>1, <2>2, <2>3 DEF AlertsAccountedFor
  <2>5. PendingInv'
    <3>1. CASE a = "PA"
      BY <2>1, <3>1 DEF PendingInv
    <3>2. CASE a # "PA"
      <4>1. pc'["PA"] = pc["PA"]
        BY <1>5, <1>a, <1>c, <3>2 DEF Fault
      <4> QED BY <4>1, <3>2, <2>1, <1>b DEF PendingInv
    <3> QED BY <3>1, <3>2
  <2> QED BY <2>4, <2>5
<1>6. CASE \/ \E i \in DOMAIN Snapshots : EnvTick(i)
           \/ Collect \/ UNCHANGED vars
  BY <1>1, <1>6 DEF EnvTick, Collect, vars
<1>7. ASSUME NEW a \in Agents, Sense(a) \/ Decide(a) \/ EndCycle(a) \/ Wake(a)
      PROVE  AlertsAccountedFor' /\ PendingInv'
  <2>1. UNCHANGED <<mailVars, pending, faults>>
    BY <1>7 DEF Sense, Decide, EndCycle, Wake
  <2>2. pc'["PA"] = pc["PA"]
    BY <1>7, <1>a, <1>c DEF Sense, Decide, EndCycle, Wake
  <2> QED BY <1>1, <2>1, <2>2
<1>8. CASE "EA" \in Agents /\ EaSense
  <2>1. UNCHANGED <<mailVars, pending, faults>>
    BY <1>8 DEF EaSense
  <2>2. pc' = pc \/ pc' = [pc EXCEPT !["EA"] = "decide"]
    BY <1>8 DEF EaSense
  <2>3. pc'["PA"] = pc["PA"]
    BY <1>a, <1>c, <2>2
  <2> QED BY <1>1, <2>1, <2>3
<1>9. CASE Wake("PA") \/ Execute
  <2>1. UNCHANGED <<mailVars, pending, faults>> /\ pc["PA"] # "decide"
    BY <1>9 DEF Wake, Execute
  <2> QED BY <1>1, <2>1
<1>10. \A a \in Threads : a \in Agents \/ a = "PA"
  BY PaIsApart
<1> QED
  BY <1>2, <1>3, <1>4, <1>5, <1>6, <1>7, <1>8, <1>9, <1>10, StepKinds

\* A thread that sleeps is shown idle, and one that works holds a snapshot.
LEMMA PhaseStep ==
  ThreadsInv /\ [Next]_vars => IdleWhenAsleep' /\ HeldInv' /\ PhaseInv'
<1> SUFFICES ASSUME ThreadsInv, [Next]_vars
             PROVE  IdleWhenAsleep' /\ HeldInv' /\ PhaseInv'
  OBVIOUS
<1> USE DEF envVars, threadVars, memVars, mailVars, paVars
<1>a. /\ pc \in [Threads -> {"sleep", "sense", "decide", "act", "collect"}]
      /\ held \in [Threads -> [index : 0..Len(Snapshots), cycle : Nat]]
      /\ state \in [Threads -> {"IDLE", "SENSING", "REASONING", "ACTING"}]
      /\ faults \in Nat
  BY DEF ThreadsInv, ThreadsConsistent, TypeOK
<1>b. IdleWhenAsleep /\ HeldInv /\ PhaseInv
  BY DEF ThreadsInv, ThreadsConsistent
<1>c. "PA" \notin Agents /\ "PA" \in Threads /\ Agents \subseteq Threads
  BY PaIsApart
<1> DEFINE Goal == IdleWhenAsleep' /\ HeldInv' /\ PhaseInv'
           Same(a) == \A b \in Threads \ {a} :
                        pc'[b] = pc[b] /\ held'[b] = held[b] /\ state'[b] = state[b]
           Good(a) ==
             /\ pc'[a] \in {"sleep", "collect"} /\ state'[a] # "IDLE" => faults' > 0
             /\ pc'[a] \in {"sense", "decide", "act"} => held'[a].index # 0
             /\ a \in Agents => pc'[a] # "collect"
             /\ a = "PA" => pc'[a] # "act"
\* A step of one thread leaves what holds of the others.
<1>d. ASSUME NEW a \in Threads, Same(a), Good(a), faults' \in Nat, faults' >= faults
      PROVE  Goal
  <2>1. IdleWhenAsleep'
    <3> SUFFICES ASSUME NEW b \in Threads, pc'[b] \in {"sleep", "collect"},
                        state'[b] # "IDLE"
                 PROVE  faults' > 0
      BY DEF IdleWhenAsleep
    <3>1. CASE b = a
      BY <1>d, <3>1
    <3>2. CASE b # a
      <4>1. pc[b] \in {"sleep", "collect"} /\ state[b] # "IDLE"
        BY <1>d, <3>2
      <4>2. faults > 0
        BY <4>1, <1>b DEF IdleWhenAsleep
      <4> QED BY <1>a, <1>d, <4>2
    <3> QED BY <3>1, <3>2
  <2>2. HeldInv'
    BY <1>b, <1>d DEF HeldInv
  <2>3. PhaseInv'
    BY <1>b, <1>c, <1>d DEF PhaseInv
  <2> QED BY <2>1, <2>2, <2>3
<1>1. CASE UNCHANGED <<pc, held, state, faults>>
  BY <1>1, <1>b DEF IdleWhenAsleep, HeldInv, PhaseInv
<1>2. ASSUME NEW a \in Threads, Wake(a) PROVE Goal
  <2>1. Same(a) /\ faults' = faults
    BY <1>2, <1>a DEF Wake
  <2>2. /\ pc'[a] = "sense" /\ held'[a] = [index |-> cached, cycle |-> cycle]
        /\ cached # 0
    BY <1>2, <1>a DEF Wake
  <2>3. Good(a)
    BY <2>2
  <2> QED BY <1>a, <1>d, <2>1, <2>3
<1>3. CASE "EA" \in Agents /\ EaSense
  <2>0. /\ pc["EA"] = "sense" /\ held' = held /\ faults' = faults
        /\ state' = [state EXCEPT !["EA"] = "SENSING"]
        /\ pc' = pc \/ pc' = [pc EXCEPT !["EA"] = "decide"]
    BY <1>3 DEF EaSense
  <2>1. Same("EA")
    BY <1>a, <2>0
  <2>2. pc'["EA"] \in {"sense", "decide"} /\ held'["EA"].index # 0
    BY <1>3, <1>a, <1>b, <1>c, <2>0 DEF HeldInv
  <2>3. Good("EA")
    BY <2>2
  <2> QED BY <1>3, <1>a, <1>c, <1>d, <2>0, <2>1, <2>3
<1>4. ASSUME NEW a \in Agents, Sense(a) \/ Decide(a) \/ SendAlert(a) PROVE Goal
  <2>0. a \in Threads /\ faults' = faults /\ held' = held
    BY <1>4, <1>c DEF Sense, Decide, SendAlert
  <2>1. Same(a)
    BY <1>4, <1>a DEF Sense, Decide, SendAlert
  <2>2. pc[a] \in {"sense", "decide", "act"} /\ pc'[a] \in {"decide", "act"}
    BY <1>4, <1>a, <2>0 DEF Sense, Decide, SendAlert
  <2>3. held'[a].index # 0
    BY <1>b, <2>0, <2>2 DEF HeldInv
  <2>4. Good(a)
    BY <1>c, <2>2, <2>3
  <2> QED BY <1>a, <1>d, <2>0, <2>1, <2>4
<1>5. ASSUME NEW a \in Agents, EndCycle(a) PROVE Goal
  <2>0. a \in Threads /\ faults' = faults
    BY <1>5, <1>c DEF EndCycle
  <2>1. Same(a)
    BY <1>5, <1>a DEF EndCycle, Sleeps
  <2>2. pc'[a] = "sleep" /\ state'[a] = "IDLE"
    BY <1>5, <1>a, <2>0 DEF EndCycle
  <2>3. Good(a)
    BY <2>2
  <2> QED BY <1>a, <1>d, <2>0, <2>1, <2>3
<1>6. CASE PaSense
  <2>0. pc["PA"] = "sense" /\ held' = held /\ faults' = faults
    BY <1>6 DEF PaSense
  <2>1. Same("PA")
    BY <1>6, <1>a DEF PaSense
  <2>2. pc'["PA"] = "decide" /\ held'["PA"].index # 0
    BY <1>6, <1>a, <1>b, <1>c, <2>0 DEF PaSense, HeldInv
  <2>3. Good("PA")
    BY <2>2
  <2> QED BY <1>a, <1>c, <1>d, <2>0, <2>1, <2>3
<1>7. CASE PaDecide
  <2>0. /\ state' = [state EXCEPT !["PA"] = "IDLE"] /\ faults' = faults
        /\ held' = [held EXCEPT !["PA"] = NoSnap]
        /\ \/ pc' = [pc EXCEPT !["PA"] = "collect"]
           \/ pc' = [pc EXCEPT !["PA"] = "sleep"]
    BY <1>7 DEF PaDecide, Sleeps
  <2>1. Same("PA")
    BY <1>a, <2>0
  <2>2. pc'["PA"] \in {"collect", "sleep"} /\ state'["PA"] = "IDLE"
    BY <1>a, <1>c, <2>0
  <2>3. Good("PA")
    BY <1>c, <2>2
  <2> QED BY <1>a, <1>c, <1>d, <2>0, <2>1, <2>3
<1>8. CASE Execute
  <2>0. /\ pc["PA"] = "collect" /\ UNCHANGED <<held, state, faults>>
        /\ pc' = [pc EXCEPT !["PA"] = "sleep"]
    BY <1>8 DEF Execute
  <2>1. Same("PA") /\ pc'["PA"] = "sleep"
    BY <1>a, <1>c, <2>0
  <2>2. state'["PA"] # "IDLE" => faults' > 0
    BY <1>b, <1>c, <2>0 DEF IdleWhenAsleep
  <2>3. Good("PA")
    BY <2>1, <2>2
  <2> QED BY <1>a, <1>c, <1>d, <2>0, <2>1, <2>3
<1>9. ASSUME NEW a \in Threads, Fault(a) PROVE Goal
  <2>0. /\ faults' = faults + 1 /\ state' = state
        /\ pc[a] \in {"sense", "decide", "act"}
        /\ \/ held' = held /\ pc' = [pc EXCEPT ![a] = "sense"]
           \/ held' = [held EXCEPT ![a] = NoSnap] /\ pc' = [pc EXCEPT ![a] = "sleep"]
    BY <1>9 DEF Fault, Sleeps
  <2>1. Same(a) /\ faults' > 0 /\ faults' \in Nat /\ faults' >= faults
    BY <1>a, <2>0
  <2>2. /\ pc'[a] \in {"sense", "sleep"}
        /\ pc'[a] = "sense" => held'[a].index # 0
    BY <1>a, <1>b, <2>0 DEF HeldInv
  <2>3. Good(a)
    BY <2>1, <2>2
  <2> QED BY <1>d, <2>1, <2>3
<1>10. CASE \/ \E i \in DOMAIN Snapshots : EnvTick(i)
            \/ Collect \/ UNCHANGED vars
  BY <1>1, <1>10 DEF EnvTick, Collect, vars
<1> QED
  BY <1>2, <1>3, <1>4, <1>5, <1>6, <1>7, <1>8, <1>9, <1>10, StepKinds

\* Only QA's sense() sets the Cpk, to what no sensor changes.
LEMMA CpkStep == ThreadsInv /\ [Next]_vars => CpkInv'
<1> SUFFICES ASSUME ThreadsInv, [Next]_vars PROVE CpkInv'
  OBVIOUS
<1> USE DEF envVars, threadVars, memVars, mailVars, paVars
<1>a. TypeOK /\ HeldInv /\ CpkInv
  BY DEF ThreadsInv, ThreadsConsistent
<1>1. ASSUME NEW a \in Agents, Sense(a) PROVE CpkInv'
  <2>1. a \in Threads /\ pc[a] = "sense"
    BY <1>1, PaIsApart DEF Sense
  <2>2. CpkStatus(Snap(a)) = {}
    BY <1>a, <2>1, SnapType
  <2>3. WorstCpk(Snap(a)) = 200
    BY <2>2, CpkDefault
  <2> QED BY <1>1, <1>a, <2>3 DEF Sense, CpkInv
<1>2. CASE cpk' = cpk
  BY <1>2, <1>a DEF CpkInv
<1> QED
  BY <1>1, <1>2, StepKinds DEF EnvTick, Wake, EaSense, Decide, SendAlert, EndCycle,
     PaSense, PaDecide, Collect, Execute, Fault, vars

\* In every interleaving, and whatever raises an exception: the types of all
\* variables and the limit of the router's log; every alert sent to PA waiting,
\* reasoned about or never delivered, exactly one of these unless PA's own cycle
\* raised, and undelivered ones only after PA's Queue has taken all it can hold;
\* and the state the dashboard shows of a sleeping agent.
THEOREM ThreadsAreConsistent == Spec => []ThreadsConsistent
<1>1. Init => ThreadsInv
  BY ThreadsInit
<1>2. ThreadsInv /\ [Next]_vars => ThreadsInv'
  BY TypeStep, AlertsStep, PhaseStep, CpkStep DEF ThreadsInv, ThreadsConsistent
<1>3. ThreadsInv => ThreadsConsistent
  BY DEF ThreadsInv
<1> QED BY <1>1, <1>2, <1>3, PTL DEF Spec

LEMMA ThreadsInvariant == Spec => []ThreadsInv
<1>1. ThreadsInv /\ [Next]_vars => ThreadsInv'
  BY TypeStep, AlertsStep, PhaseStep, CpkStep DEF ThreadsInv, ThreadsConsistent
<1> QED BY <1>1, ThreadsInit, PTL DEF Spec

-----------------------------------------------------------------------------
(* The bids of a round, and the inspection mode a round sets.               *)

\* The bids collected so far are those of the first responders.
BidsInv == Len(bids) <= Len(Responders) /\ BidsWithinPlanning

\* What an agent bids at any moment is what Planning assumes of it: speed and
\* mode depend on little of what the agent remembers, and QA's on a Cpk that
\* never changes.
LEMMA BidIsAssumed ==
  ASSUME CpkInv, NEW a \in Agents
  PROVE  [speed |-> BidOf(a).speed, mode |-> BidOf(a).mode] \in RuntimeBids[a]
<1>1. a \in {"EA", "QA", "SA", "DA", "IA"}
  BY AgentCycleAssumption
<1>2. CASE a = "EA"
  <2>1. BidOf(a) = EaBid(rul)
    BY <1>2 DEF BidOf
  <2>2. EaBid(rul).speed \in {80, 100} /\ EaBid(rul).mode = "standard"
    BY DEF EaBid
  <2> QED BY <1>2, <2>1, <2>2 DEF RuntimeBids
<1>3. CASE a = "QA"
  <2>1. BidOf(a) = QaBid(200)
    BY <1>3 DEF BidOf, CpkInv
  <2> QED BY <1>3, <2>1, QaBidIs DEF RuntimeBids
<1>4. CASE a = "SA"
  <2>1. BidOf(a) = SaBid(reorder_log)
    BY <1>4 DEF BidOf
  <2>2. SaBid(reorder_log).speed = 100 /\ SaBid(reorder_log).mode = "standard"
    BY DEF SaBid
  <2> QED BY <1>4, <2>1, <2>2 DEF RuntimeBids
<1>5. CASE a = "DA"
  <2>1. BidOf(a) = DaBid(util)
    BY <1>5 DEF BidOf
  <2>2. DaBid(util).speed \in {100, 110} /\ DaBid(util).mode = "standard"
    BY DEF DaBid
  <2> QED BY <1>5, <2>1, <2>2 DEF RuntimeBids
<1>6. CASE a = "IA"
  <2>1. BidOf(a) = IaBid(flow)
    BY <1>6 DEF BidOf
  <2>2. IaBid(flow).speed = 100 /\ IaBid(flow).mode = "standard"
    BY DEF IaBid
  <2> QED BY <1>6, <2>1, <2>2 DEF RuntimeBids
<1> QED BY <1>1, <1>2, <1>3, <1>4, <1>5, <1>6

LEMMA BidsInit == Init => BidsInv
<1> SUFFICES ASSUME Init PROVE BidsInv
  OBVIOUS
<1>1. bids = <<>>
  BY DEF Init
<1>2. Len(Responders) \in Nat
  BY AgentCycleAssumption
<1> QED BY <1>1, <1>2 DEF BidsInv, BidsWithinPlanning

LEMMA BidsStep == ThreadsInv /\ BidsInv /\ [Next]_vars => BidsInv'
<1> SUFFICES ASSUME ThreadsInv, BidsInv, [Next]_vars PROVE BidsInv'
  OBVIOUS
<1> USE DEF envVars, threadVars, memVars, mailVars, paVars
<1>a. CpkInv /\ bids \in Seq(Bid \cup {NoBid}) /\ Responders \in Seq(Agents)
  BY AgentCycleAssumption DEF ThreadsInv, ThreadsConsistent, TypeOK
<1>1. CASE bids' = bids
  BY <1>1 DEF BidsInv, BidsWithinPlanning
<1>2. CASE Collect
  <2> DEFINE n == Len(bids) + 1
             b == BidOf(Responders[n])
  <2>1. n \in DOMAIN Responders /\ n <= Len(Responders) /\ Len(bids) \in Nat
    BY <1>2, <1>a DEF Collect
  <2>2. Responders[n] \in Agents
    BY <1>a, <2>1
  <2>3. [speed |-> b.speed, mode |-> b.mode] \in RuntimeBids[Responders[n]]
    BY <1>a, <2>2, BidIsAssumed
  <2>4. b \in Bid
    BY <1>a, <2>2, BidType DEF ThreadsInv, ThreadsConsistent
  <2>5. bids' = Append(bids, b) \/ bids' = Append(bids, NoBid)
    BY <1>2 DEF Collect
  <2> HIDE DEF b
  <2>6. /\ Len(bids') = n /\ DOMAIN bids' = 1..n /\ bids'[n] \in {b, NoBid}
        /\ \A i \in 1..Len(bids) : bids'[i] = bids[i]
    <3> HIDE DEF NoBid
    <3> QED BY <1>a, <2>4, <2>5
  <2>7. \A i \in 1..Len(bids) : i \in DOMAIN bids
    BY <1>a
  <2>8. \A i \in 1..n : i = n \/ i \in 1..Len(bids)
    BY <2>1
  <2> HIDE DEF n
  <2>9. BidsWithinPlanning'
    <3> SUFFICES ASSUME NEW i \in 1..n
                 PROVE  \/ bids'[i] = NoBid
                        \/ [speed |-> bids'[i].speed, mode |-> bids'[i].mode]
                             \in RuntimeBids[Responders[i]]
      BY <2>6 DEF BidsWithinPlanning
    <3>1. CASE i = n
      BY <2>3, <2>6, <3>1
    <3>2. CASE i # n
      BY <2>6, <2>7, <2>8, <3>2 DEF BidsInv, BidsWithinPlanning
    <3> QED BY <3>1, <3>2
  <2> QED BY <2>1, <2>6, <2>9 DEF BidsInv
<1>3. CASE Execute
  <2>1. bids' = <<>> /\ Len(Responders) \in Nat
    BY <1>3, <1>a DEF Execute
  <2> QED BY <2>1 DEF BidsInv, BidsWithinPlanning
<1> QED
  BY <1>1, <1>2, <1>3, StepKinds DEF EnvTick, Wake, EaSense, Sense, Decide, SendAlert,
     EndCycle, PaSense, PaDecide, Fault, vars

\* Whatever the agents' threads do while PA asks for bids, every bid is one of
\* those on which Planning's theorems rest.
THEOREM BidsAreAsAssumed == Spec => []BidsWithinPlanning
<1>1. BidsInv => BidsWithinPlanning
  BY DEF BidsInv
<1> QED BY <1>1, BidsInit, BidsStep, ThreadsInvariant, PTL DEF Spec

\* A snapshot with three stations at risk is not calm.
LEMMA WorseningIsNotCalm ==
  ASSUME NEW snap, Worsening(snap)
  PROVE  ~QaCalm(snap)
<1>1. RiskStations(snap) # {}
  <2> SUFFICES ASSUME RiskStations(snap) = {} PROVE FALSE
    OBVIOUS
  <2>1. Cardinality(RiskStations(snap)) = 0
    BY FS_EmptySet
  <2> QED BY <2>1 DEF Worsening, RiskStationsBad
<1> QED BY <1>1 DEF QaCalm

LEMMA InspectionStep ==
  /\ ThreadsInv /\ BidsInv /\ TotalInspectionJustified /\ [Next]_vars
  => TotalInspectionJustified'
<1> SUFFICES ASSUME ThreadsInv, BidsInv, TotalInspectionJustified, [Next]_vars
             PROVE  TotalInspectionJustified'
  OBVIOUS
<1> USE DEF envVars, threadVars, memVars, mailVars, paVars
<1>a. TypeOK /\ HeldInv
  BY DEF ThreadsInv, ThreadsConsistent
<1>1. CASE UNCHANGED <<mode, judged>>
  BY <1>1 DEF TotalInspectionJustified
<1>2. ASSUME NEW a \in Agents, Decide(a) PROVE TotalInspectionJustified'
  <2>1. CASE a # "QA"
    BY <1>1, <1>2, <2>1 DEF Decide
  <2>2. CASE a = "QA"
    <3>1. pc["QA"] = "decide" /\ "QA" \in Threads
      BY <1>2, <2>2, PaIsApart DEF Decide
    <3>2. held["QA"].index \in DOMAIN Snapshots /\ CpkStatus(Snap("QA")) = {}
      BY <1>a, <3>1, SnapType
    <3>3. held["QA"].index # 0
      BY <1>a, <3>1 DEF HeldInv
    <3>4. WorstCpk(Snap("QA")) >= CpkGood /\ CriticalCpk(Snap("QA")) = {}
      BY <3>2, CpkDefault DEF CpkGood
    <3>5. judged' = held["QA"].index /\ mode' = QaMode(Snap("QA"), mode)
      BY <1>2, <2>2 DEF Decide
    <3>6. QaCalm(Snap("QA")) => mode' = "standard"
      BY <3>4, <3>5, WorseningIsNotCalm DEF QaMode
    <3> QED BY <3>3, <3>5, <3>6 DEF TotalInspectionJustified, Snap
  <2> QED BY <2>1, <2>2
<1>3. CASE Execute
  <2>1. judged' = judged /\ (mode' = mode \/ mode' \in QaModes)
    BY <1>3 DEF Execute
  <2>2. CASE mode' = mode
    BY <1>1, <2>1, <2>2
  <2>3. CASE mode' \in QaModes
    <3>1. bids \in Seq(Bid \cup {NoBid})
      BY <1>a DEF TypeOK
    <3>2. PICK i \in DOMAIN bids :
            Responders[i] = "QA" /\ bids[i] # NoBid /\ mode' = bids[i].mode
      BY <2>3, <3>1, QaModesAre
    <3>3. [speed |-> bids[i].speed, mode |-> bids[i].mode]
             = [speed |-> 90, mode |-> "tightened"]
      BY <3>2 DEF BidsInv, BidsWithinPlanning, RuntimeBids
    <3>4. mode' = "tightened"
      BY <3>2, <3>3
    <3> QED BY <3>4 DEF TotalInspectionJustified
  <2> QED BY <2>1, <2>2, <2>3
<1> QED
  BY <1>1, <1>2, <1>3, StepKinds DEF EnvTick, Wake, EaSense, Sense, SendAlert,
     EndCycle, PaSense, PaDecide, Collect, Fault, vars

\* QA inspects every part only while the last snapshot it reasoned about gave
\* it cause: PA's rounds, which write the mode on PA's thread, never set it to
\* total, and a calm snapshot ends it.
THEOREM TotalInspectionIsJustified == Spec => []TotalInspectionJustified
<1>1. Init => TotalInspectionJustified
  BY DEF Init, TotalInspectionJustified
<1> QED
  BY <1>1, InspectionStep, BidsInit, BidsStep, ThreadsInvariant, PTL DEF Spec

-----------------------------------------------------------------------------
(* EA's estimates.                                                          *)

\* While EA's sense() is under way, the stations before the current one have
\* the estimates of the snapshot in hand; and every estimate there is comes
\* from one of the snapshots of the last passes.
EstimatesInv ==
  /\ station # 1 => "EA" \in Agents /\ pc["EA"] = "sense"
  /\ \A s \in 1..NumStations :
       s < station => rul[s] = RulOf(Snap("EA").stations[s])
  /\ \A s \in 1..NumStations : rul[s] # NoRul =>
       \E i \in sources : rul[s] = RulOf(Snapshots[i].stations[s])

LEMMA EstimatesInit == Init => EstimatesInv
<1> SUFFICES ASSUME Init PROVE EstimatesInv
  OBVIOUS
<1>1. station = 1 /\ rul = [s \in 1..NumStations |-> NoRul]
  BY DEF Init
<1> QED BY <1>1 DEF EstimatesInv

LEMMA EstimatesStep ==
  ThreadsInv /\ EstimatesInv /\ [Next]_vars => EstimatesInv'
<1> SUFFICES ASSUME ThreadsInv, EstimatesInv, [Next]_vars PROVE EstimatesInv'
  OBVIOUS
<1> USE DEF envVars, threadVars, memVars, mailVars, paVars
<1>a. /\ pc \in [Threads -> {"sleep", "sense", "decide", "act", "collect"}]
      /\ held \in [Threads -> [index : 0..Len(Snapshots), cycle : Nat]]
      /\ station \in 1..NumStations /\ rul \in [1..NumStations -> Nat]
  BY DEF ThreadsInv, ThreadsConsistent, TypeOK
<1>b. NumStations \in Nat \ {0}
  BY AgentCycleAssumption
<1>c. "PA" \notin Agents /\ "PA" \in Threads /\ Agents \subseteq Threads
  BY PaIsApart
<1>1. CASE /\ UNCHANGED <<rul, station, sources>>
           /\ station # 1 => pc'["EA"] = pc["EA"] /\ held'["EA"] = held["EA"]
  <2>1. CASE station = 1
    BY <1>1, <2>1 DEF EstimatesInv
  <2>2. CASE station # 1
    <3>1. pc'["EA"] = pc["EA"] /\ Snap("EA")' = Snap("EA")
      BY <1>1, <2>2 DEF Snap
    <3> QED BY <1>1, <2>2, <3>1 DEF EstimatesInv
  <2> QED BY <2>1, <2>2
<1>2. CASE "EA" \in Agents /\ EaSense
  <2> DEFINE k == held["EA"].index
             r == RulOf(Snapshots[k].stations[station])
  <2>1. /\ rul' = [rul EXCEPT ![station] = r]
        /\ UNCHANGED held /\ pc["EA"] = "sense"
    BY <1>2 DEF EaSense, Snap
  <2>2. /\ Snap("EA") = Snapshots[k] /\ Snap("EA")' = Snapshots[k]
    BY <2>1 DEF Snap
  <2> HIDE DEF k
  <2>3. rul'[station] = r /\ \A s \in 1..NumStations : s # station => rul'[s] = rul[s]
    BY <1>a, <2>1
  <2>4. \A s \in 1..NumStations : s < station => rul[s] = RulOf(Snapshots[k].stations[s])
    BY <2>2 DEF EstimatesInv
  <2> HIDE DEF r
  <2>5. \A s \in 1..NumStations :
          s < station \/ s = station => rul'[s] = RulOf(Snapshots[k].stations[s])
    BY <1>a, <2>3, <2>4 DEF r
  <2>6. CASE station < NumStations
    <3>1. station' = station + 1 /\ sources' = sources \cup {k} /\ pc' = pc
      BY <1>2, <2>6 DEF EaSense, k
    <3>2. \A s \in 1..NumStations : s < station' => s < station \/ s = station
      BY <1>a, <3>1
    <3>3. \A s \in 1..NumStations :
            s < station' => rul'[s] = RulOf(Snap("EA")'.stations[s])
      BY <2>2, <2>5, <3>2
    <3>4. \A s \in 1..NumStations : rul'[s] # NoRul =>
            \E i \in sources' : rul'[s] = RulOf(Snapshots[i].stations[s])
      <4> TAKE s \in 1..NumStations
      <4>1. CASE s = station
        BY <4>1, <2>5, <3>1
      <4>2. CASE s # station
        <5>1. rul[s] # NoRul => \E i \in sources : rul[s] = RulOf(Snapshots[i].stations[s])
          BY DEF EstimatesInv
        <5> QED BY <4>2, <5>1, <2>3, <3>1
      <4> QED BY <4>1, <4>2
    <3> QED BY <1>2, <2>1, <3>1, <3>3, <3>4 DEF EstimatesInv
  <2>7. CASE ~(station < NumStations)
    <3>1. station' = 1 /\ sources' = {k}
      BY <1>2, <2>7 DEF EaSense, k
    <3>2. \A s \in 1..NumStations : s < station \/ s = station
      BY <1>a, <1>b, <2>7
    <3>3. \A s \in 1..NumStations : rul'[s] = RulOf(Snapshots[k].stations[s])
      BY <2>5, <3>2
    <3>4. \A s \in 1..NumStations : ~(s < station')
      BY <3>1
    <3> QED BY <3>1, <3>3, <3>4 DEF EstimatesInv
  <2> QED BY <2>6, <2>7
<1>3. ASSUME NEW a \in Threads, Fault(a) PROVE EstimatesInv'
  <2>1. UNCHANGED <<rul, sources>> /\ station' = IF a = "EA" THEN 1 ELSE station
    BY <1>3 DEF Fault
  <2>2. CASE a = "EA"
    <3>1. \A s \in 1..NumStations : ~(s < station')
      BY <2>1, <2>2
    <3> QED BY <2>1, <2>2, <3>1 DEF EstimatesInv
  <2>3. CASE a # "EA"
    <3>1. station # 1 => "EA" \in Threads
      BY <1>c DEF EstimatesInv
    <3>2. station # 1 => pc'["EA"] = pc["EA"]
      BY <1>3, <1>a, <2>3, <3>1 DEF Fault
    <3>3. station # 1 => held'["EA"] = held["EA"]
      BY <1>3, <1>a, <2>3, <3>1 DEF Fault, Sleeps
    <3> QED BY <1>1, <2>1, <2>3, <3>2, <3>3
  <2> QED BY <2>2, <2>3
\* EA in its sense() takes no other step.
<1>4. station # 1 => "EA" \in Threads /\ "EA" # "PA" /\ pc["EA"] = "sense"
  BY <1>c DEF EstimatesInv
<1>5. ASSUME NEW a \in Threads, Wake(a) PROVE EstimatesInv'
  <2>1. UNCHANGED <<rul, station, sources>> /\ pc[a] = "sleep"
    BY <1>5 DEF Wake
  <2>2. station # 1 => pc'["EA"] = pc["EA"] /\ held'["EA"] = held["EA"]
    BY <1>4, <1>5, <1>a, <2>1 DEF Wake
  <2> QED BY <1>1, <2>1, <2>2
<1>6. ASSUME NEW a \in Agents, Sense(a) \/ Decide(a) \/ SendAlert(a) \/ EndCycle(a)
      PROVE  EstimatesInv'
  <2>1. UNCHANGED <<rul, station, sources>>
    BY <1>6 DEF Sense, Decide, SendAlert, EndCycle
  <2>2. a # "EA" \/ pc[a] # "sense"
    BY <1>6 DEF Sense, Decide, SendAlert, EndCycle
  <2>3. station # 1 => a # "EA"
    BY <1>4, <2>2
  <2>4. station # 1 => pc'["EA"] = pc["EA"]
    BY <1>4, <1>6, <1>a, <2>3 DEF Sense, Decide, SendAlert, EndCycle
  <2>5. station # 1 => held'["EA"] = held["EA"]
    BY <1>4, <1>6, <1>a, <2>3 DEF Sense, Decide, SendAlert, EndCycle, Sleeps
  <2> QED BY <1>1, <2>1, <2>4, <2>5
<1>7. CASE PaSense \/ PaDecide \/ Collect \/ Execute
  <2>1. UNCHANGED <<rul, station, sources>>
    BY <1>7 DEF PaSense, PaDecide, Collect, Execute
  <2>2. \/ pc' = pc \/ pc' = [pc EXCEPT !["PA"] = "decide"]
        \/ pc' = [pc EXCEPT !["PA"] = "collect"] \/ pc' = [pc EXCEPT !["PA"] = "sleep"]
    BY <1>7 DEF PaSense, PaDecide, Collect, Execute
  <2>3. held' = held \/ held' = [held EXCEPT !["PA"] = NoSnap]
    BY <1>7 DEF PaSense, PaDecide, Sleeps, Collect, Execute
  <2>4. station # 1 => pc'["EA"] = pc["EA"] /\ held'["EA"] = held["EA"]
    BY <1>4, <1>a, <2>2, <2>3
  <2> QED BY <1>1, <2>1, <2>4
<1>8. CASE (\E i \in DOMAIN Snapshots : EnvTick(i)) \/ UNCHANGED vars
  BY <1>1, <1>8 DEF EnvTick, vars
<1> QED BY <1>2, <1>3, <1>5, <1>6, <1>7, <1>8, StepKinds

\* A bid that PA takes in the middle of EA's sense() mixes two snapshots, and
\* still misses no station that is short of life in both, and asks to slow down
\* only for a station that is short of life in one of them.
THEOREM EaBidsFromLastTwo == Spec => []EaBidFromLastTwo
<1>1. ASSUME ThreadsInv, EstimatesInv PROVE EaBidFromLastTwo
  <2> DEFINE Low(i, s) == RulOf(Snapshots[i].stations[s]) < RulCnp
  <2>a. rul \in [1..NumStations -> Nat]
    BY <1>1 DEF ThreadsInv, ThreadsConsistent, TypeOK
  <2>b. EaBid(rul).speed = IF Worst(rul) < RulCnp THEN 80 ELSE 100
    BY DEF EaBid, Worst
  <2>c. /\ \E s \in 1..NumStations : Worst(rul) = rul[s]
        /\ \A s \in 1..NumStations : Worst(rul) <= rul[s]
        /\ Worst(rul) \in Nat
    BY <2>a, WorstIs
  <2> SUFFICES ASSUME \A s \in 1..NumStations : rul[s] # NoRul
               PROVE  /\ EaBid(rul).speed = 80 =>
                           \E i \in sources, s \in 1..NumStations : Low(i, s)
                      /\ (\E s \in 1..NumStations : \A i \in sources : Low(i, s)) =>
                           EaBid(rul).speed = 80
    BY DEF EaBidFromLastTwo
  <2>1. \A s \in 1..NumStations :
          \E i \in sources : rul[s] = RulOf(Snapshots[i].stations[s])
    BY <1>1 DEF EstimatesInv
  <2>2. ASSUME EaBid(rul).speed = 80
        PROVE  \E i \in sources, s \in 1..NumStations : Low(i, s)
    <3>1. Worst(rul) < RulCnp
      BY <2>2, <2>b
    <3>2. PICK s \in 1..NumStations : Worst(rul) = rul[s]
      BY <2>c
    <3>3. PICK i \in sources : rul[s] = RulOf(Snapshots[i].stations[s])
      BY <2>1
    <3> QED BY <3>1, <3>2, <3>3
  <2>3. ASSUME NEW s \in 1..NumStations, \A i \in sources : Low(i, s)
        PROVE  EaBid(rul).speed = 80
    <3>1. PICK i \in sources : rul[s] = RulOf(Snapshots[i].stations[s])
      BY <2>1
    <3>2. rul[s] < RulCnp /\ rul[s] \in Nat /\ Worst(rul) <= rul[s]
      BY <2>3, <2>a, <2>c, <3>1
    <3>3. Worst(rul) < RulCnp
      BY <2>c, <3>2 DEF RulCnp
    <3> QED BY <2>b, <3>3
  <2> QED BY <2>2, <2>3
<1> QED
  BY <1>1, EstimatesInit, EstimatesStep, ThreadsInvariant, PTL DEF Spec
=============================================================================
