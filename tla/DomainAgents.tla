---------------------------- MODULE DomainAgents ----------------------------
(***************************************************************************)
(* What the five domain agents and the decision router compute: from a      *)
(* snapshot of the factory, which alerts an agent sends and what it         *)
(* remembers (sense and reason), what it bids in a contract-net round       *)
(* (handle_cfp), and which route the router takes before it reasons.        *)
(*                                                                         *)
(* Percentages and rates are integers in percent, times of an estimate in   *)
(* tenths of an hour.  A sensor's history (the trend of its last ten        *)
(* values, the run rules of its control chart, its Cpk) is data of the      *)
(* snapshot: what the agent's own buffers would hold by then.               *)
(*                                                                         *)
(*   snapshot  [stations, materials, orders, wip, fg_stock, produced,       *)
(*              scrap, avg_oee]                                             *)
(*   station   [sensors, tool, mtbf, rul_scale, quality, oee]               *)
(*   sensor    [name, value, dev, std, rising, gain, rules, cpk, falling]   *)
(*   material  [stock, safety, hours, reorder]                              *)
(*   order     [qty, delivered, urgent]                                     *)
(***************************************************************************)
EXTENDS Integers, Sequences, FiniteSets, Functions

Least(x, y) == IF x < y THEN x ELSE y
Greatest(x, y) == IF x > y THEN x ELSE y
Times(n, x) == [i \in 1..n |-> x]
If(cond, seq) == IF cond THEN seq ELSE <<>>
Last(s, n) == SubSeq(s, Greatest(1, Len(s) - n + 1), Len(s))
CountOf(s, x) == Cardinality({i \in DOMAIN s : s[i] = x})

Severity == {"CRITICAL", "HIGH", "MEDIUM"}
InspectionMode == {"standard", "tightened", "total"}

\* A bid in a round: cost and constraint violation in percent.
Bid == [speed : Nat, mode : InspectionMode, cost : 0..100, viol : 0..100]

\* Alerts in a mailbox are told apart by their severity only: how many of each.
NoAlerts == [s \in Severity |-> 0]
Count(alerts) == alerts["CRITICAL"] + alerts["HIGH"] + alerts["MEDIUM"]

\* A snapshot of a line of n stations, as get_snapshot fills it in.
Sensors ==
  [name : STRING, value : Int, dev : Nat, std : Nat, rising : Nat, gain : Nat,
   rules : Nat, cpk : Int, falling : BOOLEAN]
Stations ==
  [sensors : Seq(Sensors), tool : Nat, mtbf : Nat, rul_scale : Nat,
   quality : Nat, oee : Nat]
SnapshotsOf(n) ==
  [stations  : [1..n -> Stations],
   materials : Seq([stock : Nat, safety : Nat, hours : Nat, reorder : BOOLEAN]),
   orders    : Seq([qty : Nat, delivered : Nat, urgent : BOOLEAN]),
   wip : Seq(Nat), fg_stock : Nat, produced : Nat, scrap : Nat, avg_oee : Nat]

\* Every sensor of a snapshot, as <<station, index>>.
SensorsOf(snap) ==
  UNION {{<<s, i>> : i \in DOMAIN snap.stations[s].sensors} :
           s \in DOMAIN snap.stations}
SensorAt(snap, x) == snap.stations[x[1]].sensors[x[2]]

-----------------------------------------------------------------------------
(* EA, the equipment agent.                                                 *)

\* compute_raw_anomaly: the deviation in standard deviations, and a rising
\* trend among the last ten values.
RawAnomaly(x) ==
  IF x.std = 0 THEN 0
  ELSE Least(100, (x.dev * 20) \div x.std
                    + (IF x.rising >= 8 THEN 40 ELSE IF x.rising >= 6 THEN 20 ELSE 0))

\* scale_anomaly_for_type: the station type's sensitivity and signal boost.
Anomaly(x) == Least(100, (RawAnomaly(x) * x.gain) \div 100)

AlarmThreshold == 70
CriticalThreshold == 90
ToolWarn == 15
ToolUrgent == 5

\* The health of a station in hundredths of a percent: alarms and a worn tool
\* cost points.
Health(st) ==
  LET Penalty(x) == IF Anomaly(x) > AlarmThreshold THEN Anomaly(x) * 30 ELSE 0
  IN  10000 - SumFunction([i \in DOMAIN st.sensors |-> Penalty(st.sensors[i])])
            - (IF st.tool < ToolWarn THEN (ToolWarn - st.tool) * 300 ELSE 0)

\* estimate_rul_hours: a station without failures (mtbf 0) has 100 hours.
RulOf(st) ==
  LET base == IF st.mtbf = 0 THEN 1000 ELSE (st.mtbf * Health(st)) \div 1000
  IN  Greatest(5, (base * st.rul_scale) \div 100)

NoRul == 9990    \* handle_cfp's default before the first estimate (999 h)

\* The maintenance reason() asks for.
EaMaintenance(snap) ==
  {[station |-> x[1], action |-> "emergency"] :
     x \in {y \in SensorsOf(snap) : Anomaly(SensorAt(snap, y)) > CriticalThreshold}}
  \cup {[station |-> s, action |-> "tool"] :
     s \in {t \in DOMAIN snap.stations : snap.stations[t].tool < ToolUrgent}}

\* The alerts of reason(): the critical alarms, then the urgent tools.  An
\* alarm below the critical threshold is only logged.
EaAlerts(snap) ==
  Times(Cardinality({x \in SensorsOf(snap) :
          Anomaly(SensorAt(snap, x)) > CriticalThreshold}), "CRITICAL")
  \o Times(Cardinality({s \in DOMAIN snap.stations :
          snap.stations[s].tool < ToolUrgent}), "HIGH")

RulLow == 40
RulCnp == 80

\* handle_cfp: from the worst of the estimates as they are at this moment.
EaBid(rul) ==
  LET worst == CHOOSE r \in Range(rul) : \A q \in Range(rul) : r <= q
      cost  == Greatest(0, 100 - Least(worst, 1200) \div 12)
  IN  [speed |-> IF worst < RulCnp THEN 80 ELSE 100, mode |-> "standard",
       cost |-> cost,
       viol |-> IF worst < RulLow THEN 100 ELSE IF worst < RulCnp THEN 50 ELSE 0]

-----------------------------------------------------------------------------
(* QA, the quality agent.                                                   *)

QualityRisk == 90
RiskStationsBad == 3
CpkGood == 133
CpkWarning == 100

\* _spec_limits names the sensors in Korean (transcribed), the factory in
\* English: no sensor of a snapshot has a limit, and no Cpk is ever computed.
SpecLimits == {"jindong", "geumhyeong-gangeuk", "seupeuringbaek", "neoget-jikgyeong",
               "gyeongdo", "chisu-pyeoncha", "pyomyeon-geochilgi",
               "chegyeol-torque", "vision-jeomsu"}
CpkStatus(snap) == {x \in SensorsOf(snap) : SensorAt(snap, x).name \in SpecLimits}
WorstCpk(snap) ==
  LET cpks == {SensorAt(snap, x).cpk : x \in CpkStatus(snap)} \cup {200}
  IN  CHOOSE c \in cpks : \A d \in cpks : c <= d
CriticalCpk(snap) ==
  {x \in CpkStatus(snap) : LET s == SensorAt(snap, x) IN
     s.cpk < CpkWarning \/ (s.cpk < CpkGood /\ s.falling)}

RiskStations(snap) ==
  {s \in DOMAIN snap.stations : snap.stations[s].quality < QualityRisk}
Worsening(snap) == Cardinality(RiskStations(snap)) >= RiskStationsBad

\* The violations of the run rules over all sensors.
RuleViolations(snap) ==
  SumFunction([x \in SensorsOf(snap) |-> SensorAt(snap, x).rules])

QaAlerts(snap) ==
  Times(Cardinality(CriticalCpk(snap)), "HIGH")
  \o Times(RuleViolations(snap), "MEDIUM")
  \o If(Worsening(snap), <<"CRITICAL">>)

\* A snapshot QA has nothing to say about.
QaCalm(snap) == QaAlerts(snap) = <<>> /\ RiskStations(snap) = {}

\* Mutant: a calm cycle leaves the inspection mode as it is.
QaMode_Sticky(snap, mode) ==
  IF Worsening(snap) THEN "total" ELSE mode

\* The inspection mode after reason(): it tightens on a bad Cpk, becomes total
\* on three stations at risk, and goes back to standard after a calm cycle.
QaMode(snap, mode) ==
  IF Worsening(snap) THEN "total"
  ELSE IF CriticalCpk(snap) # {} THEN "tightened"
  ELSE IF QaCalm(snap) /\ WorstCpk(snap) >= CpkGood THEN "standard"
  ELSE mode

QaBid(cpk) ==
  [speed |-> IF cpk < CpkWarning THEN 70 ELSE 90,
   mode  |-> IF cpk < CpkWarning THEN "total" ELSE "tightened",
   cost  |-> IF cpk < CpkGood THEN Greatest(0, Least(100, (100 * (CpkGood - cpk)) \div CpkGood)) ELSE 0,
   viol  |-> IF cpk < CpkWarning THEN 100 ELSE IF cpk < CpkGood THEN 50 ELSE 0]

-----------------------------------------------------------------------------
(* SA, the supply agent.                                                    *)

Shortages(snap) ==
  {m \in DOMAIN snap.materials : 2 * snap.materials[m].stock <= snap.materials[m].safety}
ReorderNeeded(snap) ==
  {m \in DOMAIN snap.materials \ Shortages(snap) :
     snap.materials[m].reorder \/ snap.materials[m].stock <= snap.materials[m].safety}

SaAlerts(snap) == Times(Cardinality(Shortages(snap)), "CRITICAL")

\* The purchase orders act() appends to _reorder_log.
SaReorders(snap) ==
  Times(Cardinality(Shortages(snap)), "urgent")
  \o Times(Cardinality(ReorderNeeded(snap)), "regular")

SaBid(log) ==
  LET critical == CountOf(Last(log, 5), "urgent")
  IN  [speed |-> 100, mode |-> "standard",
       cost |-> Least(100, 20 * critical + 5 * Len(Last(log, 10))),
       viol |-> IF critical > 0 THEN 100 ELSE IF log # <<>> THEN 40 ELSE 0]

-----------------------------------------------------------------------------
(* DA, the demand agent.                                                    *)

RemainingOf(o) == Greatest(0, o.qty - o.delivered)
TotalDemand(snap) == SumFunction([i \in DOMAIN snap.orders |-> snap.orders[i].qty])
TotalDelivered(snap) ==
  SumFunction([i \in DOMAIN snap.orders |-> snap.orders[i].delivered])
AtRisk(snap) ==
  {i \in DOMAIN snap.orders : LET left == RemainingOf(snap.orders[i]) IN
     left > 0 /\ 10 * snap.fg_stock < 3 * left}
OnTimeLow(snap) ==
  TotalDemand(snap) > 0 /\ 100 * TotalDelivered(snap) < 85 * TotalDemand(snap)

\* sense(): demand of one order against the capacity of a day of 480 cycles.
CapacityUtil(snap, cycle) ==
  IF cycle = 0 THEN 0
  ELSE LET capacity == Greatest(1, (snap.produced * 480) \div cycle)
           demand   == IF snap.orders = <<>> THEN 0
                       ELSE TotalDemand(snap) \div Len(snap.orders)
       IN  Least(150, (100 * demand) \div capacity)

DaAlerts(snap, util) ==
  Times(Cardinality(AtRisk(snap)), "HIGH")
  \o If(OnTimeLow(snap), <<"CRITICAL">>)
  \o If(util > 110, <<"MEDIUM">>)

\* Mutant: DA bids the utilisation itself.
DaBid_Util(util) ==
  [speed |-> Greatest(100, util), mode |-> "standard", cost |-> 0, viol |-> 0]

\* DA asks for 110 % when demand exceeds capacity.
DaBid(util) ==
  [speed |-> IF util > 100 THEN 110 ELSE 100, mode |-> "standard",
   cost |-> IF util > 100 THEN Least(100, util - 100) ELSE 0,
   viol |-> IF util > 110 THEN 100 ELSE IF util > 100 THEN 50 ELSE 0]

-----------------------------------------------------------------------------
(* IA, the inventory agent.                                                 *)

WipWarn == 80
WipOverload == 90
BottleneckOee == 65

\* The first station with the lowest OEE below 100 %; 0: none.
Bottleneck(snap) ==
  LET low == {s \in DOMAIN snap.stations : snap.stations[s].oee < 100}
  IN  IF low = {} THEN 0
      ELSE CHOOSE s \in low : \A t \in low :
             \/ snap.stations[s].oee < snap.stations[t].oee
             \/ snap.stations[s].oee = snap.stations[t].oee /\ s <= t

ScrapRate(snap) ==
  (100 * snap.scrap) \div Greatest(1, snap.produced + snap.scrap)

IaAlerts(snap) ==
  LET bn == Bottleneck(snap) IN
  Times(Cardinality({w \in DOMAIN snap.wip : snap.wip[w] > WipOverload}), "HIGH")
  \o If(bn # 0 /\ snap.stations[bn].oee < BottleneckOee, <<"MEDIUM">>)
  \o If(ScrapRate(snap) > 5, <<"MEDIUM">>)

\* What sense() remembers for the next round: bottleneck, scrap rate, WIP
\* alerts and the throughput history.
IaFlow(snap, flow) ==
  [bottleneck |-> Bottleneck(snap), scrap |-> ScrapRate(snap),
   wip |-> Cardinality({w \in DOMAIN snap.wip : snap.wip[w] > WipWarn}),
   throughput |-> Append(flow.throughput, snap.produced)]

IaBid(flow) ==
  LET th == flow.throughput
      up == Len(th) > 2 /\ th[Len(th)] > th[Len(th) - 1]
  IN  [speed |-> 100, mode |-> "standard",
       cost |-> Least(100, 8 * flow.scrap + (IF up THEN 12 ELSE 0)),
       viol |-> Least(100, 35 * flow.wip + (IF flow.bottleneck # 0 THEN 45 ELSE 0))]

-----------------------------------------------------------------------------
(* The hybrid decision router.                                              *)

\* enrich_snapshot_for_router: a reading of the first station, 0 if there is
\* none; the supply of the scarcest material.
Reading(snap, name) ==
  LET found == {i \in DOMAIN snap.stations[1].sensors :
                  snap.stations[1].sensors[i].name = name}
  IN  IF found = {} THEN 0
      ELSE snap.stations[1].sensors[CHOOSE i \in found : TRUE].value
BufferHours(snap) ==
  LET hours == {snap.materials[m].hours : m \in DOMAIN snap.materials} \cup {999}
      least == CHOOSE h \in hours : \A g \in hours : h <= g
  IN  IF least < 999 THEN least ELSE 99

\* _check_safety_rules (values in tenths: vibration 5.5 mm/s, oil 75 degrees).
SafetyRule(snap) ==
  Reading(snap, "vibration") >= 55 \/ Reading(snap, "oil_temp") >= 750

\* _check_threshold_rules: EA slows down on vibration, SA restocks.
ThresholdRule(a, snap) ==
  \/ a = "EA" /\ Reading(snap, "vibration") >= 45
  \/ a = "SA" /\ BufferHours(snap) < 1

\* The "type" of the alerts in PA's observations: collect_inbox_alerts copies
\* sender, intent, severity, summary and body, and no "type".
AlertTypes(alerts) == IF alerts = NoAlerts THEN {} ELSE {""}

\* _should_route_to_llm.  Only PA's observations have an "alerts" key, so the
\* new_alerts of every other agent are empty.
ShouldUseLlm(a, alerts) ==
  /\ a = "PA"
  /\ Count(alerts) >= 2
  /\ Cardinality(AlertTypes(alerts)) >= 2

\* route(): rules before the LLM; "none" leaves the decision to reason().
RouteOf(a, snap, alerts, llmEnabled) ==
  IF SafetyRule(snap) \/ ThresholdRule(a, snap) THEN "rule"
  ELSE IF llmEnabled /\ ShouldUseLlm(a, alerts) THEN "llm" ELSE "none"

-----------------------------------------------------------------------------
(* PA.                                                                      *)

\* Mutant: one critical alert is not enough.
CallsForRound_TwoCritical(alerts, snap, sinceLast, cooldown, oeeGap) ==
  /\ alerts["CRITICAL"] >= 2 \/ alerts["HIGH"] >= 2
  /\ sinceLast > cooldown

\* reason(): the alerts, or a low OEE alone, call for a round, unless the last
\* one was too recent.
CallsForRound(alerts, snap, sinceLast, cooldown, oeeGap) ==
  /\ \/ alerts["CRITICAL"] >= 1
     \/ alerts["HIGH"] >= 2
     \/ snap.avg_oee < 65 /\ sinceLast > oeeGap
  /\ sinceLast > cooldown
=============================================================================
