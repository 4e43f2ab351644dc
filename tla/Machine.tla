------------------------------- MODULE Machine -------------------------------
(***************************************************************************)
(* One work center (mas/domain/machines.py) and the room temperature, with   *)
(* the three threads that touch them without a lock: ENV-TICK runs a cycle   *)
(* on it and the dynamics after it, EVENT-GEN breaks it down, wears its tool *)
(* and disturbs a sensor, and the API reads its status.                      *)
(*                                                                         *)
(* FactoryLine follows the product through the stations; here are a          *)
(* station's own counters.  A step ends at a call, where another thread may  *)
(* run: x += f() has read x before f is called and stores it after.          *)
(***************************************************************************)
EXTENDS Integers

CONSTANTS
  MaxLife,        \* ToolWear.max_life
  Spike,          \* life a tool_wear_spike takes (50 to 200)
  DriftPerCycle,  \* RealisticSensor.drift_per_cycle; one sensor's is negative
  Shock,          \* drift of a quality_drift event
  Recovery,       \* drift a recovery takes away
  AmbientMin,     \* 15 degrees
  EnvMax,         \* 35 degrees, _update_ambient's limit
  EventMax,       \* 38 degrees, ambient_change's limit
  MaxTicks,       \* bound: ticks
  MaxStationEvents  \* bound: events

ASSUME MachineAssumption ==
  /\ MaxLife \in Nat \ {0} /\ Spike \in Nat
  /\ DriftPerCycle \in Int /\ Shock \in Nat /\ Recovery \in Nat
  /\ AmbientMin \in Int /\ EventMax \in Int /\ EnvMax \in AmbientMin + 1..EventMax
  /\ MaxTicks \in Nat /\ MaxStationEvents \in Nat

VARIABLES
  env,      \* ENV-TICK: [pc, tick, seen], seen being what it read before a call
  gen,      \* EVENT-GEN: [pc, n, seen]
  api,      \* a get_status() of the API: [pc, cycles, total, good, judged]
  wcState,  \* WorkCenter.state
  count,    \* [total, good, defect, failures]: WorkCenter's counters
  life,     \* ToolWear.current_life
  region,   \* ToolWear.region
  drift,    \* RealisticSensor._drift
  ambient,  \* Factory.ambient_temp
  hist      \* history: [advances, spikes]: what wore the tool;
            \*   [window, lost, setback]: cycles since a spike read the life, those
            \*   lost in such windows, and if one lost more than the spike took;
            \*   [injected, aged, fresh, recovered, missed]: of the drift, by shocks,
            \*   by the sensor itself (and since a recovery), by recoveries, and
            \*   shocks that fell into a recovery

machineVars == <<env, gen, api, wcState, count, life, region, drift, ambient, hist>>

Floor(lo, x) == IF x < lo THEN lo ELSE x
Clamp(lo, hi, x) == Floor(lo, IF x > hi THEN hi ELSE x)

NoStatus == [pc |-> "idle", cycles |-> 0, total |-> 0, good |-> 0, judged |-> 0, yield |-> 0]

MachineInit ==
  /\ env = [pc |-> "ambient", tick |-> 0, seen |-> 0]
  /\ gen = [pc |-> "sleep", n |-> 0, seen |-> 0]
  /\ api = NoStatus
  /\ wcState = "IDLE" /\ region = "initial"
  /\ count = [total |-> 0, good |-> 0, defect |-> 0, failures |-> 0]
  /\ life = 0 /\ drift = 0 /\ ambient = EnvMax - 1
  /\ hist = [advances |-> 0, spikes |-> 0, window |-> 0, lost |-> 0, setback |-> FALSE,
             injected |-> 0, aged |-> 0, fresh |-> 0, recovered |-> 0, missed |-> 0]

EnvGoto(pc) == env' = [env EXCEPT !.pc = pc]

-----------------------------------------------------------------------------
\* ENV-TICK: run_cycle.

\* _update_ambient reads the temperature, draws a number ...
EnvReadAmbient ==
  /\ env.pc = "ambient" /\ env.tick < MaxTicks
  /\ env' = [pc |-> "addAmbient", tick |-> env.tick + 1, seen |-> ambient]
  /\ UNCHANGED <<gen, api, wcState, count, life, region, drift, ambient, hist>>

\* ... stores the sum and reads it again for the limits ...
EnvAddAmbient(d) ==
  /\ env.pc = "addAmbient"
  /\ ambient' = env.seen + d
  /\ env' = [env EXCEPT !.pc = "clampAmbient", !.seen = @ + d]
  /\ UNCHANGED <<gen, api, wcState, count, life, region, drift, hist>>

\* ... and stores what min and max return.
EnvClampAmbient ==
  /\ env.pc = "clampAmbient"
  /\ ambient' = Clamp(AmbientMin, EnvMax, env.seen)
  /\ env' = [env EXCEPT !.pc = "check", !.seen = 0]
  /\ UNCHANGED <<gen, api, wcState, count, life, region, drift, hist>>

\* run_cycle ends at a broken machine, and may have ended at one before this.
WcCheckStation ==
  /\ env.pc = "check"
  /\ \/ EnvGoto("recover")
     \/ wcState # "BREAKDOWN" /\ EnvGoto("enter")
  /\ UNCHANGED <<gen, api, wcState, count, life, region, drift, ambient, hist>>

\* execute_cycle looks again; a machine that broke down meanwhile gives no
\* readings, and its part is judged all the same.
ExecuteCycle ==
  /\ env.pc = "enter"
  /\ \/ /\ wcState = "BREAKDOWN"
        /\ EnvGoto("judge")
     \/ /\ wcState # "BREAKDOWN"
        /\ EnvGoto("run")
  /\ UNCHANGED <<gen, api, wcState, count, life, region, drift, ambient, hist>>

\* Looking up the members of an Enum is a call before Python 3.12: a breakdown
\* may fall between the look and this store, which hides it.
StoreRunning ==
  /\ env.pc = "run"
  /\ wcState' = "RUNNING"
  /\ EnvGoto("advance")
  /\ UNCHANGED <<gen, api, count, life, region, drift, ambient, hist>>

\* The S-curve of wear.
RegionOf(l) == IF 10 * l < 3 * MaxLife THEN "initial"
               ELSE IF 10 * l < 8 * MaxLife THEN "linear" ELSE "rapid"

\* Mutant: the region is computed from what is left of the tool.
ToolAdvance_Remaining ==
  /\ env.pc = "advance"
  /\ life' = life + 1
  /\ region' = RegionOf(Floor(0, MaxLife - life'))
  /\ hist' = [hist EXCEPT !.advances = @ + 1,
                          !.window = IF gen.pc = "spike" THEN @ + 1 ELSE @]
  /\ EnvGoto("read")
  /\ UNCHANGED <<gen, api, wcState, count, drift, ambient>>

\* ToolWear.advance.
ToolAdvance ==
  /\ env.pc = "advance"
  /\ life' = life + 1
  /\ region' = RegionOf(life')
  /\ hist' = [hist EXCEPT !.advances = @ + 1,
                          !.window = IF gen.pc = "spike" THEN @ + 1 ELSE @]
  /\ EnvGoto("read")
  /\ UNCHANGED <<gen, api, wcState, count, drift, ambient>>

\* RealisticSensor.read: the sensor drifts, up or down (the value and its noise
\* decide nothing here).
ReadSensor ==
  /\ env.pc = "read"
  /\ drift' = drift + DriftPerCycle
  /\ hist' = [hist EXCEPT !.aged = @ + DriftPerCycle, !.fresh = @ + DriftPerCycle]
  /\ EnvGoto("count")
  /\ UNCHANGED <<gen, api, wcState, count, life, region, ambient>>

CountCycle ==
  /\ env.pc = "count"
  /\ count' = [count EXCEPT !.total = @ + 1]
  /\ EnvGoto("judge")
  /\ UNCHANGED <<gen, api, wcState, life, region, drift, ambient, hist>>

\* _judge_quality and record_quality: any outcome is possible.
RecordQuality ==
  /\ env.pc = "judge"
  /\ count' \in {[count EXCEPT !.good = @ + 1], [count EXCEPT !.defect = @ + 1]}
  /\ EnvGoto("recover")
  /\ UNCHANGED <<gen, api, wcState, life, region, drift, ambient, hist>>

-----------------------------------------------------------------------------
\* ENV-TICK: _apply_dynamics.

\* A sensor recovers now and then: recover has read the drift when it calls max.
RecoverRead ==
  /\ env.pc = "recover"
  /\ \/ env' = [env EXCEPT !.pc = "storeDrift", !.seen = drift]
     \/ EnvGoto("repair")
  /\ UNCHANGED <<gen, api, wcState, count, life, region, drift, ambient, hist>>

\* Mutant: a recovery is not stopped at zero.
RecoverStore_NoFloor ==
  /\ env.pc = "storeDrift"
  /\ drift' = env.seen - Recovery
  /\ hist' = [hist EXCEPT !.recovered = @ + Recovery, !.fresh = 0]
  /\ env' = [env EXCEPT !.pc = "repair", !.seen = 0]
  /\ UNCHANGED <<gen, api, wcState, count, life, region, ambient>>

\* A drift below zero is raised to zero.
RecoverStore ==
  /\ env.pc = "storeDrift"
  /\ drift' = Floor(0, env.seen - Recovery)
  /\ hist' = [hist EXCEPT !.recovered = @ + Recovery, !.fresh = 0]
  /\ env' = [env EXCEPT !.pc = "repair", !.seen = 0]
  /\ UNCHANGED <<gen, api, wcState, count, life, region, ambient>>

\* A broken machine may be repaired.
Repair ==
  /\ env.pc = "repair"
  /\ wcState' \in IF wcState = "BREAKDOWN" THEN {"BREAKDOWN", "WARMUP"} ELSE {wcState}
  /\ EnvGoto("ambient")
  /\ UNCHANGED <<gen, api, count, life, region, drift, ambient, hist>>

-----------------------------------------------------------------------------
\* EVENT-GEN.

Sleeping == gen.pc = "sleep" /\ gen.n < MaxStationEvents
EventBegins(pc, seen) == Sleeping /\ gen' = [pc |-> pc, n |-> gen.n + 1, seen |-> seen]
EventEnds == gen' = [gen EXCEPT !.pc = "sleep", !.seen = 0]

\* breakdown: a running machine, whose repair time is drawn first.
WcBreakdownCheck ==
  /\ wcState = "RUNNING" /\ EventBegins("trigger", 0)
  /\ UNCHANGED <<env, api, wcState, count, life, region, drift, ambient, hist>>

\* Mutant: the failure is not counted.
WcTriggerBreakdown_Uncounted ==
  /\ gen.pc = "trigger" /\ EventEnds
  /\ wcState' = "BREAKDOWN"
  /\ UNCHANGED <<env, api, count, life, region, drift, ambient, hist>>

WcTriggerBreakdown ==
  /\ gen.pc = "trigger" /\ EventEnds
  /\ wcState' = "BREAKDOWN"
  /\ count' = [count EXCEPT !.failures = @ + 1]
  /\ UNCHANGED <<env, api, life, region, drift, ambient, hist>>

\* tool_wear_spike: current_life += int(spike) ...
SpikeRead ==
  /\ EventBegins("spike", life)
  /\ UNCHANGED <<env, api, wcState, count, life, region, drift, ambient, hist>>

\* Mutant: the spike replaces the tool's life.
SpikeStore_Sets ==
  /\ gen.pc = "spike" /\ EventEnds
  /\ life' = Spike
  /\ hist' = [hist EXCEPT !.spikes = @ + Spike, !.lost = @ + hist.window, !.window = 0,
                          !.setback = @ \/ hist.window > Spike]
  /\ UNCHANGED <<env, api, wcState, count, region, drift, ambient>>

\* ... stores the sum after int() has returned: the cycles in between are lost.
SpikeStore ==
  /\ gen.pc = "spike" /\ EventEnds
  /\ life' = gen.seen + Spike
  /\ hist' = [hist EXCEPT !.spikes = @ + Spike, !.lost = @ + hist.window, !.window = 0,
                          !.setback = @ \/ hist.window > Spike]
  /\ UNCHANGED <<env, api, wcState, count, region, drift, ambient>>

\* quality_drift: inject_shock calls nothing between its read and its store.
InjectShock ==
  /\ Sleeping /\ gen' = [gen EXCEPT !.n = @ + 1]
  /\ drift' = drift + Shock
  /\ hist' = [hist EXCEPT !.injected = @ + Shock,
                          !.missed = @ + (IF env.pc = "storeDrift" THEN Shock ELSE 0)]
  /\ UNCHANGED <<env, api, wcState, count, life, region, ambient>>

\* ambient_change, in the steps of _update_ambient but with another limit.
EventReadAmbient ==
  /\ EventBegins("addAmbient", ambient)
  /\ UNCHANGED <<env, api, wcState, count, life, region, drift, ambient, hist>>

EventAddAmbient(d) ==
  /\ gen.pc = "addAmbient"
  /\ ambient' = gen.seen + d
  /\ gen' = [gen EXCEPT !.pc = "clampAmbient", !.seen = @ + d]
  /\ UNCHANGED <<env, api, wcState, count, life, region, drift, hist>>

EventClampAmbient ==
  /\ gen.pc = "clampAmbient" /\ EventEnds
  /\ ambient' = Clamp(AmbientMin, EventMax, gen.seen)
  /\ UNCHANGED <<env, api, wcState, count, life, region, drift, hist>>

-----------------------------------------------------------------------------
\* The API: get_status reads total_cycles, then calls oee, then yield_rate.

StatusCycles ==
  /\ api.pc = "idle"
  /\ api' = [NoStatus EXCEPT !.pc = "oee", !.cycles = count.total]
  /\ UNCHANGED <<env, gen, wcState, count, life, region, drift, ambient, hist>>

\* oee: its quality is good / total, at most 1.
StatusOee ==
  /\ api.pc = "oee"
  /\ api' = [api EXCEPT !.pc = "yield", !.total = count.total, !.good = count.good]
  /\ UNCHANGED <<env, gen, wcState, count, life, region, drift, ambient, hist>>

\* yield_rate: good / (good + defect).
StatusYield ==
  /\ api.pc = "yield"
  /\ api' = [api EXCEPT !.pc = "served", !.yield = count.good,
                        !.judged = count.good + count.defect]
  /\ UNCHANGED <<env, gen, wcState, count, life, region, drift, ambient, hist>>

StatusServed ==
  /\ api.pc = "served" /\ api' = NoStatus
  /\ UNCHANGED <<env, gen, wcState, count, life, region, drift, ambient, hist>>

MachineNext ==
  \/ EnvReadAmbient \/ (\E d \in {-1, 1} : EnvAddAmbient(d)) \/ EnvClampAmbient
  \/ WcCheckStation \/ ExecuteCycle \/ StoreRunning \/ ToolAdvance \/ ReadSensor \/ CountCycle
  \/ RecordQuality \/ RecoverRead \/ RecoverStore \/ Repair
  \/ WcBreakdownCheck \/ WcTriggerBreakdown \/ SpikeRead \/ SpikeStore \/ InjectShock
  \/ EventReadAmbient \/ (\E d \in {-2, 2} : EventAddAmbient(d)) \/ EventClampAmbient
  \/ StatusCycles \/ StatusOee \/ StatusYield \/ StatusServed

MachineSpec == MachineInit /\ [][MachineNext]_machineVars

-----------------------------------------------------------------------------
MachineTypeOK ==
  /\ env \in [pc : {"ambient", "addAmbient", "clampAmbient", "check", "enter", "run", "advance",
                    "read", "count", "judge", "recover", "storeDrift", "repair"},
              tick : 0..MaxTicks, seen : Int]
  /\ gen \in [pc : {"sleep", "trigger", "spike", "addAmbient", "clampAmbient"},
             n : 0..MaxStationEvents, seen : Int]
  /\ api \in [pc : {"idle", "oee", "yield", "served"},
              cycles : Nat, total : Nat, good : Nat, judged : Nat, yield : Nat]
  /\ wcState \in {"IDLE", "RUNNING", "BREAKDOWN", "WARMUP"}
  /\ count \in [total : Nat, good : Nat, defect : Nat, failures : Nat]
  /\ life \in Nat /\ drift \in Int /\ ambient \in Int
  /\ region \in {"initial", "linear", "rapid"}
  /\ hist \in [advances : Nat, spikes : Nat, window : Nat, lost : Nat, setback : BOOLEAN,
               injected : Nat, aged : Int, fresh : Int, recovered : Nat, missed : Nat]

Judging == IF env.pc = "judge" THEN 1 ELSE 0

\* A part may be judged whose cycle was not counted, when the machine breaks
\* down between run_cycle's look at it and execute_cycle's: then good_count
\* outgrows total_cycles and the OEE's quality has to be capped at 1.  But
\* every failure accounts for at most one such part, and no cycle is counted
\* without a judgement.
UncountedPartsBounded ==
  LET judged == count.good + count.defect
  IN  /\ count.total <= judged + Judging
      /\ judged <= count.total + count.failures

\* Of all wear exactly the cycles that ran between a spike's read and its store
\* are lost; a spike never is.
WearAccounted ==
  /\ life = hist.advances + hist.spikes - hist.lost
  /\ life >= hist.spikes

Rank(r) == IF r = "initial" THEN 1 ELSE IF r = "linear" THEN 2 ELSE 3

\* A tool only wears (nobody changes tools: reset and start_setup have no
\* caller), with one exception: a spike between whose read and store more cycles
\* ran than it takes sets the life back, and the next cycle may then set the
\* region on the S-curve back.
ToolOnlyWears ==
  [][/\ life' < life => hist.window > Spike
     /\ Rank(region') < Rank(region) => hist.setback]_machineVars

\* A sensor's drift is never more than what shocks and its own drift added, nor
\* less than that without what recoveries took and the shocks that fell into a
\* recovery; and it is below zero only by the sensor's own drift since the last
\* recovery, which ends at zero or above, even if that raises the drift.
DriftAccounted ==
  /\ drift <= hist.injected + Floor(0, hist.aged)
  /\ drift >= hist.injected + hist.aged - hist.recovered - hist.missed
  /\ drift >= 0 \/ drift >= hist.fresh

\* Both threads add to the temperature and then cut it to their own limits,
\* each from a value it read before; when neither is at it, it is within the
\* wider of them.
AmbientAtRest ==
  (env.pc # "clampAmbient" /\ gen.pc # "clampAmbient") => ambient \in AmbientMin..EventMax

\* A status is not taken at one moment, but it never shows the future before
\* the past: the OEE is at least as recent as the cycle count, the yield as
\* the OEE, and but for the part in work every cycle in the OEE is in the
\* yield.
StatusInOrder ==
  api.pc = "served" => /\ api.cycles <= api.total
                       /\ api.good <= api.yield
                       /\ api.total <= api.judged + 1

\* A station's counters, as they are and as a status shows them, agree but for
\* the part in work and one uncounted part per failure.
CountsAgree == UncountedPartsBounded /\ StatusInOrder
=============================================================================
