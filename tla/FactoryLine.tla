----------------------------- MODULE FactoryLine -----------------------------
(***************************************************************************)
(* The simulated production line (mas/domain/environment.py, machines.py)   *)
(* as the runtime drives it: ENV-TICK runs one production cycle after the   *)
(* other, takes the snapshot the agents read and applies the dynamics;      *)
(* EVENT-GEN breaks machines down, adds orders and delivers material; the   *)
(* API thread takes snapshots of its own.  No lock guards the factory.      *)
(*                                                                         *)
(* A cycle is a program whose steps end where the interpreter may switch    *)
(* threads between two accesses to something another thread writes.         *)
(* Sensors, tool wear, shifts and temperature only decide how a part is     *)
(* judged: any judgement is possible at any station.                        *)
(***************************************************************************)
EXTENDS Integers, Sequences, Functions

CONSTANTS
  NumStations,  \* work centers of the line (6)
  EnumYields,   \* looking up an Enum member runs Python code (3.10, 3.11)
  NumMaterials, \* materials, in the order of the dict (5)
  Consumption,  \* material -> the amounts one cycle may use
  SafetyStock,  \* Material.safety_stock
  InitialStock, \* Material.stock at the start
  Arrivals,     \* amounts of a material arrival or a refill
  FirstOrders,  \* quantities of the orders _init_orders places
  OrderSizes,   \* quantities of a new order
  ShipMax,      \* most a shipment takes for one order (3)
  MaxCycle,     \* bound: production cycles of a run
  MaxEvents,    \* bound: events of EVENT-GEN
  MaxRefills,   \* bound: refills by _apply_dynamics
  MaxServed     \* bound: snapshots taken by the API

ASSUME FactoryAssumption ==
  /\ NumStations \in Nat \ {0}
  /\ EnumYields \in BOOLEAN
  /\ NumMaterials \in Nat
  /\ Consumption \in [1..NumMaterials -> SUBSET Nat]
  /\ SafetyStock \in Nat /\ InitialStock \in Nat
  /\ Arrivals \subseteq Nat
  /\ FirstOrders \in Seq(Nat)
  /\ OrderSizes \subseteq Nat
  /\ ShipMax \in Nat \ {0}
  /\ MaxCycle \in Nat /\ MaxEvents \in Nat /\ MaxRefills \in Nat
  /\ MaxServed \in Nat

VARIABLES
  pc,             \* where ENV-TICK stands
  k,              \* its loop index over stations, orders or materials
  cycle,          \* Factory.cycle; also the number of products started
  status,         \* ProductStatus of the product of this cycle
  state,          \* MachineState of each station
  total_cycles,   \* WorkCenter.total_cycles
  good_count,     \* WorkCenter.good_count
  defect_count,   \* WorkCenter.defect_count
  held,           \* history: products put on HOLD in front of each station
  failure_count,  \* WorkCenter.failure_count
  repaired,       \* history: complete_repair calls of each station
  scrap_count, rework_count, fg_stock, total_produced,   \* Factory
  orders,         \* Factory.orders: [quantity, delivered]
  stock,          \* Material.stock
  left,           \* what _consume_materials computed and is about to store
  arrived, used,  \* history: amounts added to each material (but for those a
                  \* pending write overwrites) and taken from it
  refills,        \* history: number of refills
  draft,          \* totals a running get_snapshot has read, per reader
  snapshot,       \* the latest snapshot: the agents' cache, the API's answer
  served,         \* history: snapshots the API has taken
  ev,             \* EVENT-GEN: [pc, station] of a breakdown being decided
  events          \* history: number of events

stationVars == <<state, total_cycles, good_count, defect_count, held,
                 failure_count, repaired>>
productVars == <<cycle, status, scrap_count, rework_count, fg_stock,
                 total_produced>>
materialVars == <<stock, left, arrived, used, refills>>
snapVars == <<draft, snapshot, served>>
eventVars == <<ev, events>>
vars == <<pc, k, stationVars, productVars, orders, materialVars, snapVars,
          eventVars>>

StationIds == 1..NumStations
MaterialIds == 1..NumMaterials
\* The states a machine really gets into: nobody calls start_setup, and no
\* code sets MAINTENANCE.
MachineState == {"IDLE", "RUNNING", "BREAKDOWN", "WARMUP"}
ProductStatus == {"IN_PROCESS", "GOOD", "REWORK", "SCRAP", "HOLD"}
Readers == {"cache", "api"}

Order(q) == [quantity |-> q, delivered |-> 0]
Remaining(o) == IF o.quantity > o.delivered THEN o.quantity - o.delivered ELSE 0
IsComplete(o) == o.delivered >= o.quantity
SumDelivered(os) == SumFunction([i \in DOMAIN os |-> os[i].delivered])
SumRemaining(os) == SumFunction([i \in DOMAIN os |-> Remaining(os[i])])

\* An empty factory's snapshot.
NoTotals == [demand |-> 0, delivered |-> 0]
NoSnapshot == [demand |-> 0, delivered |-> 0, fg_stock |-> 0, produced |-> 0,
               listed |-> 0]

Init ==
  /\ pc = "tick" /\ k = 1
  /\ cycle = 0 /\ status = "GOOD"
  /\ state = [s \in StationIds |-> "IDLE"]
  /\ total_cycles = [s \in StationIds |-> 0]
  /\ good_count = [s \in StationIds |-> 0]
  /\ defect_count = [s \in StationIds |-> 0]
  /\ held = [s \in StationIds |-> 0]
  /\ failure_count = [s \in StationIds |-> 0]
  /\ repaired = [s \in StationIds |-> 0]
  /\ scrap_count = 0 /\ rework_count = 0 /\ fg_stock = 0 /\ total_produced = 0
  /\ orders = [i \in DOMAIN FirstOrders |-> Order(FirstOrders[i])]
  /\ stock = [m \in MaterialIds |-> InitialStock]
  /\ left = 0
  /\ arrived = [m \in MaterialIds |-> 0]
  /\ used = [m \in MaterialIds |-> 0]
  /\ refills = 0
  /\ draft = [r \in Readers |-> NoTotals]
  /\ snapshot = [r \in Readers |-> NoSnapshot]
  /\ served = 0
  /\ ev = [pc |-> "sleep", station |-> 1]
  /\ events = 0

-----------------------------------------------------------------------------
(* ENV-TICK: Factory.run_cycle.                                             *)

StartCycle ==
  /\ pc = "tick" /\ cycle < MaxCycle
  /\ cycle' = cycle + 1
  /\ status' = "IN_PROCESS"
  /\ k' = 1
  /\ pc' = "check"
  /\ UNCHANGED <<stationVars, scrap_count, rework_count, fg_stock,
                 total_produced, orders, materialVars, snapVars, eventVars>>

\* Mutant: a broken machine is passed by instead of ending the pass.
CheckStation_PassBy ==
  /\ pc = "check" /\ k <= NumStations
  /\ \/ /\ state[k] = "BREAKDOWN"
        /\ k' = k + 1
        /\ UNCHANGED pc
     \/ /\ state[k] # "BREAKDOWN"
        /\ pc' = "enter"
        /\ UNCHANGED k
  /\ UNCHANGED <<stationVars, productVars, orders, materialVars, snapVars,
                 eventVars>>

\* run_cycle looks at the station's state; a broken machine puts the product
\* on hold and ends the pass.
CheckStation ==
  /\ pc = "check" /\ k <= NumStations
  /\ \/ /\ state[k] = "BREAKDOWN"
        /\ status' = "HOLD"
        /\ held' = [held EXCEPT ![k] = @ + 1]
        /\ pc' = "finish"
     \/ /\ state[k] # "BREAKDOWN"
        /\ pc' = "enter"
        /\ UNCHANGED <<status, held>>
  /\ UNCHANGED <<k, cycle, state, total_cycles, good_count, defect_count,
                 failure_count, repaired, scrap_count, rework_count, fg_stock,
                 total_produced, orders, materialVars, snapVars, eventVars>>

\* execute_cycle stores RUNNING, reads the sensors and counts the cycle.
RunMachine ==
  /\ state' = [state EXCEPT ![k] = "RUNNING"]
  /\ total_cycles' = [total_cycles EXCEPT ![k] = @ + 1]
  /\ pc' = "judge"

\* Mutant: execute_cycle relies on its caller's look at the state.
EnterMachine_NoCheck ==
  /\ pc = "enter"
  /\ RunMachine
  /\ UNCHANGED <<k, good_count, defect_count, held, failure_count, repaired,
                 productVars, orders, materialVars, snapVars, eventVars>>

\* execute_cycle looks again: a machine that broke down meanwhile returns no
\* readings.
EnterMachine ==
  /\ pc = "enter"
  /\ \/ /\ state[k] = "BREAKDOWN"
        /\ pc' = "judge"
        /\ UNCHANGED <<state, total_cycles>>
     \/ /\ state[k] # "BREAKDOWN" /\ EnumYields
        /\ pc' = "run"
        /\ UNCHANGED <<state, total_cycles>>
     \/ /\ state[k] # "BREAKDOWN" /\ ~EnumYields
        /\ RunMachine
  /\ UNCHANGED <<k, good_count, defect_count, held, failure_count, repaired,
                 productVars, orders, materialVars, snapVars, eventVars>>

\* Where another thread can run between execute_cycle's check and its store.
EnteredMachine ==
  /\ pc = "run"
  /\ RunMachine
  /\ UNCHANGED <<k, good_count, defect_count, held, failure_count, repaired,
                 productVars, orders, materialVars, snapVars, eventVars>>

\* Mutant: a part to be reworked goes on (no break), and is not counted again.
JudgeQuality_NoBreak ==
  /\ pc = "judge"
  /\ \/ /\ good_count' = [good_count EXCEPT ![k] = @ + 1]
        /\ UNCHANGED <<defect_count, status, rework_count>>
     \/ /\ defect_count' = [defect_count EXCEPT ![k] = @ + 1]
        /\ status' = "REWORK"
        /\ rework_count' = IF status = "IN_PROCESS" THEN rework_count + 1
                                                   ELSE rework_count
        /\ UNCHANGED good_count
  /\ k' = k + 1
  /\ pc' = "check"
  /\ UNCHANGED <<cycle, state, total_cycles, held, failure_count, repaired,
                 scrap_count, fg_stock, total_produced, orders, materialVars,
                 snapVars, eventVars>>

\* _judge_quality and record_quality: a good part goes on to the next station,
\* a bad one is reworked or scrapped and ends the pass.
JudgeQuality ==
  /\ pc = "judge"
  /\ \/ /\ good_count' = [good_count EXCEPT ![k] = @ + 1]
        /\ k' = k + 1
        /\ pc' = "check"
        /\ UNCHANGED <<defect_count, status, scrap_count, rework_count>>
     \/ /\ defect_count' = [defect_count EXCEPT ![k] = @ + 1]
        /\ \/ /\ status' = "REWORK"
              /\ rework_count' = rework_count + 1
              /\ UNCHANGED scrap_count
           \/ /\ status' = "SCRAP"
              /\ scrap_count' = scrap_count + 1
              /\ UNCHANGED rework_count
        /\ pc' = "finish"
        /\ UNCHANGED <<good_count, k>>
  /\ UNCHANGED <<cycle, state, total_cycles, held, failure_count, repaired,
                 fg_stock, total_produced, orders, materialVars, snapVars,
                 eventVars>>

\* A product still in process after the last station is good and goes to the
\* warehouse; then _process_shipments.
FinishGood ==
  /\ pc = "check" /\ k > NumStations
  /\ status' = "GOOD"
  /\ fg_stock' = fg_stock + 1
  /\ total_produced' = total_produced + 1
  /\ k' = 1
  /\ pc' = "ship"
  /\ UNCHANGED <<stationVars, cycle, scrap_count, rework_count, orders,
                 materialVars, snapVars, eventVars>>

\* Any other product is not shipped.
FinishOther ==
  /\ pc = "finish"
  /\ k' = 1
  /\ pc' = "consume"
  /\ UNCHANGED <<stationVars, productVars, orders, materialVars, snapVars,
                 eventVars>>

\* Mutant: the shipment is not limited to what the order lacks.
ShipQty_NoRemaining(n, o) == IF n < fg_stock THEN n ELSE fg_stock

\* min(randint(1, 3), fg_stock, order.remaining)
ShipQty(n, o) ==
  LET most == IF n < fg_stock THEN n ELSE fg_stock
  IN  IF most < Remaining(o) THEN most ELSE Remaining(o)

\* _process_shipments, one order: complete ones and an empty warehouse are
\* passed over.  A new order may be appended behind the loop.
ShipNext ==
  /\ pc = "ship" /\ k <= Len(orders)
  /\ \/ /\ IsComplete(orders[k]) \/ fg_stock = 0
        /\ UNCHANGED <<orders, fg_stock>>
     \/ /\ ~IsComplete(orders[k]) /\ fg_stock > 0
        /\ \E n \in 1..ShipMax :
             /\ orders' = [orders EXCEPT ![k].delivered = @ + ShipQty(n, orders[k])]
             /\ fg_stock' = fg_stock - ShipQty(n, orders[k])
  /\ k' = k + 1
  /\ UNCHANGED <<pc, stationVars, cycle, status, scrap_count, rework_count,
                 total_produced, materialVars, snapVars, eventVars>>

ShipEnd ==
  /\ pc = "ship" /\ k > Len(orders)
  /\ k' = 1
  /\ pc' = "consume"
  /\ UNCHANGED <<stationVars, productVars, orders, materialVars, snapVars,
                 eventVars>>

\* _consume_materials, one material: the new stock is computed by a call ...
ConsumeRead ==
  /\ pc = "consume" /\ k <= NumMaterials
  /\ \E c \in Consumption[k] :
       /\ left' = IF stock[k] > c THEN stock[k] - c ELSE 0
       /\ used' = [used EXCEPT ![k] = @ + c]
  /\ pc' = "store"
  /\ UNCHANGED <<k, stationVars, productVars, orders, stock, arrived, refills,
                 snapVars, eventVars>>

\* ... and stored after it.
ConsumeWrite ==
  /\ pc = "store"
  /\ stock' = [stock EXCEPT ![k] = left]
  /\ k' = k + 1
  /\ pc' = "consume"
  /\ UNCHANGED <<stationVars, productVars, orders, left, arrived, used, refills,
                 snapVars, eventVars>>

ConsumeEnd ==
  /\ pc = "consume" /\ k > NumMaterials
  /\ pc' = "snapshot"
  /\ UNCHANGED <<k, stationVars, productVars, orders, materialVars, snapVars,
                 eventVars>>

-----------------------------------------------------------------------------
(* get_snapshot, run by ENV-TICK for the agents' cache and by the API.      *)

\* Mutant: only complete orders count as delivered.
SnapTotals_CompleteOnly(r) ==
  draft' = [draft EXCEPT ![r] =
    [demand |-> SumRemaining(orders),
     delivered |-> SumDelivered(SelectSeq(orders, IsComplete))]]

\* The totals over the orders are computed first ...
SnapTotals(r) ==
  draft' = [draft EXCEPT ![r] = [demand |-> SumRemaining(orders),
                                 delivered |-> SumDelivered(orders)]]

\* ... the stock, the counters and the list of the orders later.
SnapRest(r) ==
  snapshot' = [snapshot EXCEPT ![r] =
    [demand |-> draft[r].demand, delivered |-> draft[r].delivered,
     fg_stock |-> fg_stock, produced |-> total_produced,
     listed |-> SumRemaining(orders)]]

EnvSnapTotals ==
  /\ pc = "snapshot"
  /\ SnapTotals("cache")
  /\ pc' = "publish"
  /\ UNCHANGED <<k, stationVars, productVars, orders, materialVars, snapshot,
                 served, eventVars>>

\* The copy replaces the cached snapshot under _lock.
EnvPublish ==
  /\ pc = "publish"
  /\ SnapRest("cache")
  /\ k' = 1
  /\ pc' = "repair"
  /\ UNCHANGED <<stationVars, productVars, orders, materialVars, draft, served,
                 eventVars>>

\* The API takes its snapshot from the factory itself, at any time.
ApiSnapTotals ==
  /\ served < MaxServed
  /\ served % 2 = 0
  /\ SnapTotals("api")
  /\ served' = served + 1
  /\ UNCHANGED <<pc, k, stationVars, productVars, orders, materialVars, snapshot,
                 eventVars>>

ApiServe ==
  /\ served % 2 = 1
  /\ SnapRest("api")
  /\ served' = served + 1
  /\ UNCHANGED <<pc, k, stationVars, productVars, orders, materialVars, draft,
                 eventVars>>

-----------------------------------------------------------------------------
(* _apply_dynamics.                                                         *)

\* A broken machine is repaired with some probability.
RepairNext ==
  /\ pc = "repair" /\ k <= NumStations
  /\ \/ UNCHANGED <<state, repaired>>
     \/ /\ state[k] = "BREAKDOWN"
        /\ state' = [state EXCEPT ![k] = "WARMUP"]
        /\ repaired' = [repaired EXCEPT ![k] = @ + 1]
  /\ k' = k + 1
  /\ UNCHANGED <<pc, total_cycles, good_count, defect_count, held, failure_count,
                 productVars, orders, materialVars, snapVars, eventVars>>

RepairEnd ==
  /\ pc = "repair" /\ k > NumStations
  /\ k' = 1
  /\ pc' = "refill"
  /\ UNCHANGED <<stationVars, productVars, orders, materialVars, snapVars,
                 eventVars>>

\* A material below its safety stock may be refilled: decided first ...
RefillNext ==
  /\ pc = "refill" /\ k <= NumMaterials
  /\ \/ /\ k' = k + 1
        /\ UNCHANGED pc
     \/ /\ stock[k] < SafetyStock /\ refills < MaxRefills
        /\ pc' = "add"
        /\ UNCHANGED k
  /\ UNCHANGED <<stationVars, productVars, orders, materialVars, snapVars,
                 eventVars>>

\* Mutant: the quantity replaces the stock.
AddStock_Sets(m, q) ==
  /\ stock' = [stock EXCEPT ![m] = q]
  /\ arrived' = IF pc = "store" /\ k = m THEN arrived
                ELSE [arrived EXCEPT ![m] = @ + q]

\* mat.stock += qty, by ENV-TICK or by EVENT-GEN.
AddStock(m, q) ==
  /\ stock' = [stock EXCEPT ![m] = @ + q]
  /\ arrived' = IF pc = "store" /\ k = m THEN arrived
                ELSE [arrived EXCEPT ![m] = @ + q]

\* ... and added after the amount was drawn.
RefillAdd ==
  /\ pc = "add"
  /\ \E q \in Arrivals : AddStock(k, q)
  /\ refills' = refills + 1
  /\ k' = k + 1
  /\ pc' = "refill"
  /\ UNCHANGED <<stationVars, productVars, orders, left, used, snapVars,
                 eventVars>>

\* The rest of the loop, and the sleep until the next tick.
RefillEnd ==
  /\ pc = "refill" /\ k > NumMaterials
  /\ pc' = "tick"
  /\ UNCHANGED <<k, stationVars, productVars, orders, materialVars, snapVars,
                 eventVars>>

-----------------------------------------------------------------------------
(* EVENT-GEN.                                                               *)

\* breakdown: only a running machine; the repair time is drawn ...
BreakdownCheck(s) ==
  /\ ev.pc = "sleep" /\ events < MaxEvents
  /\ state[s] = "RUNNING"
  /\ ev' = [pc |-> "trigger", station |-> s]
  /\ UNCHANGED <<pc, k, stationVars, productVars, orders, materialVars, snapVars,
                 events>>

\* ... before trigger_breakdown.
TriggerBreakdown ==
  /\ ev.pc = "trigger"
  /\ state' = [state EXCEPT ![ev.station] = "BREAKDOWN"]
  /\ failure_count' = [failure_count EXCEPT ![ev.station] = @ + 1]
  /\ ev' = [ev EXCEPT !.pc = "sleep"]
  /\ events' = events + 1
  /\ UNCHANGED <<pc, k, total_cycles, good_count, defect_count, held, repaired,
                 productVars, orders, materialVars, snapVars>>

NewOrder(q) ==
  /\ ev.pc = "sleep" /\ events < MaxEvents
  /\ orders' = Append(orders, Order(q))
  /\ events' = events + 1
  /\ UNCHANGED <<pc, k, stationVars, productVars, materialVars, snapVars, ev>>

MaterialArrival(m, q) ==
  /\ ev.pc = "sleep" /\ events < MaxEvents
  /\ AddStock(m, q)
  /\ events' = events + 1
  /\ UNCHANGED <<pc, k, stationVars, productVars, orders, left, used, refills,
                 snapVars, ev>>

-----------------------------------------------------------------------------
RunCycle ==
  \/ StartCycle \/ CheckStation \/ EnterMachine \/ EnteredMachine \/ JudgeQuality
  \/ FinishGood \/ FinishOther \/ ShipNext \/ ShipEnd
  \/ ConsumeRead \/ ConsumeWrite \/ ConsumeEnd

ApplyDynamics == RepairNext \/ RepairEnd \/ RefillNext \/ RefillAdd \/ RefillEnd

Next ==
  \/ RunCycle \/ EnvSnapTotals \/ EnvPublish \/ ApplyDynamics
  \/ ApiSnapTotals \/ ApiServe
  \/ \E s \in StationIds : BreakdownCheck(s)
  \/ TriggerBreakdown
  \/ \E q \in OrderSizes : NewOrder(q)
  \/ \E m \in MaterialIds, q \in Arrivals : MaterialArrival(m, q)

Spec == Init /\ [][Next]_vars
-----------------------------------------------------------------------------
(* Properties.                                                              *)

LineSteps == {"check", "enter", "run", "judge"}
Steps == LineSteps \cup {"tick", "finish", "ship", "consume", "store", "snapshot",
                         "publish", "repair", "refill", "add"}

StationType ==
  /\ state \in [StationIds -> MachineState]
  /\ total_cycles \in [StationIds -> Nat]
  /\ good_count \in [StationIds -> Nat]
  /\ defect_count \in [StationIds -> Nat]
  /\ held \in [StationIds -> Nat]
  /\ failure_count \in [StationIds -> Nat]
  /\ repaired \in [StationIds -> Nat]

ProductType ==
  /\ cycle \in Nat /\ status \in ProductStatus
  /\ scrap_count \in Nat /\ rework_count \in Nat
  /\ fg_stock \in Nat /\ total_produced \in Nat

OrderType == [quantity : Nat, delivered : Nat]

MaterialType ==
  /\ stock \in [MaterialIds -> Nat]
  /\ left \in Nat
  /\ arrived \in [MaterialIds -> Nat] /\ used \in [MaterialIds -> Nat]
  /\ refills \in Nat

ThreadType ==
  /\ pc \in Steps /\ k \in Nat \ {0}
  /\ ev \in [pc : {"sleep", "trigger"}, station : StationIds]
  /\ served \in Nat /\ events \in Nat

\* The type of every variable.
TypeOK ==
  /\ StationType /\ ProductType /\ MaterialType /\ ThreadType
  /\ orders \in Seq(OrderType)

\* Where the loops stand and what the product's status is at each step.
StepInv ==
  /\ pc \in LineSteps => status = "IN_PROCESS"
  /\ pc \in {"enter", "run", "judge", "finish"} => k <= NumStations
  /\ pc = "check" => k <= NumStations + 1
  /\ pc \in {"store", "add"} => k <= NumMaterials
  /\ pc = "finish" => status \in {"REWORK", "SCRAP", "HOLD"}

\* 1 while the product of this cycle is at station i (or behind the last).
AtStation(i) == IF pc \in LineSteps /\ k = i THEN 1 ELSE 0

\* How many products have come as far as station i.
Reached(i) == IF i = 1 THEN cycle ELSE good_count[i - 1]

\* No product is lost or counted twice on the line: whatever reached a station
\* was judged good or bad there, held in front of it, or is there now, and
\* what passed the last one is in the production counter.
LineFlow ==
  /\ \A i \in StationIds :
       Reached(i) = good_count[i] + defect_count[i] + held[i] + AtStation(i)
  /\ good_count[NumStations] = total_produced + AtStation(NumStations + 1)

\* Every defect a station recorded became one scrapped or reworked product.
DefectsSettled == SumFunction(defect_count) = scrap_count + rework_count

\* Every good product is in the warehouse or was delivered to one order.
ShipmentsConserved == total_produced = fg_stock + SumDelivered(orders)

\* No order gets more than its quantity, however the shipments are cut.
NoOverDelivery == \A i \in DOMAIN orders : orders[i].delivered <= orders[i].quantity

\* Shipments neither lose nor invent a product, for the stock as a whole and for
\* each order, while EVENT-GEN appends to the list that is being walked.
ShipmentsSound == ShipmentsConserved /\ NoOverDelivery

\* EVENT-GEN decides on a breakdown before it draws the repair time; when it
\* then stops the machine, that machine is still running: none is broken twice.
BreakdownHitsRunning == ev.pc = "trigger" => state[ev.station] = "RUNNING"

\* Every failure that was counted was repaired, or the machine still stands.
FailuresRepaired ==
  \A s \in StationIds :
    failure_count[s] = repaired[s] + (IF state[s] = "BREAKDOWN" THEN 1 ELSE 0)

\* The snapshot the agents read balances: nothing ships between its totals and
\* its counters, as ENV-TICK takes it between two cycles.  The one the API
\* takes at any moment may miss deliveries, but never shows more products than
\* were made.
SnapshotsBalanced ==
  LET seen(r) == snapshot[r].fg_stock + snapshot[r].delivered
  IN  /\ snapshot["cache"].produced = seen("cache")
      /\ snapshot["api"].produced >= seen("api")

\* An arrival of EVENT-GEN is lost only when it falls between the read and the
\* write of _consume_materials for the same material: apart from those (not
\* counted in arrived), the stock never falls below what came in less what
\* production asked for.
ArrivalsInStock ==
  pc = "tick" => \A m \in MaterialIds :
    stock[m] + used[m] >= InitialStock + arrived[m]
=============================================================================
