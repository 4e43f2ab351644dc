----------------------------- MODULE ScenarioEnv -----------------------------
(***************************************************************************)
(* A scenario run (run_scenario.py, mas/runtime/scenario_runtime.py): the   *)
(* factory, the finished goods warehouse (inventory.py) and the customers'  *)
(* demand (demand.py) joined by ManufacturingEnvironment.                   *)
(*                                                                         *)
(* SC-ENV produces, books good parts into the warehouse, ships to the open  *)
(* orders and publishes a snapshot; SC-EVENT places new orders, one in the  *)
(* factory's list and one in the demand's; the main thread polls the cycle  *)
(* count, clears _running without joining anybody, and then reads the       *)
(* results from objects SC-ENV may still be writing.  A step ends where the *)
(* interpreter may switch threads.                                          *)
(*                                                                         *)
(* The other events and the machines are those of FactoryLine and Machine:  *)
(* here a cycle's part is good or not, whichever.  Customers, due dates and *)
(* priorities are not read by anything modelled.                            *)
(***************************************************************************)
EXTENDS Integers, Sequences, FiniteSets, Functions, FiniteSetsExt

CONSTANTS
  Yaml,          \* what the scenario file says, a record of Fields
  Cycles,        \* --cycles of the command line (0: the file's value)
  SafetyFormula, \* round(z * sqrt(LT * sd^2 + d^2 * sLT^2)) of the scenario
  FactoryOrders, \* quantities of the orders Factory._init_orders places
  ShipMax,       \* most a factory shipment takes for one order (3)
  OrderSizes,    \* quantities of a new order
  MaxCycle,      \* bound: production cycles
  MaxOrders      \* bound: new orders

Fields == {"stock", "shipment_interval", "shipment_batch_size",
           "initial_orders", "max_cycles"}

ASSUME ScenarioAssumption ==
  /\ DOMAIN Yaml \subseteq Fields
  /\ \A f \in DOMAIN Yaml :
       Yaml[f] \in (CASE f = "stock" -> Nat
                     [] f = "initial_orders" -> Seq(Nat)
                     [] OTHER -> Int)
  /\ Cycles \in Nat /\ SafetyFormula \in Nat
  /\ FactoryOrders \in Seq(Nat)
  /\ ShipMax \in Nat \ {0}
  /\ OrderSizes \subseteq Nat
  /\ MaxCycle \in Nat /\ MaxOrders \in Nat

VARIABLES
  env,          \* SC-ENV: [pc, i, open, qty]
  running,      \* AgentRuntime._running
  cycle,        \* Factory.cycle
  produced,     \* Factory.total_produced
  fg_stock,     \* Factory.fg_stock
  orders,       \* Factory.orders: [quantity, delivered]
  stock, total_requested, total_shipped, stock_history,  \* the warehouse
  demand,       \* DemandModel.orders: [quantity, fulfilled, status]
  breaches,     \* AgentRuntime._ss_breach_cycles
  snapshot,     \* AgentRuntime._snapshot
  total_cycles, \* AgentRuntime.total_cycles
  ev,           \* SC-EVENT: [pc, qty]
  placed,       \* history: new orders placed
  main,         \* the main thread: [pc, interrupted]
  results       \* what get_results has read so far

warehouseVars == <<stock, total_requested, total_shipped, stock_history>>
factoryVars == <<cycle, produced, fg_stock, orders>>
mainVars == <<main, results>>
eventVars == <<ev, placed>>
vars == <<env, running, factoryVars, warehouseVars, demand, breaches, snapshot,
          total_cycles, eventVars, mainVars>>

-----------------------------------------------------------------------------
(* The scenario file and the environment built from it.                     *)

Defaults == [stock |-> 120, shipment_interval |-> 2, shipment_batch_size |-> 3,
             initial_orders |-> <<500, 300>>, max_cycles |-> 0]

\* ScenarioConfig._from_dict: what the file leaves out, and an empty list of
\* orders, is replaced by the default.
Config ==
  [f \in Fields |->
     IF f \in DOMAIN Yaml /\ ~(f = "initial_orders" /\ Yaml[f] = << >>)
     THEN Yaml[f] ELSE Defaults[f]]

\* run_scenario: the command line first, then the file, then 100.
TargetCycles ==
  CASE Cycles > 0 -> Cycles
    [] Cycles <= 0 /\ Config.max_cycles > 0 -> Config.max_cycles
    [] OTHER -> 100

\* recalculate_safety_stock never goes below 5, whatever the formula gives.
SafetyStock == Max({5, SafetyFormula})

Interval == Max({1, Config.shipment_interval})

DemandOrder(q) == [quantity |-> q, fulfilled |-> 0, status |-> "OPEN"]
FactoryOrder(q) == [quantity |-> q, delivered |-> 0]
NoSnapshot == [cycle |-> 0, stock |-> 0]
NoResults == [cycles |-> 0, stock |-> 0, level |-> [shipped |-> 0, requested |-> 0],
              shipped |-> 0, requested |-> 0, breaches |-> 0]

\* ManufacturingEnvironment builds the factory and its warehouse ...
EnvironmentInit ==
  /\ cycle = 0 /\ produced = 0 /\ fg_stock = 0
  /\ orders = [i \in DOMAIN FactoryOrders |-> FactoryOrder(FactoryOrders[i])]
  /\ stock = Config.stock
  /\ total_requested = 0 /\ total_shipped = 0 /\ stock_history = << >>

\* ... run_scenario places the customers' orders ...
DemandInit ==
  demand = [i \in DOMAIN Config.initial_orders |-> DemandOrder(Config.initial_orders[i])]

\* ... and the runtime starts its threads.
StartThreads ==
  /\ running = TRUE
  /\ env = [pc |-> "loop", i |-> 1, open |-> {}, qty |-> 0]
  /\ ev = [pc |-> "sleep", qty |-> 0] /\ placed = 0

Init ==
  /\ EnvironmentInit /\ DemandInit /\ StartThreads
  /\ breaches = 0 /\ snapshot = NoSnapshot /\ total_cycles = 0
  /\ main = [pc |-> "poll", interrupted |-> FALSE] /\ results = NoResults

-----------------------------------------------------------------------------
(* SC-ENV: _env_loop.                                                       *)

EnvAt(p) == env.pc = p
EnvTo(p) == env' = [env EXCEPT !.pc = p, !.i = 1]

\* while self._running
EnvLoop ==
  /\ EnvAt("loop")
  /\ \/ running /\ cycle < MaxCycle /\ EnvTo("cycle")
     \/ ~running /\ EnvTo("done")
  /\ UNCHANGED <<running, factoryVars, warehouseVars, demand, breaches,
                 snapshot, total_cycles, eventVars, mainVars>>

\* Factory.run_cycle: a part is finished or held, reworked, scrapped.
RunCycle ==
  /\ EnvAt("cycle")
  /\ cycle' = cycle + 1
  /\ \/ /\ fg_stock' = fg_stock + 1 /\ produced' = produced + 1
        /\ EnvTo("deliver")
     \/ UNCHANGED <<fg_stock, produced>> /\ EnvTo("ship")
  /\ UNCHANGED <<running, orders, warehouseVars, demand, breaches, snapshot,
                 total_cycles, eventVars, mainVars>>

\* Factory._process_shipments, one order per step; SC-EVENT may append to the
\* list while it is walked.
DeliverFactoryOrder ==
  /\ EnvAt("deliver") /\ env.i \in DOMAIN orders
  /\ LET o == orders[env.i]
         left == o.quantity - o.delivered
     IN  \/ /\ left <= 0 \/ fg_stock = 0
            /\ UNCHANGED <<fg_stock, orders>>
         \/ /\ left > 0 /\ fg_stock > 0
            /\ \E n \in 1..ShipMax :
                 LET ship == Min({n, fg_stock, left})
                 IN  /\ orders' = [orders EXCEPT ![env.i].delivered = @ + ship]
                     /\ fg_stock' = fg_stock - ship
  /\ env' = [env EXCEPT !.i = @ + 1]
  /\ UNCHANGED <<running, cycle, produced, warehouseVars, demand, breaches,
                 snapshot, total_cycles, eventVars, mainVars>>

FactoryDelivered ==
  /\ EnvAt("deliver") /\ env.i \notin DOMAIN orders
  /\ EnvTo("receive")
  /\ UNCHANGED <<running, factoryVars, warehouseVars, demand, breaches,
                 snapshot, total_cycles, eventVars, mainVars>>

\* Mutant: the part stays counted in the factory as well.
OnGoodFinishedUnit_KeepsBoth ==
  /\ EnvAt("receive")
  /\ stock' = stock + 1
  /\ EnvTo("ship")
  /\ UNCHANGED <<running, factoryVars, total_requested, total_shipped,
                 stock_history, demand, breaches, snapshot, total_cycles,
                 eventVars, mainVars>>

\* on_good_finished_unit: the part is received by the warehouse, and taken out
\* of the factory's count if it is still there.
OnGoodFinishedUnit ==
  /\ EnvAt("receive")
  /\ stock' = stock + 1
  /\ fg_stock' = IF fg_stock > 0 THEN fg_stock - 1 ELSE fg_stock
  /\ EnvTo("ship")
  /\ UNCHANGED <<running, cycle, produced, orders, total_requested,
                 total_shipped, stock_history, demand, breaches, snapshot,
                 total_cycles, eventVars, mainVars>>

OpenOrders == {i \in DOMAIN demand : demand[i].status \in {"OPEN", "PARTIAL"}}

\* process_shipments, every Interval cycles, over a copy of the open orders, in
\* the order of the list: env.open holds those still to be served.
BeginShipments ==
  /\ EnvAt("ship")
  /\ \/ cycle % Interval # 0 /\ EnvTo("record")
     \/ /\ cycle % Interval = 0
        /\ env' = [env EXCEPT !.pc = "orders", !.i = 1, !.open = OpenOrders]
  /\ UNCHANGED <<running, factoryVars, warehouseVars, demand, breaches,
                 snapshot, total_cycles, eventVars, mainVars>>

\* FinishedGoodsWarehouse.ship: what is there, and the shortfall is recorded
\* by requesting more than was shipped.
WarehouseShip(qty) ==
  LET actual == Min({qty, stock})
  IN  /\ stock' = stock - actual
      /\ total_requested' = total_requested + qty
      /\ total_shipped' = total_shipped + actual

Remaining(o) == Max({0, o.quantity - o.fulfilled})

\* Mutant: a whole batch is requested however little an order still needs.
BatchFor_Whole(o) == Config.shipment_batch_size

BatchFor(o) == Min({Config.shipment_batch_size, Remaining(o)})

\* The next order of the copy: nothing for an order without remainder.
ShipOrder ==
  /\ EnvAt("orders") /\ env.open # {}
  /\ LET o == demand[Min(env.open)]
     IN  \/ /\ BatchFor(o) <= 0
            /\ env' = [env EXCEPT !.open = @ \ {Min(env.open)}]
            /\ UNCHANGED <<stock, total_requested, total_shipped>>
         \/ /\ BatchFor(o) > 0
            /\ WarehouseShip(BatchFor(o))
            /\ env' = [env EXCEPT !.pc = "credit", !.qty = BatchFor(o)]
  /\ UNCHANGED <<running, factoryVars, stock_history, demand, breaches,
                 snapshot, total_cycles, eventVars, mainVars>>

\* CustomerOrder.ship: the order is credited with what was requested; what
\* the warehouse really shipped is not looked at.
Credited(o, qty) ==
  LET f == o.fulfilled + Min({qty, Remaining(o)})
  IN  [quantity |-> o.quantity, fulfilled |-> f,
       status |-> CASE f >= o.quantity -> "FULFILLED"
                    [] f > 0 /\ f < o.quantity -> "PARTIAL"
                    [] OTHER -> o.status]

CreditOrder ==
  /\ EnvAt("credit")
  /\ demand' = [demand EXCEPT ![Min(env.open)] = Credited(@, env.qty)]
  /\ env' = [env EXCEPT !.pc = "orders", !.open = @ \ {Min(env.open)}, !.qty = 0]
  /\ UNCHANGED <<running, factoryVars, warehouseVars, breaches, snapshot,
                 total_cycles, eventVars, mainVars>>

EndShipments ==
  /\ EnvAt("orders") /\ env.open = {}
  /\ EnvTo("record")
  /\ UNCHANGED <<running, factoryVars, warehouseVars, demand, breaches,
                 snapshot, total_cycles, eventVars, mainVars>>

\* record_snapshot appends to the warehouse's history ...
RecordSnapshot ==
  /\ EnvAt("record")
  /\ stock_history' = Append(stock_history, stock)
  /\ EnvTo("breach")
  /\ UNCHANGED <<running, factoryVars, stock, total_requested, total_shipped,
                 demand, breaches, snapshot, total_cycles, eventVars, mainVars>>

\* ... and ss_breach is counted.
CountBreach ==
  /\ EnvAt("breach")
  /\ breaches' = IF stock < SafetyStock THEN breaches + 1 ELSE breaches
  /\ EnvTo("publish")
  /\ UNCHANGED <<running, factoryVars, warehouseVars, demand, snapshot,
                 total_cycles, eventVars, mainVars>>

\* Mutant: the factory's own count of finished goods is published.
Publish_FactoryStock ==
  /\ EnvAt("publish")
  /\ snapshot' = [cycle |-> cycle, stock |-> fg_stock]
  /\ EnvTo("count")
  /\ UNCHANGED <<running, factoryVars, warehouseVars, demand, breaches,
                 total_cycles, eventVars, mainVars>>

\* get_merged_snapshot replaces the factory's stock by the warehouse's; the
\* snapshot is stored under the lock.
Publish ==
  /\ EnvAt("publish")
  /\ snapshot' = [cycle |-> cycle, stock |-> stock]
  /\ EnvTo("count")
  /\ UNCHANGED <<running, factoryVars, warehouseVars, demand, breaches,
                 total_cycles, eventVars, mainVars>>

\* Mutant: the counter the main thread polls is not advanced.
CountCycle_Forgotten ==
  /\ EnvAt("count")
  /\ EnvTo("loop")
  /\ UNCHANGED <<running, factoryVars, warehouseVars, demand, breaches,
                 snapshot, total_cycles, eventVars, mainVars>>

CountCycle ==
  /\ EnvAt("count")
  /\ total_cycles' = cycle
  /\ EnvTo("loop")
  /\ UNCHANGED <<running, factoryVars, warehouseVars, demand, breaches,
                 snapshot, eventVars, mainVars>>

EnvNext ==
  \/ EnvLoop \/ RunCycle \/ DeliverFactoryOrder \/ FactoryDelivered
  \/ OnGoodFinishedUnit \/ BeginShipments \/ ShipOrder \/ CreditOrder
  \/ EndShipments \/ RecordSnapshot \/ CountBreach \/ Publish \/ CountCycle

-----------------------------------------------------------------------------
(* SC-EVENT: _event_loop.                                                   *)

\* A new order enters the factory's list ...
NewFactoryOrder ==
  /\ ev.pc = "sleep" /\ running /\ placed < MaxOrders
  /\ \E q \in OrderSizes :
       /\ orders' = Append(orders, FactoryOrder(q))
       /\ ev' = [pc |-> "demand", qty |-> q]
  /\ placed' = placed + 1
  /\ UNCHANGED <<env, running, cycle, produced, fg_stock, warehouseVars, demand,
                 breaches, snapshot, total_cycles, mainVars>>

\* ... and then the demand's, whether or not the run has been stopped.
NewDemandOrder ==
  /\ ev.pc = "demand"
  /\ demand' = Append(demand, DemandOrder(ev.qty))
  /\ ev' = [pc |-> "sleep", qty |-> 0]
  /\ UNCHANGED <<env, running, factoryVars, warehouseVars, breaches, snapshot,
                 total_cycles, placed, mainVars>>

EventLoopEnds ==
  /\ ev.pc = "sleep" /\ ~running
  /\ ev' = [ev EXCEPT !.pc = "done"]
  /\ UNCHANGED <<env, running, factoryVars, warehouseVars, demand, breaches,
                 snapshot, total_cycles, placed, mainVars>>

EventNext == NewFactoryOrder \/ NewDemandOrder \/ EventLoopEnds

-----------------------------------------------------------------------------
(* The main thread: run_scenario and get_results.                           *)

MainStep == UNCHANGED <<env, factoryVars, warehouseVars, demand, breaches,
                        snapshot, total_cycles, eventVars>>

\* The poll every half second finds the cycles done ...
PollDone ==
  /\ main.pc = "poll" /\ total_cycles >= TargetCycles
  /\ main' = [main EXCEPT !.pc = "stop"]
  /\ MainStep /\ UNCHANGED <<running, results>>

\* ... or the user interrupts it.
Interrupt ==
  /\ main.pc = "poll"
  /\ main' = [pc |-> "stop", interrupted |-> TRUE]
  /\ MainStep /\ UNCHANGED <<running, results>>

\* Mutant: the results are read while the runtime goes on.
Stop_Forgotten ==
  /\ main.pc = "stop"
  /\ main' = [main EXCEPT !.pc = "totals"]
  /\ MainStep /\ UNCHANGED <<running, results>>

\* runtime.stop() clears the flag; no thread is joined.
Stop ==
  /\ main.pc = "stop"
  /\ running' = FALSE
  /\ main' = [main EXCEPT !.pc = "totals"]
  /\ MainStep /\ UNCHANGED results

\* get_results: the totals, ...
ReadTotals ==
  /\ main.pc = "totals"
  /\ results' = [results EXCEPT !.cycles = total_cycles]
  /\ main' = [main EXCEPT !.pc = "stock"]
  /\ MainStep /\ UNCHANGED running

\* ... then the stock, ...
ReadStock ==
  /\ main.pc = "stock"
  /\ results' = [results EXCEPT !.stock = stock]
  /\ main' = [main EXCEPT !.pc = "level"]
  /\ MainStep /\ UNCHANGED running

\* ... the service level, a property that is computed on the way, ...
ReadServiceLevel ==
  /\ main.pc = "level"
  /\ results' = [results EXCEPT !.level = [shipped |-> total_shipped,
                                           requested |-> total_requested]]
  /\ main' = [main EXCEPT !.pc = "rest"]
  /\ MainStep /\ UNCHANGED running

\* ... and the counts it was computed from, with the breaches.
ReadCounts ==
  /\ main.pc = "rest"
  /\ results' = [results EXCEPT !.shipped = total_shipped,
                                !.requested = total_requested,
                                !.breaches = breaches]
  /\ main' = [main EXCEPT !.pc = "written"]
  /\ MainStep /\ UNCHANGED running

MainRuns == PollDone \/ Stop \/ ReadTotals \/ ReadStock \/ ReadServiceLevel
            \/ ReadCounts

MainNext == MainRuns \/ Interrupt

Next == EnvNext \/ EventNext \/ MainNext

Spec == Init /\ [][Next]_vars

\* Every thread that can go on does: they sleep for bounded times and hold the
\* snapshot lock for one assignment.  Orders and interrupts need not come.
Fairness ==
  /\ WF_vars(EnvNext)
  /\ WF_vars(NewDemandOrder \/ EventLoopEnds)
  /\ WF_vars(MainRuns)

FairSpec == Spec /\ Fairness

-----------------------------------------------------------------------------
Fulfilled == SumFunction([i \in DOMAIN demand |-> demand[i].fulfilled])

EnvSteps == {"loop", "cycle", "deliver", "receive", "ship", "orders", "credit",
             "record", "breach", "publish", "count", "done"}
MainSteps == {"poll", "stop", "totals", "stock", "level", "rest", "written"}
FactoryOrderType == [quantity : Nat, delivered : Nat]
DemandOrderType == [quantity : Nat, fulfilled : Nat,
                    status : {"OPEN", "PARTIAL", "FULFILLED"}]
LevelType == [shipped : Nat, requested : Nat]

EnvType ==
  /\ env \in [pc : EnvSteps, i : Nat, open : SUBSET Nat, qty : Nat]
  /\ env.open \subseteq DOMAIN demand

FactoryType ==
  /\ cycle \in Nat /\ produced \in Nat /\ fg_stock \in Nat
  /\ orders \in Seq(FactoryOrderType)

WarehouseType ==
  /\ stock \in Nat /\ total_requested \in Nat /\ total_shipped \in Nat
  /\ stock_history \in Seq(Nat)

RuntimeType ==
  /\ running \in BOOLEAN /\ breaches \in Nat /\ total_cycles \in Nat
  /\ snapshot \in [cycle : Nat, stock : Nat]
  /\ ev \in [pc : {"sleep", "demand", "done"}, qty : Nat] /\ placed \in Nat

MainType ==
  /\ main \in [pc : MainSteps, interrupted : BOOLEAN]
  /\ results \in [cycles : Nat, stock : Nat, level : LevelType, shipped : Nat,
                   requested : Nat, breaches : Nat]

TypeOK == /\ EnvType /\ FactoryType /\ WarehouseType /\ RuntimeType /\ MainType
          /\ demand \in Seq(DemandOrderType)

\* Every good part is in exactly one of the two counts of finished goods:
\* after on_good_finished_unit the factory's is empty again, whatever
\* _process_shipments delivered in between, and the warehouse holds what it
\* started with and received, less what it shipped.
GoodsBooked ==
  /\ env.pc \notin {"deliver", "receive"} =>
       /\ fg_stock = 0
       /\ stock + total_shipped = Config.stock + produced
  /\ env.pc \in {"deliver", "receive"} =>
       stock + total_shipped + 1 = Config.stock + produced

\* What the warehouse was asked for is what the customers' orders were
\* credited with, to the unit and also while new orders arrive: a shipment
\* beyond an order's remainder would be requested and never credited, and no
\* order is shipped after it is fulfilled.
RequestedIsCredited ==
  /\ total_requested = Fulfilled + env.qty
  /\ \A i \in DOMAIN demand :
       /\ demand[i].fulfilled <= demand[i].quantity
       /\ demand[i].quantity > 0 =>
            demand[i].status = (CASE demand[i].fulfilled = demand[i].quantity -> "FULFILLED"
                                  [] demand[i].fulfilled = 0 -> "OPEN"
                                  [] OTHER -> "PARTIAL")

\* The breach counter agrees with the recorded history: it counts exactly the
\* cycles whose recorded stock was under the safety stock.
BreachesMatchHistory ==
  env.pc # "breach" =>
    breaches = Cardinality({i \in DOMAIN stock_history :
                              stock_history[i] < SafetyStock})

\* The snapshot the agents decide from shows the finished goods the warehouse
\* recorded for that very cycle.
SnapshotMatchesHistory ==
  snapshot # NoSnapshot =>
    /\ snapshot.cycle \in DOMAIN stock_history
    /\ snapshot.stock = stock_history[snapshot.cycle]

\* What the runtime keeps about the warehouse (types, the breach counter, the
\* published snapshot) agrees with the recorded history.
RecordsAgree == TypeOK /\ BreachesMatchHistory /\ SnapshotMatchesHistory

\* The written results may mix two moments, since SC-ENV finishes its cycle
\* after stop(); they still never lose a unit, never show more shipped than
\* requested, and count breaches of at most one cycle beyond the ones they
\* report.
ResultsCoherent ==
  main.pc = "written" =>
    /\ results.stock + results.shipped >= Config.stock
    /\ results.shipped <= results.requested
    /\ results.level.requested <= results.requested
    /\ results.breaches <= results.cycles + 1
    /\ ~main.interrupted => results.cycles >= TargetCycles

\* Every run ends by itself, also without an interrupt: the target is reached,
\* the results get written, and both loops see the cleared flag and stop.
RunEnds ==
  <>[](main.pc = "written" /\ env.pc = "done" /\ ev.pc = "done")
=============================================================================
