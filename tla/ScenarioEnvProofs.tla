-------------------------- MODULE ScenarioEnvProofs --------------------------
(***************************************************************************)
(* Proofs about ScenarioEnv for every scenario file, list of orders and     *)
(* bound: the two counts of finished goods, the ledger of the customers'    *)
(* orders, the recorded history and the results of a run.                   *)
(***************************************************************************)
EXTENDS ScenarioEnv, SumLemmas, SequenceTheorems, TLAPS

-----------------------------------------------------------------------------
(* The least and the greatest of a few numbers.                             *)

LEMMA MinTwo == \A a, b \in Int : Min({a, b}) = IF a <= b THEN a ELSE b
<1> TAKE a, b \in Int
<1> DEFINE m == IF a <= b THEN a ELSE b
<1>1. m \in {a, b} /\ \A y \in {a, b} : m <= y
  OBVIOUS
<1>2. \A x \in {a, b} : (\A y \in {a, b} : x <= y) => x = m
  OBVIOUS
<1>3. Min({a, b}) = CHOOSE x \in {a, b} : \A y \in {a, b} : x <= y
  BY DEF Min
<1> HIDE DEF m
<1>4. Min({a, b}) = m
  BY <1>1, <1>2, <1>3
<1> QED BY <1>4 DEF m

LEMMA MaxTwo == \A a, b \in Int : Max({a, b}) = IF a >= b THEN a ELSE b
<1> TAKE a, b \in Int
<1> DEFINE m == IF a >= b THEN a ELSE b
<1>1. m \in {a, b} /\ \A y \in {a, b} : m >= y
  OBVIOUS
<1>2. \A x \in {a, b} : (\A y \in {a, b} : x >= y) => x = m
  OBVIOUS
<1>3. Max({a, b}) = CHOOSE x \in {a, b} : \A y \in {a, b} : x >= y
  BY DEF Max
<1> HIDE DEF m
<1>4. Max({a, b}) = m
  BY <1>1, <1>2, <1>3
<1> QED BY <1>4 DEF m

\* The least of three positive numbers, as _process_shipments takes it.
LEMMA MinThree ==
  \A a, b, c \in Nat : /\ Min({a, b, c}) \in Nat
                       /\ Min({a, b, c}) <= a /\ Min({a, b, c}) <= b
                       /\ Min({a, b, c}) <= c
                       /\ Min({a, b, c}) \in {a, b, c}
<1> TAKE a, b, c \in Nat
<1>1. PICK m \in {a, b, c} : \A y \in {a, b, c} : m <= y
  BY LeastNat
<1>2. /\ Min({a, b, c}) \in {a, b, c}
      /\ \A y \in {a, b, c} : Min({a, b, c}) <= y
  BY <1>1 DEF Min
<1> QED BY <1>2

\* The next order of the copy is one of it.
LEMMA MinIn == \A S \in SUBSET Nat : S # {} => Min(S) \in S
<1> SUFFICES ASSUME NEW S \in SUBSET Nat, S # {} PROVE Min(S) \in S
  OBVIOUS
<1>1. \E x \in S : \A y \in S : x <= y
  BY LeastNat
<1> QED BY <1>1 DEF Min

-----------------------------------------------------------------------------
(* The configuration.                                                       *)

\* What the scenario file and the defaults give has the right type.
LEMMA ConfigType ==
  /\ Config.stock \in Nat /\ Config.shipment_batch_size \in Int
  /\ Config.shipment_interval \in Int /\ Config.max_cycles \in Int
  /\ Config.initial_orders \in Seq(Nat)
<1>1. Config.stock \in Nat
  BY ScenarioAssumption DEF Config, Fields, Defaults
<1>2. /\ Config.shipment_batch_size \in Int
      /\ Config.shipment_interval \in Int /\ Config.max_cycles \in Int
  BY ScenarioAssumption DEF Config, Fields, Defaults
<1>3. Config.initial_orders \in Seq(Nat)
  <2>1. Defaults.initial_orders = <<500, 300>> /\ <<500, 300>> \in Seq(Nat)
    BY DEF Defaults
  <2>2. "initial_orders" \in Fields
    BY DEF Fields
  <2>3. \/ Config.initial_orders = Defaults.initial_orders
        \/ /\ "initial_orders" \in DOMAIN Yaml
           /\ Config.initial_orders = Yaml["initial_orders"]
    BY <2>2 DEF Config
  <2>4. "initial_orders" \in DOMAIN Yaml => Yaml["initial_orders"] \in Seq(Nat)
    BY ScenarioAssumption
  <2> QED BY <2>1, <2>3, <2>4
<1> QED BY <1>1, <1>2, <1>3

LEMMA TargetType == TargetCycles \in Int /\ SafetyStock \in Int
<1>1. TargetCycles \in Int
  BY ConfigType, ScenarioAssumption DEF TargetCycles
<1>2. SafetyStock \in Int
  <2>1. SafetyFormula \in Int /\ 5 \in Int
    BY ScenarioAssumption
  <2>2. Max({5, SafetyFormula}) = IF 5 >= SafetyFormula THEN 5 ELSE SafetyFormula
    BY ONLY <2>1, MaxTwo
  <2> QED BY <2>1, <2>2 DEF SafetyStock
<1> QED BY <1>1, <1>2

-----------------------------------------------------------------------------
(* Types.                                                                   *)

\* A function on 1..n is a sequence.
LEMMA FunctionIsSeq ==
  \A S : \A n \in Nat : \A f \in [1..n -> S] : f \in Seq(S)
  BY SeqDef

LEMMA TypeInit == Init => TypeOK
<1> SUFFICES ASSUME Init PROVE TypeOK
  OBVIOUS
<1> USE DEF Init, EnvironmentInit, DemandInit, StartThreads
<1>1. demand \in Seq(DemandOrderType)
  <2>1. /\ Config.initial_orders \in [1..Len(Config.initial_orders) -> Nat]
        /\ Len(Config.initial_orders) \in Nat
    BY ConfigType
  <2>2. demand \in [1..Len(Config.initial_orders) -> DemandOrderType]
    BY <2>1 DEF DemandOrder, DemandOrderType
  <2> HIDE DEF Init, DemandInit
  <2> QED BY <2>1, <2>2, FunctionIsSeq
<1>2. FactoryType
  <2>1. FactoryOrders \in [1..Len(FactoryOrders) -> Nat] /\ Len(FactoryOrders) \in Nat
    BY ScenarioAssumption
  <2>2. orders \in [1..Len(FactoryOrders) -> FactoryOrderType]
    BY <2>1 DEF FactoryOrder, FactoryOrderType
  <2>3. orders \in Seq(FactoryOrderType)
    BY <2>1, <2>2, FunctionIsSeq
  <2> QED BY <2>3 DEF FactoryType
<1>3. EnvType
  BY DEF EnvType, EnvSteps
<1>4. WarehouseType
  BY ConfigType DEF WarehouseType
<1>5. RuntimeType
  BY DEF RuntimeType, NoSnapshot
<1>6. MainType
  BY DEF MainType, MainSteps, NoResults, LevelType
<1> QED BY <1>1, <1>2, <1>3, <1>4, <1>5, <1>6 DEF TypeOK

\* What a step that leaves a group of variables alone leaves well typed.
LEMMA TypeFrame ==
  ASSUME TypeOK
  PROVE  /\ UNCHANGED factoryVars => FactoryType'
         /\ UNCHANGED warehouseVars => WarehouseType'
         /\ UNCHANGED <<running, breaches, snapshot, total_cycles, eventVars>>
              => RuntimeType'
         /\ UNCHANGED mainVars => MainType'
         /\ UNCHANGED demand => demand' \in Seq(DemandOrderType)
         /\ UNCHANGED <<env, demand>> => EnvType'
<1>1. UNCHANGED factoryVars => FactoryType'
  BY DEF TypeOK, FactoryType, factoryVars
<1>2. UNCHANGED warehouseVars => WarehouseType'
  BY DEF TypeOK, WarehouseType, warehouseVars
<1>3. UNCHANGED <<running, breaches, snapshot, total_cycles, eventVars>> => RuntimeType'
  BY DEF TypeOK, RuntimeType, eventVars
<1>4. UNCHANGED mainVars => MainType'
  BY DEF TypeOK, MainType, mainVars
<1>5. UNCHANGED <<env, demand>> => EnvType'
  BY DEF TypeOK, EnvType
<1> QED BY <1>1, <1>2, <1>3, <1>4, <1>5 DEF TypeOK

\* Where EnvTo leaves SC-ENV.
LEMMA EnvToType ==
  ASSUME TypeOK, NEW p \in EnvSteps, EnvTo(p)
  PROVE  /\ env' \in [pc : EnvSteps, i : Nat, open : SUBSET Nat, qty : Nat]
         /\ env'.pc = p /\ env'.open = env.open /\ env'.qty = env.qty
         /\ UNCHANGED demand => EnvType'
<1>1. env \in [pc : EnvSteps, i : Nat, open : SUBSET Nat, qty : Nat]
  BY DEF TypeOK, EnvType
<1>2. env' = [pc |-> p, i |-> 1, open |-> env.open, qty |-> env.qty]
  BY <1>1 DEF EnvTo
<1>3. env' \in [pc : EnvSteps, i : Nat, open : SUBSET Nat, qty : Nat]
  BY <1>1, <1>2
<1>4. env'.pc = p /\ env'.open = env.open /\ env'.qty = env.qty
  BY <1>2
<1> QED BY <1>3, <1>4 DEF TypeOK, EnvType

\* What an order is credited with.
LEMMA CreditType ==
  ASSUME NEW o \in DemandOrderType, NEW q \in Nat
  PROVE  /\ Credited(o, q) \in DemandOrderType
         /\ Credited(o, q).quantity = o.quantity
         /\ Credited(o, q).fulfilled
              = o.fulfilled + (IF q <= Remaining(o) THEN q ELSE Remaining(o))
         /\ Remaining(o) = IF o.quantity > o.fulfilled THEN o.quantity - o.fulfilled ELSE 0
         /\ Credited(o, q).status =
              (IF Credited(o, q).fulfilled >= o.quantity THEN "FULFILLED"
               ELSE IF Credited(o, q).fulfilled > 0 THEN "PARTIAL" ELSE o.status)
<1>1. o.quantity \in Nat /\ o.fulfilled \in Nat
  BY DEF DemandOrderType
<1>2. Remaining(o) = IF o.quantity > o.fulfilled THEN o.quantity - o.fulfilled ELSE 0
  BY <1>1, MaxTwo DEF Remaining
<1>3. Remaining(o) \in Nat
  BY <1>1, <1>2
<1> DEFINE f == o.fulfilled + Min({q, Remaining(o)})
           st == CASE f >= o.quantity -> "FULFILLED"
                   [] f > 0 /\ f < o.quantity -> "PARTIAL"
                   [] OTHER -> o.status
<1>4. Min({q, Remaining(o)}) = IF q <= Remaining(o) THEN q ELSE Remaining(o)
  BY <1>3, MinTwo
<1>5. f \in Nat /\ f = o.fulfilled + (IF q <= Remaining(o) THEN q ELSE Remaining(o))
  BY <1>1, <1>3, <1>4
<1>6. st = IF f >= o.quantity THEN "FULFILLED" ELSE IF f > 0 THEN "PARTIAL" ELSE o.status
  <2> HIDE DEF f
  <2> QED BY <1>1, <1>5
<1>7. st \in {"OPEN", "PARTIAL", "FULFILLED"}
  BY <1>6 DEF DemandOrderType
<1>8. Credited(o, q) = [quantity |-> o.quantity, fulfilled |-> f, status |-> st]
  BY DEF Credited
<1> HIDE DEF f, st
<1>9. Credited(o, q) \in DemandOrderType
  BY <1>1, <1>5, <1>7, <1>8 DEF DemandOrderType
<1> QED BY <1>2, <1>5, <1>6, <1>8, <1>9

\* What shipping to a factory order does to the factory's count.
LEMMA DeliverEffect ==
  ASSUME TypeOK, DeliverFactoryOrder
  PROVE  /\ orders' \in Seq(FactoryOrderType)
         /\ fg_stock' \in Nat /\ fg_stock' <= fg_stock
         /\ env' \in [pc : EnvSteps, i : Nat, open : SUBSET Nat, qty : Nat]
         /\ env'.pc = "deliver" /\ env'.open = env.open /\ env'.qty = env.qty
<1>1. /\ env \in [pc : EnvSteps, i : Nat, open : SUBSET Nat, qty : Nat]
      /\ fg_stock \in Nat /\ orders \in Seq(FactoryOrderType)
      /\ env.pc = "deliver" /\ env.i \in 1..Len(orders)
  BY DEF TypeOK, EnvType, FactoryType, DeliverFactoryOrder, EnvAt
<1>2. env' = [env EXCEPT !.i = @ + 1]
  BY DEF DeliverFactoryOrder
<1>3. /\ env' \in [pc : EnvSteps, i : Nat, open : SUBSET Nat, qty : Nat]
      /\ env'.pc = env.pc /\ env'.open = env.open /\ env'.qty = env.qty
  <2>1. env.i + 1 \in Nat
    BY <1>1
  <2> QED BY <1>1, <1>2, <2>1
<1> DEFINE o == orders[env.i]
           left == o.quantity - o.delivered
<1>4. o \in FactoryOrderType
  BY <1>1, ElementOfSeq
<1>5. CASE UNCHANGED <<fg_stock, orders>>
  BY <1>1, <1>3, <1>5
<1>6. ASSUME NEW n \in 1..ShipMax, left > 0, fg_stock > 0,
             orders' = [orders EXCEPT ![env.i].delivered = @ + Min({n, fg_stock, left})],
             fg_stock' = fg_stock - Min({n, fg_stock, left})
      PROVE  orders' \in Seq(FactoryOrderType) /\ fg_stock' \in Nat /\ fg_stock' <= fg_stock
  <2>1. n \in Nat /\ left \in Nat
    BY <1>4, <1>6, ScenarioAssumption DEF FactoryOrderType
  <2> DEFINE ship == Min({n, fg_stock, left})
             e == [quantity |-> o.quantity, delivered |-> o.delivered + ship]
  <2>2. ship \in Nat /\ ship <= fg_stock
    <3> HIDE DEF left
    <3> QED BY <1>1, <2>1, MinThree
  <2>3. orders' = [orders EXCEPT ![env.i] = [orders[env.i] EXCEPT !.delivered = @ + ship]]
    BY <1>6
  <2>4. fg_stock' = fg_stock - ship
    BY <1>6
  <2> HIDE DEF ship
  <2>5. fg_stock' \in Nat /\ fg_stock' <= fg_stock
    BY <1>1, <2>2, <2>4
  <2>6. [o EXCEPT !.delivered = @ + ship] = e
    BY <1>4 DEF FactoryOrderType
  <2>7. e \in FactoryOrderType
    BY <1>4, <2>2 DEF FactoryOrderType
  <2>8. orders' = [orders EXCEPT ![env.i] = e]
    BY <2>3, <2>6
  <2> HIDE DEF e, o
  <2> QED BY <1>1, <2>5, <2>7, <2>8, ExceptSeq
<1> QED BY <1>1, <1>3, <1>5, <1>6 DEF DeliverFactoryOrder

\* What process_shipments asks the warehouse for, and what it gets.
LEMMA ShipEffect ==
  ASSUME TypeOK, ShipOrder
  PROVE  /\ Min(env.open) \in env.open /\ Min(env.open) \in DOMAIN demand
         /\ demand[Min(env.open)] \in DemandOrderType
         /\ env' \in [pc : EnvSteps, i : Nat, open : SUBSET Nat, qty : Nat]
         /\ \/ /\ env'.pc = "orders" /\ env'.open = env.open \ {Min(env.open)}
               /\ env'.qty = env.qty
               /\ UNCHANGED <<stock, total_requested, total_shipped>>
            \/ /\ env'.pc = "credit" /\ env'.open = env.open /\ env'.qty > 0
               /\ env'.qty <= Remaining(demand[Min(env.open)])
               /\ \E a \in Nat : /\ a <= env'.qty /\ a <= stock
                                 /\ stock' = stock - a
                                 /\ total_shipped' = total_shipped + a
                                 /\ total_requested' = total_requested + env'.qty
<1> DEFINE T == [pc : EnvSteps, i : Nat, open : SUBSET Nat, qty : Nat]
           o == demand[Min(env.open)]
           b == BatchFor(o)
<1>1. /\ env \in T /\ env.open \subseteq DOMAIN demand /\ env.open # {}
      /\ stock \in Nat /\ demand \in Seq(DemandOrderType)
  BY DEF TypeOK, EnvType, WarehouseType, ShipOrder
<1>2. Min(env.open) \in env.open
  BY <1>1, MinIn
<1>3. o \in DemandOrderType
  BY <1>1, <1>2
<1>4. /\ Remaining(o) \in Nat
      /\ b \in Int /\ b <= Remaining(o)
  <2> HIDE DEF o
  <2>1. o.quantity \in Nat /\ o.fulfilled \in Nat
    BY <1>3 DEF DemandOrderType
  <2>2. Remaining(o) \in Nat
    BY <2>1, MaxTwo DEF Remaining
  <2> QED BY <2>2, ConfigType, MinTwo DEF BatchFor
<1>5. CASE b <= 0
  <2>1. /\ env' = [env EXCEPT !.open = @ \ {Min(env.open)}]
        /\ UNCHANGED <<stock, total_requested, total_shipped>>
    BY <1>4, <1>5 DEF ShipOrder
  <2>2. env.open \ {Min(env.open)} \in SUBSET Nat /\ env.pc = "orders"
    BY <1>1 DEF ShipOrder, EnvAt
  <2>3. env' \in T /\ env'.pc = "orders" /\ env'.qty = env.qty
        /\ env'.open = env.open \ {Min(env.open)}
    BY <1>1, <2>1, <2>2
  <2> QED BY <1>1, <1>2, <1>3, <2>1, <2>3
<1>6. CASE b > 0
  <2>1. env' = [env EXCEPT !.pc = "credit", !.qty = b] /\ WarehouseShip(b)
    BY <1>4, <1>6 DEF ShipOrder
  <2> DEFINE a == Min({b, stock})
  <2>2. b \in Nat
    BY <1>4, <1>6
  <2> HIDE DEF b
  <2>3. a \in Nat /\ a <= b /\ a <= stock
    BY <1>1, <2>2, MinTwo
  <2>4. /\ stock' = stock - a /\ total_shipped' = total_shipped + a
        /\ total_requested' = total_requested + b
    BY <2>1 DEF WarehouseShip
  <2>5. env' = [pc |-> "credit", i |-> env.i, open |-> env.open, qty |-> b]
    BY <1>1, <2>1
  <2>6. env' \in T
    BY <1>1, <2>2, <2>5 DEF EnvSteps
  <2>7. env'.pc = "credit" /\ env'.open = env.open /\ env'.qty = b
    BY <2>5
  <2> HIDE DEF a, T, o
  <2>8. Min(env.open) \in DOMAIN demand /\ demand[Min(env.open)] = o
    BY <1>1, <1>2 DEF o
  <2> QED BY <1>2, <1>3, <1>4, <1>6, <2>3, <2>4, <2>6, <2>7, <2>8 DEF T
<1> QED BY <1>4, <1>5, <1>6

\* What CustomerOrder.ship does to the ledger.
LEMMA CreditEffect ==
  ASSUME TypeOK, CreditOrder, env.open # {}
  PROVE  /\ Min(env.open) \in DOMAIN demand
         /\ demand[Min(env.open)] \in DemandOrderType
         /\ demand' \in Seq(DemandOrderType) /\ DOMAIN demand' = DOMAIN demand
         /\ demand'[Min(env.open)] = Credited(demand[Min(env.open)], env.qty)
         /\ \A j \in DOMAIN demand : j # Min(env.open) => demand'[j] = demand[j]
         /\ env' \in [pc : EnvSteps, i : Nat, open : SUBSET Nat, qty : Nat]
         /\ env'.pc = "orders" /\ env'.qty = 0
         /\ env'.open = env.open \ {Min(env.open)}
<1> DEFINE T == [pc : EnvSteps, i : Nat, open : SUBSET Nat, qty : Nat]
           m == Min(env.open)
           e == Credited(demand[m], env.qty)
<1>1. /\ env \in T /\ env.open \subseteq DOMAIN demand
      /\ demand \in Seq(DemandOrderType)
  BY DEF TypeOK, EnvType
<1>2. m \in env.open /\ m \in DOMAIN demand /\ m \in 1..Len(demand)
  BY <1>1, MinIn
<1>3. demand[m] \in DemandOrderType
  BY <1>1, <1>2
<1>4. e \in DemandOrderType
  <2> HIDE DEF m
  <2>1. env.qty \in Nat
    BY <1>1
  <2> QED BY <1>3, <2>1, CreditType
<1>5. demand' = [demand EXCEPT ![m] = e]
  BY DEF CreditOrder
<1>6. env' = [env EXCEPT !.pc = "orders", !.open = @ \ {m}, !.qty = 0]
  BY DEF CreditOrder
<1> HIDE DEF m, e
<1>7. env' = [pc |-> "orders", i |-> env.i, open |-> env.open \ {m}, qty |-> 0]
  BY <1>1, <1>6
<1>8. env' \in T
  BY <1>1, <1>7 DEF EnvSteps
<1>9. /\ demand' \in Seq(DemandOrderType) /\ DOMAIN demand' = DOMAIN demand
      /\ demand'[m] = e /\ \A j \in DOMAIN demand : j # m => demand'[j] = demand[j]
  BY <1>1, <1>2, <1>4, <1>5, ExceptSeq
<1> QED BY <1>2, <1>3, <1>7, <1>8, <1>9 DEF m, e

\* A quantity is under way exactly between the warehouse's shipment and the
\* credit to the order it is for, which is still in the copy.
StepInv ==
  /\ env.pc = "credit" => env.open # {} /\ env.qty > 0
  /\ env.pc # "credit" => env.qty = 0

\* The steps of SC-ENV that change nothing but where it stands.
MoveOn == EnvLoop \/ FactoryDelivered \/ EndShipments \/ BeginShipments

LEMMA MoveOnEffect ==
  ASSUME TypeOK, MoveOn
  PROVE  /\ EnvType' /\ env'.qty = env.qty /\ env'.pc # "credit"
         /\ env.pc # "credit"
         /\ UNCHANGED <<running, factoryVars, warehouseVars, demand, breaches,
                        snapshot, total_cycles, eventVars, mainVars>>
<1>1. UNCHANGED <<running, factoryVars, warehouseVars, demand, breaches,
                  snapshot, total_cycles, eventVars, mainVars>>
  BY DEF MoveOn, EnvLoop, FactoryDelivered, EndShipments, BeginShipments
<1>2. ASSUME NEW p \in EnvSteps, EnvTo(p), p # "credit"
      PROVE  EnvType' /\ env'.qty = env.qty /\ env'.pc # "credit"
  BY <1>1, <1>2, EnvToType
<1>3. ASSUME env' = [env EXCEPT !.pc = "orders", !.i = 1, !.open = OpenOrders]
      PROVE  EnvType' /\ env'.qty = env.qty /\ env'.pc # "credit"
  <2>1. /\ env \in [pc : EnvSteps, i : Nat, open : SUBSET Nat, qty : Nat]
        /\ demand \in Seq(DemandOrderType)
    BY DEF TypeOK, EnvType
  <2>2. OpenOrders \subseteq DOMAIN demand /\ OpenOrders \in SUBSET Nat
    BY <2>1 DEF OpenOrders
  <2>3. env' = [pc |-> "orders", i |-> 1, open |-> OpenOrders, qty |-> env.qty]
    BY <1>3, <2>1
  <2>4. env' \in [pc : EnvSteps, i : Nat, open : SUBSET Nat, qty : Nat]
    BY <2>1, <2>2, <2>3 DEF EnvSteps
  <2>5. env'.open \subseteq DOMAIN demand' /\ env'.pc = "orders" /\ env'.qty = env.qty
    BY <1>1, <2>2, <2>3
  <2>6. EnvType'
    BY <2>4, <2>5 DEF EnvType
  <2> QED BY <2>5, <2>6
<1>4. \/ \E p \in EnvSteps : EnvTo(p) /\ p # "credit"
      \/ env' = [env EXCEPT !.pc = "orders", !.i = 1, !.open = OpenOrders]
  BY DEF MoveOn, EnvLoop, FactoryDelivered, EndShipments, BeginShipments, EnvSteps
<1>5. env.pc # "credit"
  BY DEF MoveOn, EnvLoop, FactoryDelivered, EndShipments, BeginShipments, EnvAt
<1> QED BY <1>1, <1>2, <1>3, <1>4, <1>5

LEMMA TypeEnv ==
  ASSUME TypeOK, StepInv, EnvNext
  PROVE  TypeOK' /\ StepInv'
<1>0. env \in [pc : EnvSteps, i : Nat, open : SUBSET Nat, qty : Nat]
  BY DEF TypeOK, EnvType
<1>1. CASE MoveOn
  <2>1. EnvType' /\ StepInv'
    BY <1>1, MoveOnEffect DEF StepInv
  <2> QED BY <1>1, <2>1, MoveOnEffect, TypeFrame DEF TypeOK
<1>2. CASE RunCycle
  <2>1. PICK p \in {"deliver", "ship"} : EnvTo(p)
    BY <1>2 DEF RunCycle
  <2>2. UNCHANGED demand /\ p \in EnvSteps /\ env.pc = "cycle"
    BY <1>2 DEF RunCycle, EnvSteps, EnvAt
  <2>3. EnvType' /\ StepInv'
    BY <2>1, <2>2, EnvToType DEF StepInv
  <2>4. FactoryType'
    BY <1>2 DEF RunCycle, TypeOK, FactoryType
  <2>5. WarehouseType' /\ RuntimeType' /\ MainType' /\ demand' \in Seq(DemandOrderType)
    BY <1>2, TypeFrame DEF RunCycle
  <2> QED BY <2>3, <2>4, <2>5 DEF TypeOK
<1>3. CASE DeliverFactoryOrder
  <2>1. EnvType' /\ StepInv'
    BY <1>3, DeliverEffect DEF DeliverFactoryOrder, TypeOK, EnvType, StepInv, EnvAt
  <2>2. FactoryType'
    BY <1>3, DeliverEffect DEF DeliverFactoryOrder, TypeOK, FactoryType
  <2>3. WarehouseType' /\ RuntimeType' /\ MainType' /\ demand' \in Seq(DemandOrderType)
    BY <1>3, TypeFrame DEF DeliverFactoryOrder
  <2> QED BY <2>1, <2>2, <2>3 DEF TypeOK
<1>4. CASE OnGoodFinishedUnit
  <2>1. EnvTo("ship") /\ "ship" \in EnvSteps /\ UNCHANGED demand /\ env.pc = "receive"
    BY <1>4 DEF OnGoodFinishedUnit, EnvSteps, EnvAt
  <2>2. EnvType' /\ StepInv'
    BY <2>1, EnvToType DEF StepInv
  <2>3. FactoryType' /\ WarehouseType'
    BY <1>4 DEF OnGoodFinishedUnit, TypeOK, FactoryType, WarehouseType
  <2>4. RuntimeType' /\ MainType' /\ demand' \in Seq(DemandOrderType)
    BY <1>4, TypeFrame DEF OnGoodFinishedUnit
  <2> QED BY <2>2, <2>3, <2>4 DEF TypeOK
<1>5. CASE ShipOrder
  <2>1. UNCHANGED demand /\ env.pc = "orders"
    BY <1>5 DEF ShipOrder, EnvAt
  <2>2. env.open \subseteq DOMAIN demand
    BY DEF TypeOK, EnvType
  <2>3. EnvType'
    BY <1>5, <2>1, <2>2, ShipEffect DEF EnvType
  <2>4. StepInv'
    BY <1>5, <2>1, ShipEffect DEF StepInv
  <2>5. WarehouseType'
    <3>1. stock \in Nat /\ total_requested \in Nat /\ total_shipped \in Nat
          /\ stock_history \in Seq(Nat)
      BY DEF TypeOK, WarehouseType
    <3>2. UNCHANGED stock_history
      BY <1>5 DEF ShipOrder
    <3>3. stock' \in Nat /\ total_requested' \in Nat /\ total_shipped' \in Nat
      <4>1. env'.qty \in Nat
        BY <1>5, ShipEffect
      <4> QED BY <1>5, <3>1, <4>1, ShipEffect
    <3> QED BY <3>1, <3>2, <3>3 DEF WarehouseType
  <2>6. FactoryType' /\ RuntimeType' /\ MainType' /\ demand' \in Seq(DemandOrderType)
    BY <1>5, TypeFrame DEF ShipOrder
  <2> QED BY <2>3, <2>4, <2>5, <2>6 DEF TypeOK
<1>6. CASE CreditOrder
  <2>1. env.open # {}
    BY <1>6 DEF StepInv, CreditOrder, EnvAt
  <2>2. EnvType' /\ StepInv' /\ demand' \in Seq(DemandOrderType)
    BY <1>6, <2>1, CreditEffect DEF EnvType, StepInv, TypeOK
  <2>3. FactoryType' /\ WarehouseType' /\ RuntimeType' /\ MainType'
    BY <1>6, TypeFrame DEF CreditOrder
  <2> QED BY <2>2, <2>3 DEF TypeOK
<1>7. CASE RecordSnapshot
  <2>1. EnvTo("breach") /\ "breach" \in EnvSteps /\ UNCHANGED demand /\ env.pc = "record"
    BY <1>7 DEF RecordSnapshot, EnvSteps, EnvAt
  <2>2. EnvType' /\ StepInv'
    BY <2>1, EnvToType DEF StepInv
  <2>3. WarehouseType'
    BY <1>7 DEF RecordSnapshot, TypeOK, WarehouseType
  <2>4. FactoryType' /\ RuntimeType' /\ MainType' /\ demand' \in Seq(DemandOrderType)
    BY <1>7, TypeFrame DEF RecordSnapshot
  <2> QED BY <2>2, <2>3, <2>4 DEF TypeOK
<1>8. CASE CountBreach \/ Publish \/ CountCycle
  <2>1. PICK p \in {"publish", "count", "loop"} : EnvTo(p)
    BY <1>8 DEF CountBreach, Publish, CountCycle
  <2>2. UNCHANGED demand /\ p \in EnvSteps /\ env.pc \in {"breach", "publish", "count"}
    BY <1>8 DEF CountBreach, Publish, CountCycle, EnvSteps, EnvAt
  <2>3. EnvType' /\ StepInv'
    BY <2>1, <2>2, EnvToType DEF StepInv
  <2>4. RuntimeType'
    <3>1. breaches \in Nat /\ cycle \in Nat /\ stock \in Nat /\ RuntimeType
      BY DEF TypeOK, RuntimeType, FactoryType, WarehouseType
    <3>2. CASE CountBreach
      BY <3>1, <3>2 DEF CountBreach, RuntimeType, eventVars
    <3>3. CASE Publish
      BY <3>1, <3>3 DEF Publish, RuntimeType, eventVars
    <3>4. CASE CountCycle
      BY <3>1, <3>4 DEF CountCycle, RuntimeType, eventVars
    <3> QED BY <1>8, <3>2, <3>3, <3>4
  <2>5. FactoryType' /\ WarehouseType' /\ MainType' /\ demand' \in Seq(DemandOrderType)
    BY <1>8, TypeFrame DEF CountBreach, Publish, CountCycle
  <2> QED BY <2>3, <2>4, <2>5 DEF TypeOK
<1> QED BY <1>1, <1>2, <1>3, <1>4, <1>5, <1>6, <1>7, <1>8 DEF EnvNext, MoveOn

\* Appending a new order to the demand's list.
LEMMA NewDemandEffect ==
  ASSUME TypeOK, NewDemandOrder
  PROVE  /\ demand' \in Seq(DemandOrderType)
         /\ DOMAIN demand' = DOMAIN demand \cup {Len(demand) + 1}
         /\ Len(demand) + 1 \notin DOMAIN demand
         /\ demand'[Len(demand) + 1] = DemandOrder(ev.qty) /\ ev.qty \in Nat
         /\ \A i \in DOMAIN demand : demand'[i] = demand[i]
<1>1. demand \in Seq(DemandOrderType) /\ ev.qty \in Nat
  BY DEF TypeOK, RuntimeType
<1>2. DemandOrder(ev.qty) \in DemandOrderType
  BY <1>1 DEF DemandOrder, DemandOrderType
<1>3. demand' = Append(demand, DemandOrder(ev.qty))
  BY DEF NewDemandOrder
<1> QED BY <1>1, <1>2, <1>3

LEMMA TypeEvent ==
  ASSUME TypeOK, StepInv, EventNext
  PROVE  TypeOK' /\ StepInv'
<1>0. StepInv'
  BY DEF EventNext, NewFactoryOrder, NewDemandOrder, EventLoopEnds, StepInv
<1>1. CASE NewFactoryOrder
  <2>1. PICK q \in OrderSizes : /\ orders' = Append(orders, FactoryOrder(q))
                                /\ ev' = [pc |-> "demand", qty |-> q]
    BY <1>1 DEF NewFactoryOrder
  <2>2. q \in Nat /\ FactoryOrder(q) \in FactoryOrderType
    BY ScenarioAssumption DEF FactoryOrder, FactoryOrderType
  <2>3. orders' \in Seq(FactoryOrderType)
    BY <2>1, <2>2 DEF TypeOK, FactoryType
  <2>4. FactoryType' /\ RuntimeType'
    BY <1>1, <2>1, <2>2, <2>3 DEF NewFactoryOrder, TypeOK, FactoryType, RuntimeType
  <2>5. EnvType' /\ WarehouseType' /\ MainType' /\ demand' \in Seq(DemandOrderType)
    BY <1>1, TypeFrame DEF NewFactoryOrder
  <2> QED BY <1>0, <2>4, <2>5 DEF TypeOK
<1>2. CASE NewDemandOrder
  <2>1. EnvType' /\ demand' \in Seq(DemandOrderType)
    BY <1>2, NewDemandEffect DEF TypeOK, EnvType, NewDemandOrder
  <2>2. RuntimeType'
    BY <1>2 DEF NewDemandOrder, TypeOK, RuntimeType
  <2>3. FactoryType' /\ WarehouseType' /\ MainType'
    BY <1>2, TypeFrame DEF NewDemandOrder
  <2> QED BY <1>0, <2>1, <2>2, <2>3 DEF TypeOK
<1>3. CASE EventLoopEnds
  <2>1. RuntimeType'
    BY <1>3 DEF EventLoopEnds, TypeOK, RuntimeType
  <2>2. EnvType' /\ FactoryType' /\ WarehouseType' /\ MainType'
        /\ demand' \in Seq(DemandOrderType)
    BY <1>3, TypeFrame DEF EventLoopEnds
  <2> QED BY <1>0, <2>1, <2>2 DEF TypeOK
<1> QED BY <1>1, <1>2, <1>3 DEF EventNext

\* What the main thread's steps do to it and to the results.
LEMMA MainEffect ==
  ASSUME TypeOK, MainNext
  PROVE  /\ MainType'
         /\ UNCHANGED <<env, factoryVars, warehouseVars, demand, breaches,
                        snapshot, total_cycles, eventVars>>
         /\ \/ /\ main.pc = "poll" /\ main'.pc = "stop" /\ UNCHANGED <<running, results>>
               /\ main'.interrupted \/ total_cycles >= TargetCycles
            \/ /\ main.pc = "stop" /\ main'.pc = "totals" /\ running' = FALSE
               /\ main'.interrupted = main.interrupted /\ UNCHANGED results
            \/ /\ main.pc = "totals" /\ main'.pc = "stock" /\ UNCHANGED running
               /\ main'.interrupted = main.interrupted
               /\ results'.cycles = total_cycles
            \/ /\ main.pc = "stock" /\ main'.pc = "level" /\ UNCHANGED running
               /\ main'.interrupted = main.interrupted
               /\ results'.cycles = results.cycles /\ results'.stock = stock
            \/ /\ main.pc = "level" /\ main'.pc = "rest" /\ UNCHANGED running
               /\ main'.interrupted = main.interrupted
               /\ results'.cycles = results.cycles /\ results'.stock = results.stock
               /\ results'.level.requested = total_requested
            \/ /\ main.pc = "rest" /\ main'.pc = "written" /\ UNCHANGED running
               /\ main'.interrupted = main.interrupted
               /\ results'.cycles = results.cycles /\ results'.stock = results.stock
               /\ results'.level = results.level
               /\ results'.shipped = total_shipped /\ results'.requested = total_requested
               /\ results'.breaches = breaches
<1> DEFINE MT == [pc : MainSteps, interrupted : BOOLEAN]
           RT == [cycles : Nat, stock : Nat, level : LevelType, shipped : Nat,
                  requested : Nat, breaches : Nat]
<1>1. main \in MT /\ results \in RT
  BY DEF TypeOK, MainType
<1>2. /\ total_cycles \in Nat /\ stock \in Nat /\ total_requested \in Nat
      /\ total_shipped \in Nat /\ breaches \in Nat
  BY DEF TypeOK, RuntimeType, WarehouseType
<1>3. UNCHANGED <<env, factoryVars, warehouseVars, demand, breaches,
                  snapshot, total_cycles, eventVars>>
  BY DEF MainNext, MainRuns, Interrupt, PollDone, Stop, ReadTotals, ReadStock,
     ReadServiceLevel, ReadCounts, MainStep
<1>4. ASSUME NEW p \in MainSteps, main' = [main EXCEPT !.pc = p]
      PROVE  main' \in MT /\ main'.pc = p /\ main'.interrupted = main.interrupted
  BY <1>1, <1>4
<1>5. CASE PollDone
  <2>1. main' \in MT /\ main'.pc = "stop"
    BY <1>4, <1>5 DEF PollDone, MainSteps
  <2>2. results' \in RT
    BY <1>1, <1>5 DEF PollDone
  <2>3. MainType'
    BY <2>1, <2>2 DEF MainType
  <2> QED BY <1>3, <1>5, <2>1, <2>3 DEF PollDone
<1>6. CASE Interrupt
  <2>1. main' \in MT /\ main'.pc = "stop" /\ main'.interrupted
    BY <1>6 DEF Interrupt, MainSteps
  <2>2. results' \in RT
    BY <1>1, <1>6 DEF Interrupt
  <2>3. MainType'
    BY <2>1, <2>2 DEF MainType
  <2> QED BY <1>3, <1>6, <2>1, <2>3 DEF Interrupt
<1>7. CASE Stop
  <2>1. main' \in MT /\ main'.pc = "totals" /\ main'.interrupted = main.interrupted
    BY <1>4, <1>7 DEF Stop, MainSteps
  <2>2. results' \in RT
    BY <1>1, <1>7 DEF Stop
  <2>3. MainType'
    BY <2>1, <2>2 DEF MainType
  <2> QED BY <1>3, <1>7, <2>1, <2>3 DEF Stop
<1>8. CASE ReadTotals
  <2>1. main' \in MT /\ main'.pc = "stock" /\ main'.interrupted = main.interrupted
    BY <1>4, <1>8 DEF ReadTotals, MainSteps
  <2>2. results' = [results EXCEPT !.cycles = total_cycles]
    BY <1>8 DEF ReadTotals
  <2>3. results' \in RT /\ results'.cycles = total_cycles
    BY <1>1, <1>2, <2>2
  <2>4. MainType'
    BY <2>1, <2>3 DEF MainType
  <2> QED BY <1>3, <1>8, <2>1, <2>3, <2>4 DEF ReadTotals
<1>9. CASE ReadStock
  <2>1. main' \in MT /\ main'.pc = "level" /\ main'.interrupted = main.interrupted
    BY <1>4, <1>9 DEF ReadStock, MainSteps
  <2>2. results' = [results EXCEPT !.stock = stock]
    BY <1>9 DEF ReadStock
  <2>3. results' \in RT /\ results'.cycles = results.cycles /\ results'.stock = stock
    BY <1>1, <1>2, <2>2
  <2>4. MainType'
    BY <2>1, <2>3 DEF MainType
  <2> QED BY <1>3, <1>9, <2>1, <2>3, <2>4 DEF ReadStock
<1>10. CASE ReadServiceLevel
  <2>1. main' \in MT /\ main'.pc = "rest" /\ main'.interrupted = main.interrupted
    BY <1>4, <1>10 DEF ReadServiceLevel, MainSteps
  <2> DEFINE l == [shipped |-> total_shipped, requested |-> total_requested]
  <2>2. results' = [results EXCEPT !.level = l]
    BY <1>10 DEF ReadServiceLevel
  <2>3. l \in LevelType /\ l.requested = total_requested
    BY <1>2 DEF LevelType
  <2> HIDE DEF l
  <2>4. /\ results' \in RT /\ results'.cycles = results.cycles
        /\ results'.stock = results.stock /\ results'.level = l
    BY <1>1, <2>2, <2>3
  <2>5. MainType'
    BY <2>1, <2>4 DEF MainType
  <2> QED BY <1>3, <1>10, <2>1, <2>3, <2>4, <2>5 DEF ReadServiceLevel
<1>11. CASE ReadCounts
  <2>1. main' \in MT /\ main'.pc = "written" /\ main'.interrupted = main.interrupted
    BY <1>4, <1>11 DEF ReadCounts, MainSteps
  <2>2. results' = [cycles |-> results.cycles, stock |-> results.stock,
                    level |-> results.level, shipped |-> total_shipped,
                    requested |-> total_requested, breaches |-> breaches]
    BY <1>1, <1>11 DEF ReadCounts
  <2>3. results' \in RT
    BY <1>1, <1>2, <2>2
  <2>4. MainType'
    BY <2>1, <2>3 DEF MainType
  <2>5. /\ results'.cycles = results.cycles /\ results'.stock = results.stock
        /\ results'.level = results.level
        /\ results'.shipped = total_shipped /\ results'.requested = total_requested
        /\ results'.breaches = breaches
    BY <2>2
  <2> QED BY <1>3, <1>11, <2>1, <2>4, <2>5 DEF ReadCounts
<1> QED BY <1>5, <1>6, <1>7, <1>8, <1>9, <1>10, <1>11 DEF MainNext, MainRuns

LEMMA TypeStep == TypeOK /\ StepInv /\ [Next]_vars => TypeOK' /\ StepInv'
<1> SUFFICES ASSUME TypeOK, StepInv, [Next]_vars PROVE TypeOK' /\ StepInv'
  OBVIOUS
<1>1. CASE EnvNext
  BY <1>1, TypeEnv
<1>2. CASE EventNext
  BY <1>2, TypeEvent
<1>3. CASE MainNext
  <2>1. EnvType' /\ FactoryType' /\ WarehouseType' /\ MainType'
        /\ demand' \in Seq(DemandOrderType)
    BY <1>3, MainEffect, TypeFrame
  <2>2. RuntimeType'
    BY <1>3, MainEffect DEF TypeOK, RuntimeType, eventVars
  <2>3. StepInv'
    BY <1>3, MainEffect DEF StepInv
  <2> QED BY <2>1, <2>2, <2>3 DEF TypeOK
<1>4. CASE UNCHANGED vars
  <2>1. EnvType' /\ FactoryType' /\ WarehouseType' /\ MainType' /\ RuntimeType'
        /\ demand' \in Seq(DemandOrderType)
    BY <1>4, TypeFrame DEF vars
  <2>2. StepInv'
    BY <1>4 DEF vars, StepInv
  <2> QED BY <2>1, <2>2 DEF TypeOK
<1> QED BY <1>1, <1>2, <1>3, <1>4 DEF Next

\* From where to where the steps of SC-ENV lead.
LEMMA EnvPc ==
  ASSUME TypeOK
  PROVE  /\ EnvLoop => /\ env.pc = "loop"
                       /\ \/ running /\ env'.pc = "cycle"
                          \/ ~running /\ env'.pc = "done"
         /\ RunCycle => /\ env.pc = "cycle"
                        /\ \/ /\ env'.pc = "deliver" /\ fg_stock' = fg_stock + 1
                              /\ produced' = produced + 1
                           \/ env'.pc = "ship" /\ UNCHANGED <<fg_stock, produced>>
         /\ FactoryDelivered => env.pc = "deliver" /\ env'.pc = "receive"
         /\ OnGoodFinishedUnit => env.pc = "receive" /\ env'.pc = "ship"
         /\ BeginShipments => env.pc = "ship" /\ env'.pc \in {"record", "orders"}
         /\ EndShipments => env.pc = "orders" /\ env'.pc = "record"
         /\ RecordSnapshot => env.pc = "record" /\ env'.pc = "breach"
         /\ CountBreach => env.pc = "breach" /\ env'.pc = "publish"
         /\ Publish => env.pc = "publish" /\ env'.pc = "count"
         /\ CountCycle => env.pc = "count" /\ env'.pc = "loop"
<1>1. \A p \in EnvSteps : EnvTo(p) => env'.pc = p
  BY EnvToType
<1>2. /\ "cycle" \in EnvSteps /\ "done" \in EnvSteps /\ "deliver" \in EnvSteps
      /\ "ship" \in EnvSteps /\ "receive" \in EnvSteps /\ "record" \in EnvSteps
      /\ "breach" \in EnvSteps /\ "publish" \in EnvSteps /\ "count" \in EnvSteps
      /\ "loop" \in EnvSteps
  BY DEF EnvSteps
<1>3. BeginShipments => env'.pc \in {"record", "orders"}
  <2>1. env \in [pc : EnvSteps, i : Nat, open : SUBSET Nat, qty : Nat]
    BY DEF TypeOK, EnvType
  <2>2. env' = [env EXCEPT !.pc = "orders", !.i = 1, !.open = OpenOrders]
          => env'.pc = "orders"
    BY <2>1
  <2> QED BY <1>1, <1>2, <2>2 DEF BeginShipments
<1> QED
  BY <1>1, <1>2, <1>3 DEF EnvLoop, RunCycle, FactoryDelivered, OnGoodFinishedUnit,
     BeginShipments, EndShipments, RecordSnapshot, CountBreach, Publish, CountCycle,
     EnvAt

\* The steps of the other threads leave SC-ENV's own state alone.
LEMMA OthersFrame ==
  ASSUME TypeOK, EventNext \/ MainNext \/ UNCHANGED vars
  PROVE  UNCHANGED <<env, cycle, produced, fg_stock, warehouseVars, breaches,
                     snapshot, total_cycles>>
  BY MainEffect DEF EventNext, NewFactoryOrder, NewDemandOrder, EventLoopEnds, vars,
     factoryVars

-----------------------------------------------------------------------------
(* The finished goods.                                                      *)

\* GoodsBooked, and the one part between the line and the warehouse.
GoodsInv ==
  /\ GoodsBooked
  /\ env.pc \in {"deliver", "receive"} => fg_stock <= 1 /\ produced >= 1

LEMMA GoodsStep == TypeOK /\ StepInv /\ GoodsInv /\ [Next]_vars => GoodsInv'
<1> SUFFICES ASSUME TypeOK, StepInv, GoodsInv, [Next]_vars PROVE GoodsInv'
  OBVIOUS
<1> USE DEF GoodsInv, GoodsBooked
<1>0. /\ Config.stock \in Nat /\ produced \in Nat /\ fg_stock \in Nat
      /\ stock \in Nat /\ total_shipped \in Nat
  BY ConfigType DEF TypeOK, FactoryType, WarehouseType
<1>1. CASE UNCHANGED <<fg_stock, stock, total_shipped, produced>> /\
           (env'.pc \in {"deliver", "receive"} <=> env.pc \in {"deliver", "receive"})
  BY <1>1
<1>2. CASE EnvLoop \/ FactoryDelivered \/ BeginShipments \/ EndShipments
           \/ RecordSnapshot \/ CountBreach \/ Publish \/ CountCycle
  <2>1. UNCHANGED <<fg_stock, stock, total_shipped, produced>>
    BY <1>2 DEF EnvLoop, FactoryDelivered, BeginShipments, EndShipments,
       RecordSnapshot, CountBreach, Publish, CountCycle, factoryVars, warehouseVars
  <2>2. env'.pc \in {"deliver", "receive"} <=> env.pc \in {"deliver", "receive"}
    BY <1>2, EnvPc
  <2> QED BY <1>1, <2>1, <2>2
<1>3. CASE RunCycle
  <2>1. UNCHANGED <<stock, total_shipped>>
    BY <1>3 DEF RunCycle, warehouseVars
  <2>2. CASE /\ env'.pc = "deliver" /\ fg_stock' = fg_stock + 1
             /\ produced' = produced + 1 /\ env.pc = "cycle"
    BY <1>0, <2>1, <2>2
  <2>3. CASE env'.pc = "ship" /\ UNCHANGED <<fg_stock, produced>> /\ env.pc = "cycle"
    BY <1>1, <2>1, <2>3
  <2> QED BY <1>3, <2>2, <2>3, EnvPc
<1>4. CASE DeliverFactoryOrder
  <2>1. UNCHANGED <<stock, total_shipped, produced>> /\ env.pc = "deliver"
    BY <1>4 DEF DeliverFactoryOrder, warehouseVars, EnvAt
  <2> QED BY <1>0, <1>4, <2>1, DeliverEffect
<1>5. CASE OnGoodFinishedUnit
  <2>1. /\ stock' = stock + 1 /\ UNCHANGED <<total_shipped, produced>>
        /\ fg_stock' = IF fg_stock > 0 THEN fg_stock - 1 ELSE fg_stock
    BY <1>5 DEF OnGoodFinishedUnit
  <2> QED BY <1>0, <1>5, <2>1, EnvPc
<1>6. CASE ShipOrder
  <2>1. UNCHANGED <<fg_stock, produced>> /\ env.pc = "orders"
    BY <1>6 DEF ShipOrder, factoryVars, EnvAt
  <2> QED BY <1>0, <1>6, <2>1, ShipEffect
<1>7. CASE CreditOrder
  <2>1. env.pc = "credit" /\ UNCHANGED <<fg_stock, stock, total_shipped, produced>>
    BY <1>7 DEF CreditOrder, factoryVars, warehouseVars, EnvAt
  <2>2. env'.pc = "orders"
    BY <1>7, <2>1, CreditEffect DEF StepInv
  <2> QED BY <1>1, <2>1, <2>2
<1>8. CASE EventNext \/ MainNext \/ UNCHANGED vars
  BY <1>1, <1>8, OthersFrame DEF warehouseVars
<1> QED
  BY <1>2, <1>3, <1>4, <1>5, <1>6, <1>7, <1>8 DEF Next, EnvNext

-----------------------------------------------------------------------------
(* The ledger of the customers' orders.                                     *)

\* The status of an order says how much of it was credited.
LedgerEntry(o) ==
  /\ o.fulfilled <= o.quantity
  /\ o.quantity > 0 =>
       o.status = (CASE o.fulfilled = o.quantity -> "FULFILLED"
                     [] o.fulfilled = 0 -> "OPEN"
                     [] OTHER -> "PARTIAL")

\* RequestedIsCredited, and the quantity under way fits its order.
LedgerInv ==
  /\ total_requested = Fulfilled + env.qty
  /\ \A i \in DOMAIN demand : LedgerEntry(demand[i])
  /\ env.pc = "credit" => env.qty <= Remaining(demand[Min(env.open)])

\* What each order of a list was credited with.
CreditsOf(d) == [i \in DOMAIN d |-> d[i].fulfilled]
TotalOf(d) == SumFunction(CreditsOf(d))

\* Credits are naturals over a finite set of indices.
LEMMA CreditsType ==
  ASSUME NEW d \in Seq(DemandOrderType)
  PROVE  /\ IsFiniteSet(DOMAIN d) /\ CreditsOf(d) \in [DOMAIN d -> Nat]
         /\ TotalOf(d) = SumFunctionOnSet(CreditsOf(d), DOMAIN d)
         /\ TotalOf(d) \in Nat
<1>1. DOMAIN d = 1..Len(d) /\ Len(d) \in Nat
  OBVIOUS
<1>2. IsFiniteSet(DOMAIN d)
  BY <1>1, FS_Interval
<1>3. \A i \in DOMAIN d : d[i] \in DemandOrderType
  OBVIOUS
<1>4. CreditsOf(d) \in [DOMAIN d -> Nat]
  BY <1>3 DEF CreditsOf, DemandOrderType
<1>5. TotalOf(d) = SumFunctionOnSet(CreditsOf(d), DOMAIN d)
  BY DEF TotalOf, SumFunction, CreditsOf
<1>6. SumFunctionOnSet(CreditsOf(d), DOMAIN d) \in Nat
  BY <1>2, <1>4, SumType
<1> QED BY <1>2, <1>4, <1>5, <1>6

\* A credit to one order changes the total by what that order gained.
LEMMA TotalCredited ==
  ASSUME NEW d \in Seq(DemandOrderType), NEW e \in Seq(DemandOrderType),
         DOMAIN e = DOMAIN d, NEW m \in DOMAIN d,
         \A j \in DOMAIN d : j # m => e[j] = d[j]
  PROVE  TotalOf(e) = TotalOf(d) + (e[m].fulfilled - d[m].fulfilled)
<1> DEFINE D == DOMAIN d
           f == CreditsOf(d)
           h == CreditsOf(e)
<1>1. IsFiniteSet(D) /\ f \in [D -> Int] /\ h \in [D -> Int]
  BY CreditsType
<1>2. \A j \in D : f[j] = d[j].fulfilled /\ h[j] = e[j].fulfilled
  BY DEF CreditsOf
<1>3. \A j \in D \ {m} : h[j] = f[j]
  BY <1>2
<1>4. SumFunction(h) = SumFunction(f) + (h[m] - f[m])
  <2>1. m \in D
    OBVIOUS
  <2> HIDE DEF D, f, h
  <2> QED BY <1>1, <1>3, <2>1, SumFunctionChange
<1> QED BY <1>2, <1>4 DEF TotalOf

\* A new order was credited with nothing.
LEMMA TotalAppended ==
  ASSUME NEW d \in Seq(DemandOrderType), NEW e \in Seq(DemandOrderType),
         NEW x, x \notin DOMAIN d, DOMAIN e = DOMAIN d \cup {x}, e[x].fulfilled = 0,
         \A j \in DOMAIN d : e[j] = d[j]
  PROVE  TotalOf(e) = TotalOf(d)
<1> DEFINE D == DOMAIN d
           f == CreditsOf(d)
           h == CreditsOf(e)
<1>1. /\ IsFiniteSet(D) /\ f \in [D -> Int] /\ h \in [D \cup {x} -> Int]
      /\ SumFunction(f) \in Nat
  BY CreditsType DEF TotalOf
<1>2. /\ \A j \in D : f[j] = d[j].fulfilled /\ h[j] = e[j].fulfilled
      /\ h[x] = 0
  BY DEF CreditsOf
<1>3. \A j \in D : h[j] = f[j]
  BY <1>2
<1>4. SumFunction(h) = SumFunction(f) + h[x]
  <2>1. x \notin D
    OBVIOUS
  <2>2. IsFiniteSet(D)
    BY <1>1
  <2>3. f \in [D -> Int]
    BY <1>1
  <2>4. h \in [D \cup {x} -> Int]
    BY <1>1
  <2> HIDE DEF D, f, h
  <2>5. \A ff \in [D -> Int], hh \in [D \cup {x} -> Int] :
          (\A y \in D : hh[y] = ff[y]) => SumFunction(hh) = SumFunction(ff) + hh[x]
    BY ONLY <2>1, <2>2, SumFunctionGrow
  <2> QED BY ONLY <1>3, <2>3, <2>4, <2>5
<1> QED BY <1>1, <1>2, <1>4 DEF TotalOf

LEMMA LedgerStep == TypeOK /\ StepInv /\ LedgerInv /\ [Next]_vars => LedgerInv'
<1> SUFFICES ASSUME TypeOK, StepInv, LedgerInv, [Next]_vars PROVE LedgerInv'
  OBVIOUS
<1>0. /\ total_requested \in Nat /\ env.qty \in Nat
      /\ demand \in Seq(DemandOrderType) /\ TotalOf(demand) \in Nat
      /\ Fulfilled = TotalOf(demand) /\ Fulfilled' = TotalOf(demand')
      /\ env.open \in SUBSET Nat /\ env.open \subseteq DOMAIN demand
  BY CreditsType DEF TypeOK, EnvType, WarehouseType, Fulfilled, TotalOf, CreditsOf
<1>1. ASSUME UNCHANGED <<total_requested, demand>>, env'.qty = env.qty,
             env'.pc = "credit" => env.pc = "credit" /\ env'.open = env.open
      PROVE  LedgerInv'
  BY <1>1 DEF LedgerInv, Fulfilled
<1>2. CASE EnvLoop \/ FactoryDelivered \/ BeginShipments \/ EndShipments
  BY <1>1, <1>2, MoveOnEffect DEF MoveOn, warehouseVars
<1>3. CASE RunCycle \/ OnGoodFinishedUnit \/ RecordSnapshot \/ CountBreach \/ Publish
           \/ CountCycle
  <2>1. UNCHANGED <<total_requested, demand>>
    BY <1>3 DEF RunCycle, OnGoodFinishedUnit, RecordSnapshot, CountBreach, Publish,
       CountCycle, warehouseVars
  <2>2. \E p \in EnvSteps \ {"credit"} : EnvTo(p)
    BY <1>3 DEF RunCycle, OnGoodFinishedUnit, RecordSnapshot, CountBreach, Publish,
       CountCycle, EnvSteps
  <2>3. env'.qty = env.qty /\ env'.pc # "credit"
    BY <2>2, EnvToType
  <2> QED BY <1>1, <2>1, <2>3
<1>4. CASE DeliverFactoryOrder
  <2>1. UNCHANGED <<total_requested, demand>>
    BY <1>4 DEF DeliverFactoryOrder, warehouseVars
  <2> QED BY <1>1, <1>4, <2>1, DeliverEffect
<1>5. CASE ShipOrder
  <2>1. UNCHANGED demand /\ env.qty = 0
    BY <1>5 DEF ShipOrder, StepInv, EnvAt
  <2>2. CASE env'.qty = env.qty /\ env'.pc = "orders" /\ UNCHANGED total_requested
    BY <1>1, <2>1, <2>2
  <2>3. CASE /\ env'.pc = "credit" /\ env'.open = env.open /\ env'.qty > 0
             /\ env'.qty <= Remaining(demand[Min(env.open)])
             /\ total_requested' = total_requested + env'.qty
    <3>1. Min(env'.open) = Min(env.open)
      BY <2>3
    <3>2. total_requested' = Fulfilled' + env'.qty
      BY <1>0, <2>1, <2>3 DEF LedgerInv
    <3>3. env'.qty <= Remaining(demand'[Min(env'.open)])
      BY <2>1, <2>3
    <3> QED BY <2>1, <3>2, <3>3 DEF LedgerInv
  <2> QED BY <1>5, <2>2, <2>3, ShipEffect
<1>6. CASE CreditOrder
  <2> DEFINE m == Min(env.open)
             o == demand[m]
             n == Credited(o, env.qty)
  <2>1. env.pc = "credit" /\ env.open # {} /\ env.qty > 0 /\ UNCHANGED total_requested
    BY <1>6 DEF CreditOrder, StepInv, EnvAt, warehouseVars
  <2>2. /\ m \in DOMAIN demand /\ o \in DemandOrderType
        /\ demand' \in Seq(DemandOrderType) /\ DOMAIN demand' = DOMAIN demand
        /\ demand'[m] = n
        /\ \A j \in DOMAIN demand : j # m => demand'[j] = demand[j]
        /\ env'.pc = "orders" /\ env'.qty = 0
    BY <1>6, <2>1, CreditEffect
  <2>3. env.qty <= Remaining(o) /\ LedgerEntry(o)
    BY <2>1, <2>2 DEF LedgerInv
  <2> HIDE DEF m, o, n
  <2>4. /\ n \in DemandOrderType /\ n.quantity = o.quantity
        /\ n.fulfilled = o.fulfilled + (IF env.qty <= Remaining(o) THEN env.qty ELSE Remaining(o))
        /\ Remaining(o) = IF o.quantity > o.fulfilled THEN o.quantity - o.fulfilled ELSE 0
        /\ n.status = (IF n.fulfilled >= o.quantity THEN "FULFILLED"
                       ELSE IF n.fulfilled > 0 THEN "PARTIAL" ELSE o.status)
    BY <1>0, <2>2, CreditType DEF n
  <2>5. o.quantity \in Nat /\ o.fulfilled \in Nat
    BY <2>2 DEF DemandOrderType
  <2>6. n.fulfilled = o.fulfilled + env.qty /\ n.fulfilled <= o.quantity /\ n.fulfilled > 0
    BY <1>0, <2>1, <2>3, <2>4, <2>5
  <2>7. LedgerEntry(n)
    <3>1. CASE n.fulfilled = o.quantity
      BY <2>4, <2>5, <2>6, <3>1 DEF LedgerEntry
    <3>2. CASE n.fulfilled < o.quantity
      <4>1. n.status = "PARTIAL" /\ n.fulfilled # 0 /\ n.fulfilled # n.quantity
        BY <1>0, <2>4, <2>5, <2>6, <3>2
      <4> QED BY <2>4, <2>6, <4>1 DEF LedgerEntry
    <3> QED BY <1>0, <2>5, <2>6, <3>1, <3>2
  <2>8. TotalOf(demand') = TotalOf(demand) + (n.fulfilled - o.fulfilled)
    BY <1>0, <2>2, TotalCredited DEF o
  <2>9. total_requested' = Fulfilled' + env'.qty
    BY <1>0, <2>1, <2>2, <2>5, <2>6, <2>8 DEF LedgerInv
  <2>10. \A i \in DOMAIN demand' : LedgerEntry(demand'[i])
    BY <2>2, <2>7 DEF LedgerInv
  <2> QED BY <2>2, <2>9, <2>10 DEF LedgerInv, LedgerEntry
<1>7. CASE NewDemandOrder
  <2> DEFINE x == Len(demand) + 1
  <2>1. UNCHANGED <<env, total_requested>>
    BY <1>7 DEF NewDemandOrder, warehouseVars
  <2>2. /\ demand' \in Seq(DemandOrderType) /\ DOMAIN demand' = DOMAIN demand \cup {x}
        /\ x \notin DOMAIN demand /\ demand'[x] = DemandOrder(ev.qty) /\ ev.qty \in Nat
        /\ \A i \in DOMAIN demand : demand'[i] = demand[i]
    BY <1>7, NewDemandEffect
  <2> HIDE DEF x
  <2>3. demand'[x].fulfilled = 0 /\ LedgerEntry(demand'[x])
    BY <2>2 DEF DemandOrder, LedgerEntry
  <2>4. TotalOf(demand') = TotalOf(demand)
    BY <1>0, <2>2, <2>3, TotalAppended
  <2>5. total_requested' = Fulfilled' + env'.qty
    BY <1>0, <2>1, <2>4 DEF LedgerInv
  <2>6. \A i \in DOMAIN demand' : LedgerEntry(demand'[i])
    BY <2>2, <2>3 DEF LedgerInv
  <2>7. env'.pc = "credit" => env'.qty <= Remaining(demand'[Min(env'.open)])
    <3>1. env.pc = "credit" => Min(env.open) \in DOMAIN demand
      BY <1>0, MinIn DEF StepInv
    <3>2. \A i \in DOMAIN demand : Remaining(demand'[i]) = Remaining(demand[i])
      BY <2>2
    <3> QED BY <2>1, <3>1, <3>2 DEF LedgerInv
  <2> QED BY <2>5, <2>6, <2>7 DEF LedgerInv, LedgerEntry
<1>8. CASE NewFactoryOrder \/ EventLoopEnds \/ MainNext \/ UNCHANGED vars
  <2>1. UNCHANGED <<env, total_requested, demand>>
    BY <1>8, MainEffect DEF NewFactoryOrder, EventLoopEnds, vars, warehouseVars
  <2> QED BY <1>1, <2>1
<1> QED
  BY <1>2, <1>3, <1>4, <1>5, <1>6, <1>7, <1>8 DEF Next, EnvNext, EventNext

-----------------------------------------------------------------------------
(* The recorded history.                                                    *)

\* The steps of a cycle before its stock is recorded, and before its breach is
\* counted.
BeforeRecord == {"deliver", "receive", "ship", "orders", "credit", "record"}
BeforeBreach == BeforeRecord \cup {"breach"}
BetweenCycles == {"loop", "cycle", "done"}

\* How many cycles the breach counter covers, and which of them were too low.
Counted == IF env.pc \in BeforeBreach THEN cycle - 1 ELSE cycle
LowCycles == {i \in 1..Counted : stock_history[i] < SafetyStock}

\* RecordsAgree, and how far the history and the breach counter have come.
HistoryInv ==
  /\ env.pc \notin BetweenCycles => cycle >= 1
  /\ Len(stock_history) = IF env.pc \in BeforeRecord THEN cycle - 1 ELSE cycle
  /\ env.pc \in {"breach", "publish"} => stock_history[cycle] = stock
  /\ breaches = Cardinality(LowCycles)
  /\ SnapshotMatchesHistory

LEMMA HistoryStep == TypeOK /\ StepInv /\ HistoryInv /\ [Next]_vars => HistoryInv'
<1> SUFFICES ASSUME TypeOK, StepInv, HistoryInv, [Next]_vars PROVE HistoryInv'
  OBVIOUS
<1> USE DEF BeforeRecord, BeforeBreach, BetweenCycles
<1>0. /\ cycle \in Nat /\ stock \in Nat /\ breaches \in Nat
      /\ stock_history \in Seq(Nat) /\ Len(stock_history) \in Nat
      /\ SafetyStock \in Int /\ env.pc \in EnvSteps
  BY TargetType DEF TypeOK, EnvType, FactoryType, WarehouseType, RuntimeType
<1>1. ASSUME UNCHANGED <<cycle, stock_history, breaches, snapshot>>,
             env'.pc \in BeforeRecord <=> env.pc \in BeforeRecord,
             env'.pc \in BeforeBreach <=> env.pc \in BeforeBreach,
             env'.pc \notin BetweenCycles => env.pc \notin BetweenCycles \/ cycle >= 1,
             env'.pc \in {"breach", "publish"} =>
               env.pc \in {"breach", "publish"} /\ UNCHANGED stock
      PROVE  HistoryInv'
  <2>1. SnapshotMatchesHistory'
    BY <1>1 DEF HistoryInv, SnapshotMatchesHistory
  <2>2. Counted' = Counted
    BY <1>1 DEF Counted
  <2>3. LowCycles' = LowCycles
    BY <1>1, <2>2 DEF LowCycles
  <2> QED BY <1>1, <2>1, <2>3 DEF HistoryInv
<1>2. CASE EnvLoop \/ FactoryDelivered \/ BeginShipments \/ EndShipments \/ CountCycle
           \/ OnGoodFinishedUnit
  <2>1. UNCHANGED <<cycle, stock_history, breaches, snapshot>>
    BY <1>2 DEF EnvLoop, FactoryDelivered, BeginShipments, EndShipments,
       CountCycle, OnGoodFinishedUnit, factoryVars, warehouseVars
  <2>2. /\ env'.pc \in BeforeRecord <=> env.pc \in BeforeRecord
        /\ env'.pc \in BeforeBreach <=> env.pc \in BeforeBreach
        /\ env'.pc \notin BetweenCycles => env.pc \notin BetweenCycles
        /\ env'.pc \notin {"breach", "publish"}
    BY <1>2, EnvPc
  <2> QED BY <1>1, <2>1, <2>2
<1>3. CASE DeliverFactoryOrder \/ ShipOrder \/ CreditOrder
  <2>1. UNCHANGED <<cycle, stock_history, breaches, snapshot>>
    BY <1>3 DEF DeliverFactoryOrder, ShipOrder, CreditOrder, factoryVars, warehouseVars
  <2>2. /\ env.pc \in {"deliver", "orders", "credit"}
        /\ env'.pc \in {"deliver", "orders", "credit"}
    BY <1>3, DeliverEffect, ShipEffect, CreditEffect
       DEF DeliverFactoryOrder, ShipOrder, CreditOrder, EnvAt, StepInv
  <2> QED BY <1>1, <2>1, <2>2
<1>4. CASE EventNext \/ MainNext \/ UNCHANGED vars
  BY <1>1, <1>4, OthersFrame DEF warehouseVars, HistoryInv
<1>5. CASE RunCycle
  <2>1. /\ cycle' = cycle + 1 /\ UNCHANGED <<stock_history, breaches, snapshot>>
        /\ env.pc = "cycle" /\ env'.pc \in {"deliver", "ship"}
    BY <1>5, EnvPc DEF RunCycle, warehouseVars
  <2>2. Counted' = Counted
    BY <1>0, <2>1 DEF Counted
  <2>3. LowCycles' = LowCycles
    BY <2>1, <2>2 DEF LowCycles
  <2>4. SnapshotMatchesHistory'
    BY <2>1 DEF HistoryInv, SnapshotMatchesHistory
  <2> QED BY <1>0, <2>1, <2>3, <2>4 DEF HistoryInv
<1>6. CASE RecordSnapshot
  <2>1. /\ stock_history' = Append(stock_history, stock)
        /\ UNCHANGED <<cycle, stock, breaches, snapshot>>
        /\ env.pc = "record" /\ env'.pc = "breach"
    BY <1>6, EnvPc DEF RecordSnapshot, factoryVars
  <2>2. Counted' = Counted /\ Counted = Len(stock_history) /\ cycle = Len(stock_history) + 1
    BY <1>0, <2>1 DEF Counted, HistoryInv
  <2>3. /\ \A i \in 1..Len(stock_history) : stock_history'[i] = stock_history[i]
        /\ Len(stock_history') = Len(stock_history) + 1
        /\ stock_history'[Len(stock_history) + 1] = stock
        /\ DOMAIN stock_history \subseteq DOMAIN stock_history'
        /\ DOMAIN stock_history = 1..Len(stock_history)
    BY <1>0, <2>1
  <2>4. LowCycles' = LowCycles
    BY <2>2, <2>3 DEF LowCycles
  <2>5. SnapshotMatchesHistory'
    BY <2>1, <2>3 DEF HistoryInv, SnapshotMatchesHistory
  <2>6. stock_history'[cycle'] = stock'
    BY <2>1, <2>2, <2>3
  <2> QED BY <1>0, <2>1, <2>2, <2>3, <2>4, <2>5, <2>6 DEF HistoryInv
<1>7. CASE CountBreach
  <2>1. /\ breaches' = IF stock < SafetyStock THEN breaches + 1 ELSE breaches
        /\ UNCHANGED <<cycle, stock, stock_history, snapshot>>
        /\ env.pc = "breach" /\ env'.pc = "publish"
    BY <1>7, EnvPc DEF CountBreach, factoryVars, warehouseVars
  <2>2. Counted = cycle - 1 /\ Counted' = cycle /\ cycle >= 1
        /\ stock_history[cycle] = stock
    BY <1>0, <2>1 DEF Counted, HistoryInv
  <2>3. IsFiniteSet(LowCycles)
    <3>1. IsFiniteSet(1..Counted)
      BY <1>0, <2>2, FS_Interval
    <3> QED BY <3>1, FS_Subset DEF LowCycles
  <2>4. LowCycles' = IF stock < SafetyStock THEN LowCycles \cup {cycle} ELSE LowCycles
    <3>1. 1..cycle = (1..(cycle - 1)) \cup {cycle}
      BY <1>0, <2>2
    <3>2. LowCycles' = {i \in 1..cycle : stock_history[i] < SafetyStock}
      BY <2>1, <2>2 DEF LowCycles
    <3>3. LowCycles = {i \in 1..(cycle - 1) : stock_history[i] < SafetyStock}
      BY <2>2 DEF LowCycles
    <3> QED BY <2>2, <3>1, <3>2, <3>3
  <2>5. cycle \notin LowCycles
    BY <1>0, <2>2 DEF LowCycles
  <2>6. breaches' = Cardinality(LowCycles')
    <3>1. Cardinality(LowCycles \cup {cycle}) = Cardinality(LowCycles) + 1
      BY <2>3, <2>5, FS_AddElement
    <3>2. breaches = Cardinality(LowCycles)
      BY DEF HistoryInv
    <3> QED BY <2>1, <2>4, <3>1, <3>2
  <2>7. SnapshotMatchesHistory'
    BY <2>1 DEF HistoryInv, SnapshotMatchesHistory
  <2> QED BY <1>0, <2>1, <2>2, <2>6, <2>7 DEF HistoryInv
<1>8. CASE Publish
  <2>1. /\ snapshot' = [cycle |-> cycle, stock |-> stock]
        /\ UNCHANGED <<cycle, stock, stock_history, breaches>>
        /\ env.pc = "publish" /\ env'.pc = "count"
    BY <1>8, EnvPc DEF Publish, factoryVars, warehouseVars
  <2>2. Counted' = Counted
    BY <2>1 DEF Counted
  <2>3. LowCycles' = LowCycles
    BY <2>1, <2>2 DEF LowCycles
  <2>4. /\ Len(stock_history) = cycle /\ cycle >= 1 /\ stock_history[cycle] = stock
    BY <2>1 DEF HistoryInv
  <2>5. cycle \in DOMAIN stock_history
    BY <1>0, <2>4
  <2>6. SnapshotMatchesHistory'
    BY <2>1, <2>4, <2>5 DEF SnapshotMatchesHistory
  <2> QED BY <1>0, <2>1, <2>3, <2>4, <2>6 DEF HistoryInv
<1> QED
  BY <1>2, <1>3, <1>4, <1>5, <1>6, <1>7, <1>8 DEF Next, EnvNext

-----------------------------------------------------------------------------
(* The results.                                                             *)

AfterStop == {"totals", "stock", "level", "rest", "written"}

ResultsInv ==
  /\ total_shipped <= total_requested
  /\ total_cycles = IF env.pc \in BetweenCycles THEN cycle ELSE cycle - 1
  /\ env.pc \notin BetweenCycles => cycle >= 1
  /\ breaches <= IF env.pc \in BeforeBreach THEN cycle - 1 ELSE cycle
  /\ main.pc \in AfterStop => ~running
  /\ main.pc # "poll" /\ ~main.interrupted => total_cycles >= TargetCycles
  /\ main.pc \in {"stock", "level", "rest"} =>
       /\ cycle + (IF env.pc = "cycle" THEN 1 ELSE 0) <= results.cycles + 1
       /\ ~main.interrupted => results.cycles >= TargetCycles
  /\ main.pc \in {"level", "rest"} => results.stock + total_shipped >= Config.stock
  /\ main.pc = "rest" => results.level.requested <= total_requested
  /\ ResultsCoherent

LEMMA ResultsStep ==
  TypeOK /\ StepInv /\ GoodsInv /\ ResultsInv /\ [Next]_vars => ResultsInv'
<1> SUFFICES ASSUME TypeOK, StepInv, GoodsInv, ResultsInv, [Next]_vars PROVE ResultsInv'
  OBVIOUS
<1> USE DEF BeforeRecord, BeforeBreach, BetweenCycles, AfterStop
<1>0. /\ cycle \in Nat /\ stock \in Nat /\ breaches \in Nat /\ total_cycles \in Nat
      /\ total_requested \in Nat /\ total_shipped \in Nat
      /\ TargetCycles \in Int /\ Config.stock \in Nat
      /\ results.cycles \in Nat /\ results.stock \in Nat
      /\ results.level.requested \in Nat
      /\ env.pc \in EnvSteps /\ main.pc \in MainSteps
  BY TargetType, ConfigType DEF TypeOK, EnvType, FactoryType, WarehouseType,
     RuntimeType, MainType, LevelType
\* A step of SC-ENV that ships, or only moves on.
<1>1. ASSUME UNCHANGED <<cycle, breaches, total_cycles, running, mainVars>>,
             env'.pc \in BetweenCycles <=> env.pc \in BetweenCycles,
             env'.pc \in BeforeBreach <=> env.pc \in BeforeBreach,
             env'.pc = "cycle" => env.pc = "cycle" \/ running,
             total_shipped' \in Nat, total_requested' \in Nat,
             total_shipped <= total_shipped', total_requested <= total_requested',
             total_shipped' <= total_requested'
      PROVE  ResultsInv'
  <2>1. UNCHANGED <<main, results>>
    BY <1>1 DEF mainVars
  <2>2. ResultsCoherent'
    BY <2>1 DEF ResultsInv, ResultsCoherent
  <2>3. main.pc \in {"stock", "level", "rest"} =>
          cycle + (IF env'.pc = "cycle" THEN 1 ELSE 0) <= results.cycles + 1
    BY <1>0, <1>1 DEF ResultsInv
  <2>4. main.pc \in {"level", "rest"} => results.stock + total_shipped' >= Config.stock
    BY <1>0, <1>1 DEF ResultsInv
  <2>5. main.pc = "rest" => results.level.requested <= total_requested'
    BY <1>0, <1>1 DEF ResultsInv
  <2> QED BY <1>1, <2>1, <2>2, <2>3, <2>4, <2>5 DEF ResultsInv
<1>2. CASE EnvLoop \/ FactoryDelivered \/ BeginShipments \/ EndShipments
           \/ OnGoodFinishedUnit \/ RecordSnapshot \/ Publish
  <2>1. UNCHANGED <<cycle, breaches, total_cycles, running, mainVars, total_shipped,
                    total_requested>>
    BY <1>2 DEF EnvLoop, FactoryDelivered, BeginShipments, EndShipments,
       OnGoodFinishedUnit, RecordSnapshot, Publish, factoryVars, warehouseVars
  <2>2. /\ env'.pc \in BetweenCycles <=> env.pc \in BetweenCycles
        /\ env'.pc \in BeforeBreach <=> env.pc \in BeforeBreach
        /\ env'.pc = "cycle" => running
    BY <1>2, EnvPc
  <2>3. total_shipped <= total_requested
    BY DEF ResultsInv
  <2> QED BY <1>0, <1>1, <2>1, <2>2, <2>3
<1>3. CASE DeliverFactoryOrder \/ CreditOrder
  <2>1. UNCHANGED <<cycle, breaches, total_cycles, running, mainVars, total_shipped,
                    total_requested>>
    BY <1>3 DEF DeliverFactoryOrder, CreditOrder, factoryVars, warehouseVars
  <2>2. /\ env.pc \in {"deliver", "credit"} /\ env'.pc \in {"deliver", "orders"}
    BY <1>3, DeliverEffect, CreditEffect DEF DeliverFactoryOrder, CreditOrder, EnvAt,
       StepInv
  <2>3. total_shipped <= total_requested
    BY DEF ResultsInv
  <2> QED BY <1>0, <1>1, <2>1, <2>2, <2>3
<1>4. CASE ShipOrder
  <2>1. UNCHANGED <<cycle, breaches, total_cycles, running, mainVars>>
        /\ env.pc = "orders"
    BY <1>4 DEF ShipOrder, factoryVars, EnvAt
  <2>2. env'.pc \in {"orders", "credit"} /\ env'.qty \in Nat
    BY <1>4, ShipEffect
  <2>3. /\ total_shipped' \in Nat /\ total_requested' \in Nat
        /\ total_shipped <= total_shipped' /\ total_requested <= total_requested'
        /\ total_shipped' <= total_requested'
    <3>1. total_shipped <= total_requested
      BY DEF ResultsInv
    <3> QED BY <1>0, <1>4, <2>2, <3>1, ShipEffect
  <2> QED BY <1>1, <2>1, <2>2, <2>3
<1>5. CASE RunCycle
  <2>1. /\ cycle' = cycle + 1 /\ env.pc = "cycle" /\ env'.pc \in {"deliver", "ship"}
        /\ UNCHANGED <<breaches, total_cycles, running, main, results, total_shipped,
                       total_requested>>
    BY <1>5, EnvPc DEF RunCycle, warehouseVars, mainVars
  <2>2. ResultsCoherent'
    BY <2>1 DEF ResultsInv, ResultsCoherent
  <2>3. main.pc \in {"stock", "level", "rest"} => cycle' <= results.cycles + 1
    BY <1>0, <2>1 DEF ResultsInv
  <2>4. total_cycles' = cycle' - 1 /\ breaches' <= cycle' - 1 /\ cycle' >= 1
    BY <1>0, <2>1 DEF ResultsInv
  <2>5. main.pc \in {"stock", "level", "rest"} =>
          cycle' + (IF env'.pc = "cycle" THEN 1 ELSE 0) <= results.cycles + 1
    BY <1>0, <2>1, <2>3
  <2> QED BY <2>1, <2>2, <2>4, <2>5 DEF ResultsInv
<1>6. CASE CountBreach
  <2>1. /\ breaches' \in {breaches, breaches + 1}
        /\ env.pc = "breach" /\ env'.pc = "publish"
        /\ UNCHANGED <<cycle, total_cycles, running, main, results, total_shipped,
                       total_requested>>
    BY <1>6, EnvPc DEF CountBreach, factoryVars, warehouseVars, mainVars
  <2>2. ResultsCoherent'
    BY <2>1 DEF ResultsInv, ResultsCoherent
  <2>3. breaches' <= cycle
    BY <1>0, <2>1 DEF ResultsInv
  <2> QED BY <2>1, <2>2, <2>3 DEF ResultsInv
<1>7. CASE CountCycle
  <2>1. /\ total_cycles' = cycle /\ env.pc = "count" /\ env'.pc = "loop"
        /\ UNCHANGED <<cycle, breaches, running, main, results, total_shipped,
                       total_requested>>
    BY <1>7, EnvPc DEF CountCycle, factoryVars, warehouseVars, mainVars
  <2>2. ResultsCoherent'
    BY <2>1 DEF ResultsInv, ResultsCoherent
  <2>3. total_cycles = cycle - 1
    BY <2>1 DEF ResultsInv
  <2>4. main.pc # "poll" /\ ~main.interrupted => total_cycles' >= TargetCycles
    BY <1>0, <2>1, <2>3 DEF ResultsInv
  <2> QED BY <2>1, <2>2, <2>4 DEF ResultsInv
<1>8. CASE EventNext \/ UNCHANGED vars
  <2>1. UNCHANGED <<env, cycle, breaches, total_cycles, running, mainVars, total_shipped,
                    total_requested>>
    BY <1>8 DEF EventNext, NewFactoryOrder, NewDemandOrder, EventLoopEnds, vars,
       factoryVars, warehouseVars
  <2>2. total_shipped <= total_requested
    BY DEF ResultsInv
  <2> QED BY <1>0, <1>1, <2>1, <2>2
<1>9. CASE MainNext
  <2>1. UNCHANGED <<env, cycle, breaches, total_cycles, total_shipped, total_requested,
                    stock>>
    BY <1>9, MainEffect DEF factoryVars, warehouseVars
  <2>2. stock + total_shipped >= Config.stock
    <3>1. produced \in Nat
      BY DEF TypeOK, FactoryType
    <3> QED BY <1>0, <3>1 DEF GoodsInv, GoodsBooked
  <2>3. /\ cycle + (IF env.pc = "cycle" THEN 1 ELSE 0) <= total_cycles + 1
        /\ total_shipped <= total_requested /\ breaches <= cycle
    BY <1>0 DEF ResultsInv
  <2>4. CASE main.pc = "poll"
    BY <1>9, <2>1, <2>4, MainEffect DEF ResultsInv, ResultsCoherent
  <2>5. CASE main.pc = "stop"
    BY <1>9, <2>1, <2>5, MainEffect DEF ResultsInv, ResultsCoherent
  <2>6. CASE main.pc = "totals"
    BY <1>9, <2>1, <2>3, <2>6, MainEffect DEF ResultsInv, ResultsCoherent
  <2>7. CASE main.pc = "stock"
    BY <1>9, <2>1, <2>2, <2>7, MainEffect DEF ResultsInv, ResultsCoherent
  <2>8. CASE main.pc = "level"
    BY <1>0, <1>9, <2>1, <2>8, MainEffect DEF ResultsInv, ResultsCoherent
  <2>9. CASE main.pc = "rest"
    <3>1. /\ main'.pc = "written" /\ UNCHANGED running
          /\ main'.interrupted = main.interrupted
          /\ results'.cycles = results.cycles /\ results'.stock = results.stock
          /\ results'.level = results.level
          /\ results'.shipped = total_shipped /\ results'.requested = total_requested
          /\ results'.breaches = breaches
      BY <1>9, <2>9, MainEffect
    <3>2. breaches <= results.cycles + 1
      BY <1>0, <2>3, <2>9 DEF ResultsInv
    <3>3. ResultsCoherent'
      BY <2>3, <2>9, <3>1, <3>2 DEF ResultsInv, ResultsCoherent
    <3> QED BY <2>1, <2>9, <3>1, <3>3 DEF ResultsInv
  <2> QED BY <1>9, <2>4, <2>5, <2>6, <2>7, <2>8, <2>9, MainEffect
<1> QED
  BY <1>2, <1>3, <1>4, <1>5, <1>6, <1>7, <1>8, <1>9 DEF Next, EnvNext

-----------------------------------------------------------------------------
LEMMA InvInit == Init => StepInv /\ GoodsInv /\ LedgerInv /\ HistoryInv /\ ResultsInv
<1> SUFFICES ASSUME Init
             PROVE  StepInv /\ GoodsInv /\ LedgerInv /\ HistoryInv /\ ResultsInv
  OBVIOUS
<1> USE DEF Init, EnvironmentInit, DemandInit, StartThreads
<1>1. StepInv
  BY DEF StepInv
<1>2. GoodsInv
  BY ConfigType DEF GoodsInv, GoodsBooked
<1>3. LedgerInv
  <2>1. demand \in Seq(DemandOrderType)
    BY TypeInit DEF TypeOK
  <2>2. \A i \in DOMAIN demand : CreditsOf(demand)[i] = 0
    BY DEF CreditsOf, DemandOrder
  <2>3. TotalOf(demand) = 0
    <3> HIDE DEF Init, DemandInit
    <3> QED BY <2>1, <2>2, CreditsType, SumZero
  <2>4. Fulfilled = 0
    BY <2>3 DEF Fulfilled, TotalOf, CreditsOf
  <2>5. \A i \in DOMAIN demand : LedgerEntry(demand[i])
    <3>1. \A i \in DOMAIN Config.initial_orders : Config.initial_orders[i] \in Nat
      BY ConfigType
    <3>2. \A q \in Nat : LedgerEntry(DemandOrder(q))
      BY DEF LedgerEntry, DemandOrder
    <3> QED BY <3>1, <3>2
  <2>6. total_requested = 0 /\ env.qty = 0 /\ env.pc # "credit"
    OBVIOUS
  <2> HIDE DEF Init, DemandInit, EnvironmentInit, StartThreads
  <2> QED BY <2>4, <2>5, <2>6 DEF LedgerInv
<1>4. HistoryInv
  <2>1. LowCycles = {}
    BY DEF LowCycles, Counted, BeforeBreach, BeforeRecord
  <2>2. SnapshotMatchesHistory
    BY DEF SnapshotMatchesHistory
  <2> QED BY <2>1, <2>2, FS_EmptySet DEF HistoryInv, BetweenCycles, BeforeRecord
<1>5. ResultsInv
  BY DEF ResultsInv, ResultsCoherent, BetweenCycles, BeforeBreach, BeforeRecord, AfterStop
<1> QED BY <1>1, <1>2, <1>3, <1>4, <1>5

\* Every good part is in exactly one of the two counts of finished goods,
\* whatever the factory's own shipments took in between.
THEOREM GoodsAreBooked == Spec => []GoodsBooked
<1> DEFINE Inv == TypeOK /\ StepInv /\ GoodsInv
<1>1. Init => Inv
  BY TypeInit, InvInit
<1>2. Inv /\ [Next]_vars => Inv'
  BY TypeStep, GoodsStep
<1>3. Inv => GoodsBooked
  BY DEF GoodsInv
<1> QED
  BY <1>1, <1>2, <1>3, PTL DEF Spec

\* What the warehouse was asked for is what the orders were credited with, to
\* the unit, for every list of orders and also while new ones arrive.
THEOREM CreditsMatchRequests == Spec => []RequestedIsCredited
<1> DEFINE Inv == TypeOK /\ StepInv /\ LedgerInv
<1>1. Init => Inv
  BY TypeInit, InvInit
<1>2. Inv /\ [Next]_vars => Inv'
  BY TypeStep, LedgerStep
<1>3. Inv => RequestedIsCredited
  BY DEF LedgerInv, LedgerEntry, RequestedIsCredited
<1> QED
  BY <1>1, <1>2, <1>3, PTL DEF Spec

\* The breach counter and the published snapshot agree with the recorded
\* history of the warehouse, in runs of any length.
THEOREM RecordsAlwaysAgree == Spec => []RecordsAgree
<1> DEFINE Inv == TypeOK /\ StepInv /\ HistoryInv
<1>1. Init => Inv
  BY TypeInit, InvInit
<1>2. Inv /\ [Next]_vars => Inv'
  BY TypeStep, HistoryStep
<1>3. Inv => RecordsAgree
  <2> SUFFICES ASSUME Inv PROVE RecordsAgree
    OBVIOUS
  <2>1. SnapshotMatchesHistory
    BY DEF HistoryInv
  <2>2. ASSUME env.pc # "breach"
        PROVE  breaches = Cardinality({i \in DOMAIN stock_history :
                                         stock_history[i] < SafetyStock})
    <3>1. Counted = Len(stock_history)
      BY <2>2 DEF HistoryInv, Counted, BeforeBreach
    <3>2. DOMAIN stock_history = 1..Len(stock_history)
      BY DEF TypeOK, WarehouseType
    <3> QED BY <3>1, <3>2 DEF HistoryInv, LowCycles
  <2> QED BY <2>1, <2>2 DEF RecordsAgree, BreachesMatchHistory
<1> QED
  BY <1>1, <1>2, <1>3, PTL DEF Spec

\* The results a run writes are coherent although SC-ENV may still be at work:
\* stop() clears the flag and joins nobody.
THEOREM ResultsAreCoherent == Spec => []ResultsCoherent
<1> DEFINE Inv == TypeOK /\ StepInv /\ GoodsInv /\ ResultsInv
<1>1. Init => Inv
  BY TypeInit, InvInit
<1>2. Inv /\ [Next]_vars => Inv'
  BY TypeStep, GoodsStep, ResultsStep
<1>3. Inv => ResultsCoherent
  BY DEF ResultsInv
<1> QED
  BY <1>1, <1>2, <1>3, PTL DEF Spec
=============================================================================
