-------------------------- MODULE FactoryLineProofs --------------------------
(***************************************************************************)
(* Proofs about FactoryLine for every line, list of orders, set of          *)
(* materials and bound, with or without the switch points of Enum lookups,  *)
(* and about Machine, a station's own counters.                             *)
(***************************************************************************)
EXTENDS FactoryLine, Machine, SumLemmas, SequenceTheorems, TLAPS

\* A shipment takes no more than the warehouse has or the order lacks.
LEMMA ShipQtyBounds ==
  ASSUME NEW n \in Nat, NEW o \in OrderType, fg_stock \in Nat, ~IsComplete(o)
  PROVE  /\ ShipQty(n, o) \in Nat /\ ShipQty(n, o) <= fg_stock
         /\ o.delivered + ShipQty(n, o) <= o.quantity
  BY DEF ShipQty, Remaining, IsComplete, OrderType

\* Delivering to one order leaves the others alone.
LEMMA ShippedOrders ==
  ASSUME NEW os \in Seq(OrderType), NEW i \in 1..Len(os), NEW q \in Nat
  PROVE  /\ [os EXCEPT ![i].delivered = @ + q] \in Seq(OrderType)
         /\ DOMAIN [os EXCEPT ![i].delivered = @ + q] = DOMAIN os
         /\ [os EXCEPT ![i].delivered = @ + q][i].delivered = os[i].delivered + q
         /\ \A j \in DOMAIN os :
              /\ [os EXCEPT ![i].delivered = @ + q][j].quantity = os[j].quantity
              /\ j # i => [os EXCEPT ![i].delivered = @ + q][j] = os[j]
<1> DEFINE e == [os[i] EXCEPT !.delivered = @ + q]
<1>1. os[i] \in OrderType
  BY ElementOfSeq
<1>2. /\ e \in OrderType /\ e.delivered = os[i].delivered + q
      /\ e.quantity = os[i].quantity
  <2> HIDE DEF e
  <2> SUFFICES ASSUME NEW o \in OrderType, e = [o EXCEPT !.delivered = @ + q],
                      o = os[i]
               PROVE  /\ e \in OrderType /\ e.delivered = o.delivered + q
                      /\ e.quantity = o.quantity
    BY <1>1 DEF e
  <2>1. o.delivered \in Nat /\ o.quantity \in Nat
    BY DEF OrderType
  <2>2. e = [quantity |-> o.quantity, delivered |-> o.delivered + q]
    BY DEF OrderType
  <2>3. o.delivered + q \in Nat
    BY <2>1
  <2>4. e \in OrderType
    BY <2>1, <2>2, <2>3, Zenon DEF OrderType
  <2> QED BY <2>2, <2>4
<1>3. [os EXCEPT ![i] = e] \in Seq(OrderType)
  BY <1>2, ExceptSeq
<1> QED
  BY <1>2, <1>3

LEMMA TypeInit == Init => TypeOK
<1> SUFFICES ASSUME Init PROVE TypeOK
  OBVIOUS
<1>1. orders \in Seq(OrderType)
  <2>1. FirstOrders \in [1..Len(FirstOrders) -> Nat] /\ Len(FirstOrders) \in Nat
    BY FactoryAssumption
  <2>2. orders \in [1..Len(FirstOrders) -> OrderType]
    BY <2>1 DEF Init, Order, OrderType
  <2> QED BY <2>1, <2>2
<1>2. StationType
  BY DEF Init, StationType, MachineState
<1>3. ProductType
  BY DEF Init, ProductType, ProductStatus
<1>4. MaterialType
  BY FactoryAssumption DEF Init, MaterialType
<1>5. ThreadType
  BY FactoryAssumption DEF Init, ThreadType, Steps, LineSteps, StationIds
<1> QED
  BY <1>1, <1>2, <1>3, <1>4, <1>5 DEF TypeOK

\* What a step that leaves a group of variables alone leaves well typed.
LEMMA TypeFrame ==
  ASSUME TypeOK
  PROVE  /\ UNCHANGED stationVars => StationType'
         /\ UNCHANGED productVars => ProductType'
         /\ UNCHANGED materialVars => MaterialType'
         /\ UNCHANGED orders => orders' \in Seq(OrderType)
<1>1. UNCHANGED stationVars => StationType'
  BY DEF TypeOK, StationType, stationVars
<1>2. UNCHANGED productVars => ProductType'
  BY DEF TypeOK, ProductType, productVars
<1>3. UNCHANGED materialVars => MaterialType'
  BY DEF TypeOK, MaterialType, materialVars
<1> QED
  BY <1>1, <1>2, <1>3 DEF TypeOK

\* Counting up one element of a function into the naturals.
LEMMA CountUp ==
  ASSUME NEW S, NEW f \in [S -> Nat], NEW x \in S, NEW n \in Nat
  PROVE  [f EXCEPT ![x] = @ + n] \in [S -> Nat]
  OBVIOUS

\* The steps at the current station, on which the loop still is.
LEMMA StationStep ==
  ASSUME TypeOK, StepInv,
         CheckStation \/ EnterMachine \/ EnteredMachine \/ JudgeQuality
  PROVE  k \in StationIds
  BY FactoryAssumption DEF StepInv, CheckStation, EnterMachine, EnteredMachine,
     JudgeQuality, TypeOK, ThreadType, StationIds

LEMMA TypeLine ==
  ASSUME TypeOK, StepInv,
         CheckStation \/ EnterMachine \/ EnteredMachine \/ JudgeQuality
  PROVE  TypeOK'
<1>1. k \in StationIds
  BY StationStep
<1>2. StationType'
  <2>1. [held EXCEPT ![k] = @ + 1] \in [StationIds -> Nat]
    BY <1>1, CountUp DEF TypeOK, StationType
  <2>2. [total_cycles EXCEPT ![k] = @ + 1] \in [StationIds -> Nat]
    BY <1>1, CountUp DEF TypeOK, StationType
  <2>3. [good_count EXCEPT ![k] = @ + 1] \in [StationIds -> Nat]
    BY <1>1, CountUp DEF TypeOK, StationType
  <2>4. [defect_count EXCEPT ![k] = @ + 1] \in [StationIds -> Nat]
    BY <1>1, CountUp DEF TypeOK, StationType
  <2>5. [state EXCEPT ![k] = "RUNNING"] \in [StationIds -> MachineState]
    BY <1>1 DEF TypeOK, StationType, MachineState
  <2> QED
    BY <2>1, <2>2, <2>3, <2>4, <2>5
       DEF TypeOK, StationType, CheckStation, EnterMachine, EnteredMachine,
           JudgeQuality, RunMachine
<1>3. ProductType'
  BY DEF TypeOK, ProductType, CheckStation, EnterMachine, EnteredMachine,
     JudgeQuality, ProductStatus, productVars
<1>4. MaterialType' /\ orders' \in Seq(OrderType)
  BY TypeFrame DEF CheckStation, EnterMachine, EnteredMachine, JudgeQuality
<1>5. ThreadType'
  BY DEF TypeOK, ThreadType, CheckStation, EnterMachine, EnteredMachine,
     JudgeQuality, RunMachine, snapVars, eventVars, Steps, LineSteps
<1> QED
  BY <1>2, <1>3, <1>4, <1>5 DEF TypeOK

\* What shipping does to the warehouse and the orders.
LEMMA ShipEffect ==
  ASSUME TypeOK, ShipNext
  PROVE  /\ orders' \in Seq(OrderType) /\ fg_stock' \in Nat
         /\ NoOverDelivery => NoOverDelivery'
<1>1. CASE UNCHANGED <<orders, fg_stock>>
  BY <1>1 DEF TypeOK, ProductType, NoOverDelivery
<1>2. ASSUME NEW n \in 1..ShipMax, ~IsComplete(orders[k]),
             orders' = [orders EXCEPT ![k].delivered = @ + ShipQty(n, orders[k])],
             fg_stock' = fg_stock - ShipQty(n, orders[k])
      PROVE  /\ orders' \in Seq(OrderType) /\ fg_stock' \in Nat
             /\ NoOverDelivery => NoOverDelivery'
  <2>1. k \in 1..Len(orders) /\ orders \in Seq(OrderType) /\ fg_stock \in Nat
    BY DEF ShipNext, TypeOK, ThreadType, ProductType
  <2>2. orders[k] \in OrderType
    BY <2>1, ElementOfSeq
  <2>3. n \in Nat
    BY FactoryAssumption
  <2>4. /\ ShipQty(n, orders[k]) \in Nat /\ ShipQty(n, orders[k]) <= fg_stock
        /\ orders[k].delivered + ShipQty(n, orders[k]) <= orders[k].quantity
    BY <1>2, <2>1, <2>2, <2>3, ShipQtyBounds
  <2> DEFINE q == ShipQty(n, orders[k])
  <2>5. orders' = [orders EXCEPT ![k].delivered = @ + q]
    BY <1>2
  <2>6. q \in Nat /\ orders[k].delivered + q <= orders[k].quantity
    BY <2>4
  <2> HIDE DEF q
  <2>7. /\ orders' \in Seq(OrderType)
        /\ DOMAIN orders' = DOMAIN orders
        /\ orders'[k].delivered = orders[k].delivered + q
        /\ \A j \in DOMAIN orders : /\ orders'[j].quantity = orders[j].quantity
                                    /\ j # k => orders'[j] = orders[j]
    BY <2>1, <2>5, <2>6, ShippedOrders
  <2>8. NoOverDelivery => NoOverDelivery'
    BY <2>6, <2>7 DEF NoOverDelivery
  <2> QED BY <1>2, <2>1, <2>4, <2>7, <2>8
<1> QED
  BY <1>1, <1>2 DEF ShipNext

LEMMA TypeShip == ASSUME TypeOK, ShipNext PROVE TypeOK'
<1>1. StationType' /\ MaterialType'
  BY TypeFrame DEF ShipNext
<1>2. ProductType' /\ orders' \in Seq(OrderType)
  BY ShipEffect DEF ShipNext, TypeOK, ProductType
<1>3. ThreadType'
  BY DEF ShipNext, TypeOK, ThreadType, snapVars, eventVars
<1> QED
  BY <1>1, <1>2, <1>3 DEF TypeOK

LEMMA TypeMaterial ==
  ASSUME TypeOK, StepInv,
         ConsumeRead \/ ConsumeWrite \/ RefillAdd
           \/ \E m \in MaterialIds, q \in Arrivals : MaterialArrival(m, q)
  PROVE  TypeOK'
<1>1. k \in Nat /\ (pc \in {"store", "add"} => k \in MaterialIds)
      /\ (pc = "consume" /\ k <= NumMaterials => k \in MaterialIds)
  BY FactoryAssumption DEF TypeOK, ThreadType, StepInv, MaterialIds
<1>2. MaterialType'
  <2> USE FactoryAssumption DEF TypeOK, MaterialType
  <2>1. CASE ConsumeRead
    <3>1. PICK c \in Consumption[k] :
            /\ left' = IF stock[k] > c THEN stock[k] - c ELSE 0
            /\ used' = [used EXCEPT ![k] = @ + c]
      BY <2>1 DEF ConsumeRead
    <3>2. k \in MaterialIds
      BY <1>1, <2>1 DEF ConsumeRead
    <3>3. c \in Nat /\ stock[k] \in Nat
      BY <3>1, <3>2 DEF MaterialIds
    <3>4. left' \in Nat
      BY <3>1, <3>3
    <3>5. used' \in [MaterialIds -> Nat]
      BY <3>1, <3>2, <3>3
    <3> QED BY <2>1, <3>4, <3>5 DEF ConsumeRead
  <2>2. CASE ConsumeWrite
    BY <1>1, <2>2 DEF ConsumeWrite
  <2>3. CASE RefillAdd
    <3>1. PICK q \in Arrivals : AddStock(k, q)
      BY <2>3 DEF RefillAdd
    <3>2. k \in MaterialIds /\ q \in Nat
      BY <1>1, <2>3, <3>1 DEF RefillAdd
    <3>3. stock' \in [MaterialIds -> Nat] /\ arrived' \in [MaterialIds -> Nat]
      BY <3>1, <3>2, CountUp DEF AddStock
    <3> QED BY <2>3, <3>3 DEF RefillAdd
  <2>4. ASSUME NEW m \in MaterialIds, NEW q \in Arrivals, MaterialArrival(m, q)
        PROVE  MaterialType'
    <3>1. stock' \in [MaterialIds -> Nat] /\ arrived' \in [MaterialIds -> Nat]
      BY <2>4, CountUp DEF MaterialArrival, AddStock
    <3> QED BY <2>4, <3>1 DEF MaterialArrival
  <2> QED BY <2>1, <2>2, <2>3, <2>4
<1>3. StationType' /\ ProductType' /\ orders' \in Seq(OrderType)
  BY TypeFrame DEF ConsumeRead, ConsumeWrite, RefillAdd, MaterialArrival
<1>4. ThreadType'
  BY DEF TypeOK, ThreadType, ConsumeRead, ConsumeWrite, RefillAdd,
     MaterialArrival, Steps, LineSteps, snapVars, eventVars
<1> QED
  BY <1>2, <1>3, <1>4 DEF TypeOK

LEMMA TypeEvents ==
  ASSUME TypeOK,
         RepairNext \/ TriggerBreakdown \/ (\E s \in StationIds : BreakdownCheck(s))
           \/ (\E q \in OrderSizes : NewOrder(q))
  PROVE  TypeOK'
<1>1. CASE RepairNext
  <2>1. k \in StationIds
    BY <1>1, FactoryAssumption DEF RepairNext, TypeOK, ThreadType, StationIds
  <2>2. /\ [repaired EXCEPT ![k] = @ + 1] \in [StationIds -> Nat]
        /\ [state EXCEPT ![k] = "WARMUP"] \in [StationIds -> MachineState]
    BY <2>1, CountUp DEF TypeOK, StationType, MachineState
  <2>3. StationType'
    BY <1>1, <2>2 DEF RepairNext, TypeOK, StationType
  <2>4. ProductType' /\ MaterialType' /\ orders' \in Seq(OrderType)
    BY <1>1, TypeFrame DEF RepairNext
  <2>5. ThreadType'
    BY <1>1 DEF RepairNext, TypeOK, ThreadType, snapVars, eventVars
  <2> QED BY <2>3, <2>4, <2>5 DEF TypeOK
<1>2. CASE TriggerBreakdown
  <2>1. ev.station \in StationIds
    BY DEF TypeOK, ThreadType
  <2>2. /\ [failure_count EXCEPT ![ev.station] = @ + 1] \in [StationIds -> Nat]
        /\ [state EXCEPT ![ev.station] = "BREAKDOWN"] \in [StationIds -> MachineState]
    BY <2>1, CountUp DEF TypeOK, StationType, MachineState
  <2>3. StationType'
    BY <1>2, <2>2 DEF TriggerBreakdown, TypeOK, StationType
  <2>4. ProductType' /\ MaterialType' /\ orders' \in Seq(OrderType)
    BY <1>2, TypeFrame DEF TriggerBreakdown
  <2>5. ThreadType'
    BY <1>2 DEF TriggerBreakdown, TypeOK, ThreadType, snapVars
  <2> QED BY <2>3, <2>4, <2>5 DEF TypeOK
<1>3. ASSUME NEW s \in StationIds, BreakdownCheck(s) PROVE TypeOK'
  <2>1. StationType' /\ ProductType' /\ MaterialType' /\ orders' \in Seq(OrderType)
    BY <1>3, TypeFrame DEF BreakdownCheck
  <2>2. ThreadType'
    BY <1>3 DEF BreakdownCheck, TypeOK, ThreadType, snapVars
  <2> QED BY <2>1, <2>2 DEF TypeOK
<1>4. ASSUME NEW q \in OrderSizes, NewOrder(q) PROVE TypeOK'
  <2>1. StationType' /\ ProductType' /\ MaterialType'
    BY <1>4, TypeFrame DEF NewOrder
  <2>2. Order(q) \in OrderType
    BY FactoryAssumption DEF Order, OrderType
  <2>3. orders' \in Seq(OrderType)
    BY <1>4, <2>2 DEF NewOrder, TypeOK
  <2>4. ThreadType'
    BY <1>4 DEF NewOrder, TypeOK, ThreadType, snapVars
  <2> QED BY <2>1, <2>3, <2>4 DEF TypeOK
<1> QED
  BY <1>1, <1>2, <1>3, <1>4

\* The steps that only move a thread on, count, or take a snapshot.
MoveOn == \/ FinishOther \/ ShipEnd \/ ConsumeEnd \/ EnvSnapTotals \/ EnvPublish
          \/ RepairEnd \/ RefillNext \/ RefillEnd \/ ApiSnapTotals \/ ApiServe

LEMMA TypeStep == TypeOK /\ StepInv /\ [Next]_vars => TypeOK'
<1> SUFFICES ASSUME TypeOK, StepInv, [Next]_vars PROVE TypeOK'
  OBVIOUS
<1>1. CASE MoveOn
  <2>1. StationType' /\ ProductType' /\ MaterialType' /\ orders' \in Seq(OrderType)
    BY <1>1, TypeFrame DEF MoveOn, FinishOther, ShipEnd, ConsumeEnd, EnvSnapTotals,
       EnvPublish, RepairEnd, RefillNext, RefillEnd, ApiSnapTotals, ApiServe
  <2>2. ThreadType'
    BY <1>1 DEF MoveOn, FinishOther, ShipEnd, ConsumeEnd, EnvSnapTotals,
       EnvPublish, RepairEnd, RefillNext, RefillEnd, ApiSnapTotals, ApiServe,
       TypeOK, ThreadType, snapVars, eventVars, Steps, LineSteps
  <2> QED BY <2>1, <2>2 DEF TypeOK
<1>2. CASE StartCycle \/ FinishGood
  <2>1. StationType' /\ MaterialType' /\ orders' \in Seq(OrderType)
    BY <1>2, TypeFrame DEF StartCycle, FinishGood
  <2>2. ProductType'
    BY <1>2 DEF StartCycle, FinishGood, TypeOK, ProductType, ProductStatus
  <2>3. ThreadType'
    BY <1>2 DEF StartCycle, FinishGood, TypeOK, ThreadType, snapVars, eventVars,
       Steps, LineSteps
  <2> QED BY <2>1, <2>2, <2>3 DEF TypeOK
<1>3. CASE UNCHANGED vars
  <2>1. StationType' /\ ProductType' /\ MaterialType' /\ orders' \in Seq(OrderType)
    BY <1>3, TypeFrame DEF vars
  <2>2. ThreadType'
    BY <1>3 DEF vars, TypeOK, ThreadType, snapVars, eventVars
  <2> QED BY <2>1, <2>2 DEF TypeOK
<1> QED
  BY <1>1, <1>2, <1>3, TypeLine, TypeShip, TypeMaterial, TypeEvents
     DEF Next, RunCycle, ApplyDynamics, MoveOn

-----------------------------------------------------------------------------
LEMMA StepInvStep == TypeOK /\ StepInv /\ [Next]_vars => StepInv'
<1> SUFFICES ASSUME TypeOK, StepInv, [Next]_vars PROVE StepInv'
  OBVIOUS
<1> USE FactoryAssumption DEF StepInv, LineSteps, productVars
<1>0. k \in Nat \ {0} /\ NumStations \in Nat \ {0} /\ NumMaterials \in Nat
  BY DEF TypeOK, ThreadType
<1>1. CASE StartCycle \/ CheckStation \/ EnterMachine \/ EnteredMachine
  BY <1>0, <1>1 DEF StartCycle, CheckStation, EnterMachine, EnteredMachine,
     RunMachine
<1>2. CASE JudgeQuality \/ FinishGood \/ FinishOther \/ ShipNext \/ ShipEnd
  <2>1. CASE JudgeQuality
    BY <1>0, <2>1 DEF JudgeQuality
  <2>2. CASE FinishGood \/ FinishOther
    BY <1>0, <2>2 DEF FinishGood, FinishOther
  <2>3. CASE ShipNext \/ ShipEnd
    BY <1>0, <2>3 DEF ShipNext, ShipEnd
  <2> QED BY <1>2, <2>1, <2>2, <2>3
<1>3. CASE ConsumeRead \/ ConsumeWrite \/ ConsumeEnd \/ EnvSnapTotals \/ EnvPublish
  BY <1>0, <1>3 DEF ConsumeRead, ConsumeWrite, ConsumeEnd, EnvSnapTotals, EnvPublish
<1>4. CASE ApplyDynamics
  BY <1>0, <1>4 DEF ApplyDynamics, RepairNext, RepairEnd, RefillNext, RefillAdd,
     RefillEnd
<1>5. CASE UNCHANGED <<pc, k, productVars>>
  BY <1>5
<1> QED
  BY <1>1, <1>2, <1>3, <1>4, <1>5
     DEF Next, RunCycle, ApiSnapTotals, ApiServe, BreakdownCheck, TriggerBreakdown,
         NewOrder, MaterialArrival, vars

\* No step loses a product or counts it twice.
LEMMA LineFlowStep ==
  TypeOK /\ StepInv /\ LineFlow /\ [Next]_vars => LineFlow'
<1> SUFFICES ASSUME TypeOK, StepInv, LineFlow, [Next]_vars PROVE LineFlow'
  OBVIOUS
<1> DEFINE counters == <<cycle, good_count, defect_count, held, total_produced>>
<1> USE DEF LineSteps
<1>0. /\ k \in Nat \ {0} /\ NumStations \in Nat \ {0}
      /\ cycle \in Nat /\ total_produced \in Nat
      /\ good_count \in [StationIds -> Nat] /\ defect_count \in [StationIds -> Nat]
      /\ held \in [StationIds -> Nat]
  BY FactoryAssumption DEF TypeOK, ThreadType, ProductType, StationType
<1>a. /\ NumStations \in StationIds
      /\ \A i \in StationIds : /\ i \in Nat \ {0} /\ i <= NumStations
                               /\ i # 1 => i - 1 \in StationIds
      /\ \A i \in Nat \ {0} : i <= NumStations => i \in StationIds
  BY <1>0 DEF StationIds
<1>1. CASE UNCHANGED counters /\ \A i \in Nat : AtStation(i)' = AtStation(i)
  <2>1. \A i \in StationIds : i \in Nat
    BY DEF StationIds
  <2>2. NumStations + 1 \in Nat
    BY <1>0
  <2> QED BY <1>1, <2>1, <2>2 DEF LineFlow, Reached
<1>2. CASE UNCHANGED counters /\ pc \notin LineSteps /\ pc' \notin LineSteps
  BY <1>1, <1>2 DEF AtStation
<1>3. CASE UNCHANGED counters /\ pc \in LineSteps /\ pc' \in LineSteps /\ k' = k
  BY <1>1, <1>3 DEF AtStation
<1>4. CASE UNCHANGED counters /\ UNCHANGED <<pc, k>>
  BY <1>1, <1>4 DEF AtStation
<1>5. CASE StartCycle
  <2>1. /\ cycle' = cycle + 1 /\ k' = 1 /\ pc = "tick" /\ pc' = "check"
        /\ UNCHANGED <<good_count, defect_count, held, total_produced>>
    BY <1>5 DEF StartCycle, stationVars
  <2>2. \A i \in StationIds :
          Reached(i)' = good_count'[i] + defect_count'[i] + held'[i] + AtStation(i)'
    BY <1>0, <1>a, <2>1 DEF LineFlow, Reached, AtStation
  <2>3. AtStation(NumStations + 1)' = 0 /\ AtStation(NumStations + 1) = 0
    BY <1>0, <2>1 DEF AtStation
  <2> QED BY <1>0, <2>1, <2>2, <2>3 DEF LineFlow
<1>6. CASE CheckStation
  <2>1. CASE pc' = "enter"
    BY <1>3, <1>6, <2>1 DEF CheckStation
  <2>2. CASE pc' = "finish"
    <3>1. /\ pc = "check" /\ k' = k /\ k \in StationIds
          /\ held' = [held EXCEPT ![k] = @ + 1]
          /\ UNCHANGED <<cycle, good_count, defect_count, total_produced>>
      BY <1>0, <1>a, <1>6, <2>2 DEF CheckStation
    <3>2. \A i \in StationIds :
            Reached(i)' = good_count'[i] + defect_count'[i] + held'[i] + AtStation(i)'
      BY <1>0, <1>a, <2>2, <3>1 DEF LineFlow, Reached, AtStation
    <3>3. AtStation(NumStations + 1)' = 0 /\ AtStation(NumStations + 1) = 0
      BY <1>0, <1>a, <2>2, <3>1 DEF AtStation
    <3> QED BY <1>0, <3>1, <3>2, <3>3 DEF LineFlow
  <2> QED BY <1>6, <2>1, <2>2 DEF CheckStation
<1>7. CASE JudgeQuality
  <2>1. pc = "judge" /\ k \in StationIds
    BY <1>0, <1>a, <1>7 DEF JudgeQuality, StepInv
  <2>2. CASE pc' = "check"
    <3>1. /\ k' = k + 1 /\ good_count' = [good_count EXCEPT ![k] = @ + 1]
          /\ UNCHANGED <<cycle, defect_count, held, total_produced>>
      BY <1>7, <2>2 DEF JudgeQuality
    <3>2. \A i \in StationIds :
            /\ good_count'[i] = IF i = k THEN good_count[i] + 1 ELSE good_count[i]
            /\ AtStation(i) = (IF i = k THEN 1 ELSE 0)
            /\ AtStation(i)' = (IF i = k + 1 THEN 1 ELSE 0)
      BY <1>0, <1>a, <2>1, <2>2, <3>1 DEF AtStation
    <3>3. \A i \in StationIds : good_count[i] \in Nat /\ defect_count[i] \in Nat
                                /\ held[i] \in Nat
      BY <1>0
    <3>4. \A i \in StationIds : Reached(i)' = IF i = k + 1 THEN Reached(i) + 1
                                                           ELSE Reached(i)
      BY <1>0, <1>a, <2>1, <3>1, <3>2, <3>3 DEF Reached
    <3>5. \A i \in StationIds :
            Reached(i)' = good_count'[i] + defect_count'[i] + held'[i] + AtStation(i)'
      BY <1>0, <1>a, <2>1, <3>1, <3>2, <3>3, <3>4 DEF LineFlow
    <3>6. /\ AtStation(NumStations + 1) = 0
          /\ AtStation(NumStations + 1)' = IF k = NumStations THEN 1 ELSE 0
      BY <1>0, <1>a, <2>1, <2>2, <3>1 DEF AtStation
    <3>7. good_count'[NumStations] = total_produced' + AtStation(NumStations + 1)'
      BY <1>0, <1>a, <3>1, <3>2, <3>3, <3>6 DEF LineFlow
    <3> QED BY <3>5, <3>7 DEF LineFlow
  <2>3. CASE pc' = "finish"
    <3>1. /\ k' = k /\ defect_count' = [defect_count EXCEPT ![k] = @ + 1]
          /\ UNCHANGED <<cycle, good_count, held, total_produced>>
      BY <1>7, <2>3 DEF JudgeQuality
    <3>2. \A i \in StationIds :
            Reached(i)' = good_count'[i] + defect_count'[i] + held'[i] + AtStation(i)'
      BY <1>0, <1>a, <2>1, <2>3, <3>1 DEF LineFlow, Reached, AtStation
    <3>3. AtStation(NumStations + 1)' = 0 /\ AtStation(NumStations + 1) = 0
      BY <1>0, <1>a, <2>1, <2>3, <3>1 DEF AtStation
    <3> QED BY <1>0, <3>1, <3>2, <3>3 DEF LineFlow
  <2> QED BY <1>7, <2>2, <2>3 DEF JudgeQuality
<1>8. CASE FinishGood
  <2>1. /\ pc = "check" /\ pc' = "ship" /\ k = NumStations + 1
        /\ total_produced' = total_produced + 1
        /\ UNCHANGED <<cycle, good_count, defect_count, held>>
    BY <1>0, <1>8 DEF FinishGood, StepInv, stationVars
  <2>2. \A i \in StationIds : AtStation(i)' = 0 /\ AtStation(i) = 0
    BY <1>0, <1>a, <2>1 DEF AtStation
  <2>3. AtStation(NumStations + 1)' = 0 /\ AtStation(NumStations + 1) = 1
    BY <1>0, <2>1 DEF AtStation
  <2>4. \A i \in StationIds :
          Reached(i)' = good_count'[i] + defect_count'[i] + held'[i] + AtStation(i)'
    BY <2>1, <2>2 DEF LineFlow, Reached
  <2> QED BY <1>0, <1>a, <2>1, <2>3, <2>4 DEF LineFlow
<1>9. CASE EnterMachine \/ EnteredMachine
  BY <1>3, <1>9 DEF EnterMachine, EnteredMachine, RunMachine, LineSteps, productVars
<1>10. CASE FinishOther \/ ShipNext \/ ShipEnd \/ ConsumeRead \/ ConsumeWrite
              \/ ConsumeEnd \/ EnvSnapTotals \/ EnvPublish \/ ApplyDynamics
  BY <1>2, <1>10 DEF FinishOther, ShipNext, ShipEnd, ConsumeRead, ConsumeWrite,
     ConsumeEnd, EnvSnapTotals, EnvPublish, ApplyDynamics, RepairNext, RepairEnd,
     RefillNext, RefillAdd, RefillEnd, stationVars, productVars, LineSteps
<1>11. CASE UNCHANGED <<pc, k, cycle, good_count, defect_count, held, total_produced>>
  BY <1>4, <1>11
<1> QED
  BY <1>5, <1>6, <1>7, <1>8, <1>9, <1>10, <1>11
     DEF Next, RunCycle, ApiSnapTotals, ApiServe, BreakdownCheck, TriggerBreakdown,
         NewOrder, MaterialArrival, vars, stationVars, productVars

LEMMA InvInit == Init => StepInv /\ LineFlow /\ NoOverDelivery
                           /\ BreakdownHitsRunning /\ FailuresRepaired
<1> SUFFICES ASSUME Init PROVE StepInv /\ LineFlow /\ NoOverDelivery
                                 /\ BreakdownHitsRunning /\ FailuresRepaired
  OBVIOUS
<1>1. StepInv
  BY DEF Init, StepInv, LineSteps
<1>2. LineFlow
  <2>1. \A i : AtStation(i) = 0
    BY DEF Init, AtStation, LineSteps
  <2>2. /\ NumStations \in StationIds
        /\ \A i \in StationIds : i \in Nat /\ (i # 1 => i - 1 \in StationIds)
    BY FactoryAssumption DEF StationIds
  <2> QED BY <2>1, <2>2 DEF Init, LineFlow, Reached
<1>3. NoOverDelivery
  <2>1. \A i \in DOMAIN FirstOrders : FirstOrders[i] \in Nat
    BY FactoryAssumption
  <2> QED BY <2>1 DEF Init, NoOverDelivery, Order
<1>4. BreakdownHitsRunning
  BY DEF Init, BreakdownHitsRunning
<1>5. FailuresRepaired
  BY DEF Init, FailuresRepaired
<1> QED
  BY <1>1, <1>2, <1>3, <1>4, <1>5

LEMMA DeliveryStep == TypeOK /\ NoOverDelivery /\ [Next]_vars => NoOverDelivery'
<1> SUFFICES ASSUME TypeOK, NoOverDelivery, [Next]_vars PROVE NoOverDelivery'
  OBVIOUS
<1>1. CASE ShipNext
  BY <1>1, ShipEffect
<1>2. ASSUME NEW q \in OrderSizes, NewOrder(q) PROVE NoOverDelivery'
  <2>1. orders' = Append(orders, Order(q)) /\ orders \in Seq(OrderType)
        /\ Order(q) \in OrderType /\ q \in Nat
    BY <1>2, FactoryAssumption DEF NewOrder, TypeOK, Order, OrderType
  <2>2. Order(q).delivered <= Order(q).quantity
    BY <2>1 DEF Order
  <2>3. /\ DOMAIN orders' = DOMAIN orders \cup {Len(orders) + 1}
        /\ orders'[Len(orders) + 1] = Order(q)
        /\ \A i \in DOMAIN orders : orders'[i] = orders[i]
    BY <2>1
  <2> QED BY <2>2, <2>3 DEF NoOverDelivery
<1>3. CASE UNCHANGED orders
  BY <1>3 DEF NoOverDelivery
<1> QED
  BY <1>1, <1>2, <1>3
     DEF Next, RunCycle, ApplyDynamics, StartCycle, CheckStation, EnterMachine,
         EnteredMachine, JudgeQuality, FinishGood, FinishOther, ShipEnd,
         ConsumeRead, ConsumeWrite, ConsumeEnd, EnvSnapTotals, EnvPublish,
         RepairNext, RepairEnd, RefillNext, RefillAdd, RefillEnd, ApiSnapTotals,
         ApiServe, BreakdownCheck, TriggerBreakdown, MaterialArrival, vars

\* What a step may do to the machines.
LEMMA MachineSteps ==
  ASSUME TypeOK, StepInv, [Next]_vars
  PROVE  \/ UNCHANGED <<state, ev, failure_count, repaired>>
         \/ /\ k \in StationIds /\ state' = [state EXCEPT ![k] = "RUNNING"]
            /\ pc = "run" \/ state[k] # "BREAKDOWN"
            /\ UNCHANGED <<ev, failure_count, repaired>>
         \/ /\ k \in StationIds /\ state[k] = "BREAKDOWN"
            /\ state' = [state EXCEPT ![k] = "WARMUP"]
            /\ repaired' = [repaired EXCEPT ![k] = @ + 1]
            /\ UNCHANGED <<ev, failure_count>>
         \/ /\ ev.pc = "trigger" /\ ev' = [ev EXCEPT !.pc = "sleep"]
            /\ state' = [state EXCEPT ![ev.station] = "BREAKDOWN"]
            /\ failure_count' = [failure_count EXCEPT ![ev.station] = @ + 1]
            /\ UNCHANGED repaired
         \/ \E s \in StationIds :
              /\ state[s] = "RUNNING" /\ ev' = [pc |-> "trigger", station |-> s]
              /\ UNCHANGED <<state, failure_count, repaired>>
<1> USE DEF stationVars, eventVars
<1>1. CASE EnterMachine \/ EnteredMachine
  <2>1. k \in StationIds
    BY <1>1, StationStep
  <2> QED BY <1>1, <2>1 DEF EnterMachine, EnteredMachine, RunMachine
<1>2. CASE RepairNext
  <2>1. k \in StationIds
    BY <1>2, FactoryAssumption DEF RepairNext, TypeOK, ThreadType, StationIds
  <2> QED BY <1>2, <2>1 DEF RepairNext
<1>3. CASE TriggerBreakdown
  BY <1>3 DEF TriggerBreakdown
<1>4. ASSUME NEW s \in StationIds, BreakdownCheck(s)
      PROVE  /\ state[s] = "RUNNING" /\ ev' = [pc |-> "trigger", station |-> s]
             /\ UNCHANGED <<state, failure_count, repaired>>
  BY <1>4 DEF BreakdownCheck
<1>5. CASE UNCHANGED <<state, ev, failure_count, repaired>>
  BY <1>5
<1> QED
  BY <1>1, <1>2, <1>3, <1>4, <1>5
     DEF Next, RunCycle, ApplyDynamics, StartCycle, CheckStation, JudgeQuality,
         FinishGood, FinishOther, ShipNext, ShipEnd, ConsumeRead, ConsumeWrite,
         ConsumeEnd, EnvSnapTotals, EnvPublish, RepairEnd, RefillNext, RefillAdd,
         RefillEnd, ApiSnapTotals, ApiServe, NewOrder, MaterialArrival, vars

LEMMA BreakdownStep ==
  TypeOK /\ StepInv /\ BreakdownHitsRunning /\ [Next]_vars => BreakdownHitsRunning'
<1> SUFFICES ASSUME TypeOK, StepInv, BreakdownHitsRunning, [Next]_vars
             PROVE  BreakdownHitsRunning'
  OBVIOUS
<1>1. state \in [StationIds -> MachineState] /\ ev.station \in StationIds
      /\ ev \in [pc : {"sleep", "trigger"}, station : StationIds]
  BY DEF TypeOK, StationType, ThreadType
<1> QED
  BY <1>1, MachineSteps DEF BreakdownHitsRunning

\* Without a switch point inside execute_cycle's check and store.
LEMMA FailureStep ==
  ASSUME ~EnumYields
  PROVE  TypeOK /\ StepInv /\ BreakdownHitsRunning /\ pc # "run"
           /\ FailuresRepaired /\ [Next]_vars => FailuresRepaired' /\ pc' # "run"
<1> SUFFICES ASSUME TypeOK, StepInv, BreakdownHitsRunning, pc # "run",
                    FailuresRepaired, [Next]_vars
             PROVE  FailuresRepaired' /\ pc' # "run"
  OBVIOUS
<1>1. /\ state \in [StationIds -> MachineState] /\ ev.station \in StationIds
      /\ failure_count \in [StationIds -> Nat] /\ repaired \in [StationIds -> Nat]
  BY DEF TypeOK, StationType, ThreadType
<1>2. FailuresRepaired'
  BY <1>1, MachineSteps DEF FailuresRepaired, BreakdownHitsRunning
<1>3. pc' # "run"
  BY DEF Next, RunCycle, ApplyDynamics, StartCycle, CheckStation, EnterMachine,
     EnteredMachine, RunMachine, JudgeQuality, FinishGood, FinishOther, ShipNext,
     ShipEnd, ConsumeRead, ConsumeWrite, ConsumeEnd, EnvSnapTotals, EnvPublish,
     RepairNext, RepairEnd, RefillNext, RefillAdd, RefillEnd, ApiSnapTotals,
     ApiServe, BreakdownCheck, TriggerBreakdown, NewOrder, MaterialArrival, vars
<1> QED
  BY <1>2, <1>3

-----------------------------------------------------------------------------
\* Whatever EVENT-GEN and the API do meanwhile, every product that entered the
\* line is judged, held or on it, and the production counter is exact.
THEOREM NoProductLost == Spec => [](TypeOK /\ LineFlow)
<1> DEFINE Inv == TypeOK /\ StepInv /\ LineFlow
<1>1. Init => Inv
  BY TypeInit, InvInit
<1>2. Inv /\ [Next]_vars => Inv'
  BY TypeStep, StepInvStep, LineFlowStep
<1> QED
  BY <1>1, <1>2, PTL DEF Spec

\* No order is ever delivered more than its quantity, also when orders are
\* added while the shipments run.
THEOREM NothingOverDelivered == Spec => []NoOverDelivery
<1> DEFINE Inv == TypeOK /\ StepInv /\ NoOverDelivery
<1>1. Init => Inv
  BY TypeInit, InvInit
<1>2. Inv /\ [Next]_vars => Inv'
  BY TypeStep, StepInvStep, DeliveryStep
<1> QED
  BY <1>1, <1>2, PTL DEF Spec

\* The machine EVENT-GEN decided to break is still running when it does.
THEOREM BreaksOnlyRunning == Spec => []BreakdownHitsRunning
<1> DEFINE Inv == TypeOK /\ StepInv /\ BreakdownHitsRunning
<1>1. Init => Inv
  BY TypeInit, InvInit
<1>2. Inv /\ [Next]_vars => Inv'
  BY TypeStep, StepInvStep, BreakdownStep
<1> QED
  BY <1>1, <1>2, PTL DEF Spec

\* Where looking up an Enum member is no switch point, every counted failure
\* was repaired or keeps its machine down.
THEOREM EveryFailureRepaired == ASSUME ~EnumYields PROVE Spec => []FailuresRepaired
<1> DEFINE Inv == /\ TypeOK /\ StepInv /\ BreakdownHitsRunning
                  /\ pc # "run" /\ FailuresRepaired
<1>1. Init => Inv
  <2>1. Init => pc # "run"
    BY DEF Init
  <2> QED BY <2>1, TypeInit, InvInit
<1>2. Inv /\ [Next]_vars => Inv'
  BY TypeStep, StepInvStep, BreakdownStep, FailureStep
<1> QED
  BY <1>1, <1>2, PTL DEF Spec

-----------------------------------------------------------------------------
(* What was counted adds up: defects, shipments, snapshots and materials.   *)

\* Every recorded defect stays settled: the one step that counts a defect also
\* counts a scrapped or a reworked product.
LEMMA DefectsStep ==
  TypeOK /\ StepInv /\ DefectsSettled /\ [Next]_vars => DefectsSettled'
<1> SUFFICES ASSUME TypeOK, StepInv, DefectsSettled, [Next]_vars
             PROVE  DefectsSettled'
  OBVIOUS
<1>1. CASE JudgeQuality
  <2>1. CASE UNCHANGED <<defect_count, scrap_count, rework_count>>
    BY <2>1 DEF DefectsSettled
  <2>2. CASE /\ defect_count' = [defect_count EXCEPT ![k] = @ + 1]
             /\ scrap_count' + rework_count' = scrap_count + rework_count + 1
    <3>1. k \in StationIds
      BY <1>1, StationStep
    <3>2. /\ defect_count \in [StationIds -> Int] /\ defect_count[k] \in Nat
          /\ defect_count' \in [StationIds -> Int]
          /\ defect_count'[k] = defect_count[k] + 1
          /\ \A s \in StationIds \ {k} : defect_count'[s] = defect_count[s]
      BY <2>2, <3>1 DEF TypeOK, StationType
    <3>3. IsFiniteSet(StationIds)
      BY FactoryAssumption, FS_Interval DEF StationIds
    <3>4. SumFunction(defect_count')
            = SumFunction(defect_count) + (defect_count'[k] - defect_count[k])
      BY <3>1, <3>2, <3>3, SumFunctionChange
    <3>5. scrap_count + rework_count \in Nat
      BY DEF TypeOK, ProductType
    <3> QED BY <2>2, <3>2, <3>4, <3>5 DEF DefectsSettled
  <2>3. scrap_count \in Nat /\ rework_count \in Nat
    BY DEF TypeOK, ProductType
  <2> QED BY <1>1, <2>1, <2>2, <2>3 DEF JudgeQuality
<1>2. CASE UNCHANGED <<defect_count, scrap_count, rework_count>>
  BY <1>2 DEF DefectsSettled
<1> QED
  BY <1>1, <1>2
     DEF Next, RunCycle, ApplyDynamics, StartCycle, CheckStation, EnterMachine,
         EnteredMachine, FinishGood, FinishOther, ShipNext, ShipEnd,
         ConsumeRead, ConsumeWrite, ConsumeEnd, EnvSnapTotals, EnvPublish,
         RepairNext, RepairEnd, RefillNext, RefillAdd, RefillEnd, ApiSnapTotals,
         ApiServe, BreakdownCheck, TriggerBreakdown, NewOrder, MaterialArrival,
         vars, stationVars, productVars

\* The deliveries to a list of orders, one by one.
Deliveries(os) == [i \in DOMAIN os |-> os[i].delivered]

\* Deliveries are naturals over a finite set of indices.
LEMMA DeliveriesType ==
  ASSUME NEW os \in Seq(OrderType)
  PROVE  /\ IsFiniteSet(DOMAIN os)
         /\ Deliveries(os) \in [DOMAIN os -> Nat]
         /\ SumDelivered(os) \in Nat
         /\ SumDelivered(os) = SumFunctionOnSet(Deliveries(os), DOMAIN os)
<1>1. DOMAIN os = 1..Len(os) /\ Len(os) \in Nat
  OBVIOUS
<1>2. IsFiniteSet(DOMAIN os)
  BY <1>1, FS_Interval
<1>3. \A i \in DOMAIN os : os[i] \in OrderType
  OBVIOUS
<1>4. Deliveries(os) \in [DOMAIN os -> Nat]
  BY <1>3 DEF Deliveries, OrderType
<1>5. SumDelivered(os) = SumFunctionOnSet(Deliveries(os), DOMAIN os)
  BY DEF SumDelivered, SumFunction, Deliveries
<1>6. SumFunctionOnSet(Deliveries(os), DOMAIN os) \in Nat
  BY <1>2, <1>4, SumType
<1> QED BY <1>2, <1>4, <1>5, <1>6

\* A shipment to one order adds its quantity to the total.
LEMMA DeliveredShip ==
  ASSUME NEW os \in Seq(OrderType), NEW i \in 1..Len(os), NEW q \in Nat
  PROVE  SumDelivered([os EXCEPT ![i].delivered = @ + q]) = SumDelivered(os) + q
<1> DEFINE ns == [os EXCEPT ![i].delivered = @ + q]
<1>1. /\ ns \in Seq(OrderType) /\ DOMAIN ns = DOMAIN os
      /\ ns[i].delivered = os[i].delivered + q
      /\ \A j \in DOMAIN os : j # i => ns[j] = os[j]
  BY ShippedOrders
<1> HIDE DEF ns
<1>2. i \in DOMAIN os
  OBVIOUS
<1>3. /\ Deliveries(os) \in [DOMAIN os -> Nat]
      /\ Deliveries(ns) \in [DOMAIN os -> Nat]
      /\ IsFiniteSet(DOMAIN os)
      /\ SumDelivered(os) = SumFunctionOnSet(Deliveries(os), DOMAIN os)
      /\ SumDelivered(ns) = SumFunctionOnSet(Deliveries(ns), DOMAIN os)
  BY <1>1, DeliveriesType
<1>4. /\ Deliveries(os)[i] \in Nat
      /\ Deliveries(ns)[i] = Deliveries(os)[i] + q
      /\ \A j \in DOMAIN os \ {i} : Deliveries(ns)[j] = Deliveries(os)[j]
  <2>1. \A j \in DOMAIN os : /\ Deliveries(os)[j] = os[j].delivered
                             /\ Deliveries(ns)[j] = ns[j].delivered
    BY <1>1 DEF Deliveries
  <2> QED BY <1>1, <1>2, <1>3, <2>1
<1>5. \A j \in DOMAIN os : Deliveries(os)[j] \in Int /\ Deliveries(ns)[j] \in Int
  BY <1>3
<1>6. SumDelivered(ns)
        = SumDelivered(os) + (Deliveries(ns)[i] - Deliveries(os)[i])
  BY <1>2, <1>3, <1>4, <1>5, SumChange
<1>7. SumDelivered(os) \in Nat
  BY DeliveriesType
<1>8. SumDelivered(ns) = SumDelivered(os) + q
  BY <1>4, <1>6, <1>7
<1> QED BY <1>8 DEF ns

\* A new order brings no delivery.
LEMMA DeliveredAppend ==
  ASSUME NEW os \in Seq(OrderType), NEW q \in Nat
  PROVE  SumDelivered(Append(os, Order(q))) = SumDelivered(os)
<1> DEFINE ns == Append(os, Order(q))
           x == Len(os) + 1
<1>1. Order(q) \in OrderType /\ Order(q).delivered = 0
  BY DEF Order, OrderType
<1>2. /\ ns \in Seq(OrderType) /\ DOMAIN ns = DOMAIN os \cup {x}
      /\ ns[x] = Order(q) /\ x \notin DOMAIN os
      /\ \A j \in DOMAIN os : ns[j] = os[j]
  BY <1>1
<1> HIDE DEF ns, x
<1>3. /\ Deliveries(os) \in [DOMAIN os -> Nat]
      /\ IsFiniteSet(DOMAIN os) /\ SumDelivered(os) \in Nat
      /\ SumDelivered(os) = SumFunctionOnSet(Deliveries(os), DOMAIN os)
      /\ SumDelivered(ns) = SumFunctionOnSet(Deliveries(ns), DOMAIN os \cup {x})
  BY <1>2, DeliveriesType
<1>4. Deliveries(ns)[x] = 0 /\ Deliveries(ns)[x] \in Int
  BY <1>1, <1>2 DEF Deliveries
<1>5. \A j \in DOMAIN os : /\ Deliveries(os)[j] \in Int
                           /\ Deliveries(ns)[j] = Deliveries(os)[j]
  BY <1>2, <1>3 DEF Deliveries
<1>6. SumDelivered(ns) = SumDelivered(os) + Deliveries(ns)[x]
  <2> DEFINE f == Deliveries(os)
             h == Deliveries(ns)
             S == DOMAIN os
  <2>1. IsFiniteSet(S) /\ x \notin S
    BY <1>2, <1>3
  <2>2. (\A j \in S : f[j] \in Int /\ h[j] = f[j]) /\ h[x] \in Int
    BY <1>4, <1>5
  <2>3. SumFunctionOnSet(h, S \cup {x}) = SumFunctionOnSet(f, S) + h[x]
    <3> HIDE DEF f, h, S
    <3>1. \A ff, hh : (\A j \in S : ff[j] \in Int /\ hh[j] = ff[j]) /\ hh[x] \in Int
            => SumFunctionOnSet(hh, S \cup {x}) = SumFunctionOnSet(ff, S) + hh[x]
      BY ONLY <2>1, SumGrow
    <3> QED BY ONLY <2>2, <3>1
  <2> QED BY <1>3, <2>3
<1>7. SumDelivered(ns) = SumDelivered(os)
  BY <1>3, <1>4, <1>6
<1> QED BY <1>7 DEF ns

\* What a step does to the finished goods and to what was delivered.
LEMMA GoodsSteps ==
  ASSUME TypeOK, [Next]_vars
  PROVE  \/ /\ UNCHANGED <<fg_stock, total_produced>>
            /\ SumDelivered(orders') = SumDelivered(orders)
         \/ /\ FinishGood /\ fg_stock' = fg_stock + 1
            /\ total_produced' = total_produced + 1
            /\ SumDelivered(orders') = SumDelivered(orders)
         \/ /\ pc = "ship" /\ pc' = "ship" /\ UNCHANGED total_produced
            /\ \E q \in Nat : /\ fg_stock' = fg_stock - q
                              /\ SumDelivered(orders') = SumDelivered(orders) + q
<1>0. orders \in Seq(OrderType) /\ fg_stock \in Nat /\ total_produced \in Nat
  BY DEF TypeOK, ProductType
<1>1. CASE ShipNext
  <2>1. CASE UNCHANGED <<orders, fg_stock>>
    BY <1>1, <2>1 DEF ShipNext
  <2>2. ASSUME NEW n \in 1..ShipMax, ~IsComplete(orders[k]),
               orders' = [orders EXCEPT ![k].delivered = @ + ShipQty(n, orders[k])],
               fg_stock' = fg_stock - ShipQty(n, orders[k])
        PROVE  \E q \in Nat : /\ fg_stock' = fg_stock - q
                              /\ SumDelivered(orders') = SumDelivered(orders) + q
    <3>1. k \in 1..Len(orders)
      BY <1>1 DEF ShipNext, TypeOK, ThreadType
    <3>2. orders[k] \in OrderType /\ n \in Nat
      BY <1>0, <3>1, ElementOfSeq, FactoryAssumption
    <3>3. ShipQty(n, orders[k]) \in Nat
      BY <1>0, <2>2, <3>2, ShipQtyBounds
    <3> DEFINE q == ShipQty(n, orders[k])
    <3>4. orders' = [orders EXCEPT ![k].delivered = @ + q] /\ q \in Nat
      BY <2>2, <3>3
    <3>5. fg_stock' = fg_stock - q
      BY <2>2
    <3> HIDE DEF q
    <3>6. SumDelivered(orders') = SumDelivered(orders) + q
      BY <1>0, <3>1, <3>4, DeliveredShip
    <3> QED BY <3>4, <3>5, <3>6
  <2>3. pc = "ship" /\ pc' = "ship" /\ UNCHANGED total_produced
    BY <1>1 DEF ShipNext
  <2> QED BY <1>1, <2>1, <2>2, <2>3 DEF ShipNext
<1>2. ASSUME NEW q \in OrderSizes, NewOrder(q)
      PROVE  /\ UNCHANGED <<fg_stock, total_produced>>
             /\ SumDelivered(orders') = SumDelivered(orders)
  <2>1. q \in Nat
    BY FactoryAssumption
  <2> QED BY <1>0, <1>2, <2>1, DeliveredAppend DEF NewOrder, productVars
<1>3. CASE FinishGood
  BY <1>3 DEF FinishGood
<1>4. CASE UNCHANGED <<orders, fg_stock, total_produced>>
  BY <1>4
<1> QED
  BY <1>1, <1>2, <1>3, <1>4
     DEF Next, RunCycle, ApplyDynamics, StartCycle, CheckStation, EnterMachine,
         EnteredMachine, JudgeQuality, FinishOther, ShipEnd,
         ConsumeRead, ConsumeWrite, ConsumeEnd, EnvSnapTotals, EnvPublish,
         RepairNext, RepairEnd, RefillNext, RefillAdd, RefillEnd, ApiSnapTotals,
         ApiServe, BreakdownCheck, TriggerBreakdown, MaterialArrival, vars,
         productVars

\* No step loses a finished product or delivers it twice.
LEMMA ShipmentsStep ==
  TypeOK /\ ShipmentsConserved /\ [Next]_vars => ShipmentsConserved'
<1> SUFFICES ASSUME TypeOK, ShipmentsConserved, [Next]_vars
             PROVE  ShipmentsConserved'
  OBVIOUS
<1>1. fg_stock \in Nat /\ total_produced \in Nat /\ SumDelivered(orders) \in Nat
  BY DeliveriesType DEF TypeOK, ProductType
<1>2. SumDelivered(orders)' = SumDelivered(orders')
  BY DEF SumDelivered
<1> QED BY <1>1, <1>2, GoodsSteps DEF ShipmentsConserved

\* The snapshots and the totals a running get_snapshot has read: while ENV-TICK
\* is between them nothing ships, and what the API read can only be too low.
SnapInv ==
  /\ draft \in [Readers -> [demand : Int, delivered : Nat]]
  /\ snapshot \in [Readers -> [demand : Int, delivered : Nat, fg_stock : Nat,
                                produced : Nat, listed : Int]]
  /\ pc = "publish" => draft["cache"].delivered = SumDelivered(orders)
  /\ draft["api"].delivered <= SumDelivered(orders)
  /\ SnapshotsBalanced

\* What remains of a list of orders is a number.
LEMMA RemainingType == ASSUME NEW os \in Seq(OrderType) PROVE SumRemaining(os) \in Int
<1> DEFINE f == [i \in DOMAIN os |-> Remaining(os[i])]
<1>1. IsFiniteSet(DOMAIN os)
  BY DeliveriesType
<1>2. \A i \in DOMAIN os : f[i] \in Int
  <2>1. \A i \in DOMAIN os : os[i] \in OrderType
    OBVIOUS
  <2>2. \A o \in OrderType : Remaining(o) \in Int
    BY DEF OrderType, Remaining
  <2> QED BY <2>1, <2>2
<1>3. SumRemaining(os) = SumFunctionOnSet(f, DOMAIN os)
  BY DEF SumRemaining, SumFunction
<1> HIDE DEF f
<1> QED BY <1>1, <1>2, <1>3, SumType

\* A snapshot step keeps the snapshots balanced.
LEMMA SnapStep ==
  TypeOK /\ ShipmentsConserved /\ SnapInv /\ [Next]_vars => SnapInv'
<1> SUFFICES ASSUME TypeOK, ShipmentsConserved, SnapInv, [Next]_vars PROVE SnapInv'
  OBVIOUS
<1> DEFINE D == SumDelivered(orders)
           DraftType == [demand : Int, delivered : Nat]
           SnapType == [demand : Int, delivered : Nat, fg_stock : Nat,
                        produced : Nat, listed : Int]
<1>1. /\ fg_stock \in Nat /\ total_produced \in Nat /\ D \in Nat
      /\ SumRemaining(orders) \in Int /\ total_produced = fg_stock + D
  BY DeliveriesType, RemainingType DEF TypeOK, ProductType, ShipmentsConserved
<1>2. /\ draft \in [Readers -> DraftType] /\ snapshot \in [Readers -> SnapType]
      /\ draft["api"].delivered \in Nat /\ draft["cache"].delivered \in Nat
      /\ draft["api"].delivered <= D
      /\ pc = "publish" => draft["cache"].delivered = D
      /\ "api" \in Readers /\ "cache" \in Readers
  BY DEF SnapInv, Readers
<1>3. D' = SumDelivered(orders')
  BY DEF SumDelivered
<1>4. ASSUME NEW r \in Readers, SnapTotals(r), UNCHANGED <<orders, snapshot>>,
             r = "cache" => pc' = "publish", r = "api" => pc' = pc
      PROVE  SnapInv'
  <2> DEFINE d == [demand |-> SumRemaining(orders), delivered |-> D]
  <2>1. d \in DraftType /\ d.delivered = D
    BY <1>1
  <2>2. draft' = [draft EXCEPT ![r] = d]
    BY <1>4 DEF SnapTotals
  <2> HIDE DEF d
  <2>3. draft' \in [Readers -> DraftType]
    BY <1>2, <2>1, <2>2
  <2>4. /\ draft'[r].delivered = D
        /\ \A x \in Readers : x # r => draft'[x] = draft[x]
    BY <1>2, <2>1, <2>2
  <2>5. D' = D
    BY <1>4
  <2>6. /\ pc' = "publish" => draft'["cache"].delivered = D
        /\ draft'["api"].delivered <= D
    BY <1>1, <1>2, <1>4, <2>4 DEF Readers
  <2>7. SnapshotsBalanced'
    BY <1>4 DEF SnapInv, SnapshotsBalanced
  <2> QED BY <1>2, <1>4, <2>3, <2>5, <2>6, <2>7 DEF SnapInv
<1>5. ASSUME NEW r \in Readers, SnapRest(r), UNCHANGED <<orders, draft>>,
             r = "cache" => pc = "publish" /\ pc' # "publish",
             r = "api" => pc' = pc
      PROVE  SnapInv'
  <2> DEFINE n == [demand |-> draft[r].demand, delivered |-> draft[r].delivered,
                   fg_stock |-> fg_stock, produced |-> total_produced,
                   listed |-> SumRemaining(orders)]
  <2>1. /\ n \in SnapType /\ n.produced = fg_stock + D
        /\ n.fg_stock + n.delivered = fg_stock + draft[r].delivered
    <3>1. draft[r].demand \in Int /\ draft[r].delivered \in Nat
      BY <1>2
    <3> QED BY <1>1, <3>1
  <2>2. snapshot' = [snapshot EXCEPT ![r] = n]
    BY <1>5 DEF SnapRest
  <2> HIDE DEF n
  <2>3. snapshot' \in [Readers -> SnapType]
    BY <1>2, <2>1, <2>2
  <2>4. /\ snapshot'[r] = n
        /\ \A x \in Readers : x # r => snapshot'[x] = snapshot[x]
    BY <1>2, <2>1, <2>2
  <2>5. D' = D
    BY <1>5
  <2>6. /\ snapshot'["cache"].produced
             = snapshot'["cache"].fg_stock + snapshot'["cache"].delivered
        /\ snapshot'["api"].produced
             >= snapshot'["api"].fg_stock + snapshot'["api"].delivered
    <3>1. CASE r = "cache"
      <4>1. n.produced = n.fg_stock + n.delivered
        BY <1>2, <1>5, <2>1, <3>1
      <4>2. snapshot'["cache"] = n /\ snapshot'["api"] = snapshot["api"]
        BY <1>2, <2>4, <3>1
      <4> QED BY <4>1, <4>2 DEF SnapInv, SnapshotsBalanced
    <3>2. CASE r = "api"
      <4>1. n.produced >= n.fg_stock + n.delivered
        BY <1>1, <1>2, <2>1, <3>2
      <4>2. snapshot'["api"] = n /\ snapshot'["cache"] = snapshot["cache"]
        BY <1>2, <2>4, <3>2
      <4> QED BY <4>1, <4>2 DEF SnapInv, SnapshotsBalanced
    <3> QED BY <3>1, <3>2 DEF Readers
  <2>7. pc' = "publish" => pc = "publish"
    BY <1>5 DEF Readers
  <2> QED BY <1>2, <1>5, <2>3, <2>5, <2>6, <2>7 DEF SnapInv, SnapshotsBalanced
<1>6. CASE /\ UNCHANGED <<draft, snapshot>>
           /\ pc' = "publish" => pc = "publish"
  <2>1. D' >= D /\ (pc = "publish" => D' = D)
    BY <1>1, <1>3, GoodsSteps
  <2>2. D' \in Nat
    <3>1. TypeOK => D' \in Int
      BY <1>1, <1>3, GoodsSteps
    <3> QED BY <1>1, <2>1, <3>1
  <2>3. (pc' = "publish" => draft["cache"].delivered = D') /\ draft["api"].delivered <= D'
    BY <1>1, <1>2, <1>6, <2>1, <2>2
  <2> QED BY <1>2, <1>6, <2>3 DEF SnapInv, SnapshotsBalanced
<1>7. CASE EnvSnapTotals \/ ApiSnapTotals
  BY <1>2, <1>4, <1>7 DEF EnvSnapTotals, ApiSnapTotals
<1>8. CASE EnvPublish \/ ApiServe
  BY <1>2, <1>5, <1>8 DEF EnvPublish, ApiServe
<1> QED
  BY <1>6, <1>7, <1>8
     DEF Next, RunCycle, ApplyDynamics, StartCycle, CheckStation, EnterMachine,
         EnteredMachine, RunMachine, JudgeQuality, FinishGood, FinishOther,
         ShipNext, ShipEnd, ConsumeRead, ConsumeWrite, ConsumeEnd,
         RepairNext, RepairEnd, RefillNext, RefillAdd, RefillEnd, BreakdownCheck,
         TriggerBreakdown, NewOrder, MaterialArrival, vars, snapVars

\* What a material has, or is about to have once _consume_materials stores what
\* it computed, with what was used covers what it had and what arrived.
StockInv ==
  \A m \in MaterialIds :
    (IF pc = "store" /\ k = m THEN left ELSE stock[m]) + used[m]
      >= InitialStock + arrived[m]

\* Only an arrival inside a read-and-store window is not covered, and it is not
\* counted in arrived.
LEMMA StockStep == TypeOK /\ StepInv /\ StockInv /\ [Next]_vars => StockInv'
<1> SUFFICES ASSUME TypeOK, StepInv, StockInv, [Next]_vars PROVE StockInv'
  OBVIOUS
<1>1. /\ k \in Nat \ {0} /\ left \in Nat /\ InitialStock \in Nat
      /\ stock \in [MaterialIds -> Nat] /\ used \in [MaterialIds -> Nat]
      /\ arrived \in [MaterialIds -> Nat]
      /\ pc \in {"store", "add"} => k \in MaterialIds
      /\ pc = "consume" /\ k <= NumMaterials => k \in MaterialIds
  <2>1. k \in Nat \ {0} /\ InitialStock \in Nat
    BY FactoryAssumption DEF TypeOK, ThreadType
  <2>2. /\ pc \in {"store", "add"} => k \in MaterialIds
        /\ pc = "consume" /\ k <= NumMaterials => k \in MaterialIds
    BY <2>1, FactoryAssumption DEF StepInv, MaterialIds
  <2> QED BY <2>1, <2>2 DEF TypeOK, MaterialType
<1>2. CASE ConsumeRead
  <2>1. k \in MaterialIds
    BY <1>1, <1>2 DEF ConsumeRead
  <2>2. PICK c \in Consumption[k] :
          /\ left' = IF stock[k] > c THEN stock[k] - c ELSE 0
          /\ used' = [used EXCEPT ![k] = @ + c]
    BY <1>2 DEF ConsumeRead
  <2>3. c \in Nat
    BY <2>1, FactoryAssumption DEF MaterialIds
  <2>4. pc = "consume" /\ pc' = "store" /\ UNCHANGED <<k, stock, arrived>>
    BY <1>2 DEF ConsumeRead
  <2>5. left' + used'[k] >= stock[k] + used[k]
    BY <1>1, <2>1, <2>2, <2>3
  <2>6. \A m \in MaterialIds : m # k => used'[m] = used[m]
    BY <1>1, <2>2
  <2>7. left' \in Nat /\ \A m \in MaterialIds : used'[m] \in Nat
    BY <1>1, <2>1, <2>2, <2>3
  <2> QED BY <1>1, <2>1, <2>4, <2>5, <2>6, <2>7 DEF StockInv
<1>3. CASE ConsumeWrite
  <2>1. /\ k \in MaterialIds /\ pc = "store" /\ pc' = "consume"
        /\ stock' = [stock EXCEPT ![k] = left] /\ UNCHANGED <<arrived, used>>
    BY <1>1, <1>3 DEF ConsumeWrite
  <2> QED BY <1>1, <2>1 DEF StockInv
<1>4. ASSUME NEW m \in MaterialIds, NEW q \in Nat, AddStock(m, q),
             UNCHANGED <<left, used>>, (pc = "store" \/ pc' = "store") => UNCHANGED <<pc, k>>
      PROVE  StockInv'
  <2>1. stock' = [stock EXCEPT ![m] = @ + q]
    BY <1>4 DEF AddStock
  <2>2. CASE pc = "store" /\ k = m
    BY <1>1, <1>4, <2>1, <2>2 DEF StockInv, AddStock
  <2>3. CASE ~(pc = "store" /\ k = m)
    <3>1. arrived' = [arrived EXCEPT ![m] = @ + q]
      BY <1>4, <2>3 DEF AddStock
    <3>2. /\ stock'[m] = stock[m] + q /\ arrived'[m] = arrived[m] + q
          /\ \A x \in MaterialIds : x # m => /\ stock'[x] = stock[x]
                                             /\ arrived'[x] = arrived[x]
      BY <1>1, <2>1, <3>1
    <3>3. \A x \in MaterialIds : (pc' = "store" /\ k' = x) <=> (pc = "store" /\ k = x)
      BY <1>4
    <3> QED BY <1>1, <1>4, <2>3, <3>2, <3>3 DEF StockInv
  <2> QED BY <2>2, <2>3
<1>5. CASE RefillAdd
  <2>1. PICK q \in Arrivals : AddStock(k, q)
    BY <1>5 DEF RefillAdd
  <2>2. q \in Nat /\ k \in MaterialIds
    BY <1>1, <1>5, FactoryAssumption DEF RefillAdd
  <2> QED BY <1>4, <1>5, <2>1, <2>2 DEF RefillAdd
<1>6. ASSUME NEW m \in MaterialIds, NEW q \in Arrivals, MaterialArrival(m, q)
      PROVE  StockInv'
  <2>1. q \in Nat
    BY FactoryAssumption
  <2> QED BY <1>4, <1>6, <2>1 DEF MaterialArrival
<1>7. CASE /\ UNCHANGED <<stock, used, arrived, left>>
           /\ (pc = "store" \/ pc' = "store") => UNCHANGED <<pc, k>>
  BY <1>7 DEF StockInv
<1> QED
  BY <1>2, <1>3, <1>5, <1>6, <1>7
     DEF Next, RunCycle, ApplyDynamics, StartCycle, CheckStation, EnterMachine,
         EnteredMachine, RunMachine, JudgeQuality, FinishGood, FinishOther,
         ShipNext, ShipEnd, ConsumeEnd, EnvSnapTotals, EnvPublish, RepairNext,
         RepairEnd, RefillNext, RefillEnd, ApiSnapTotals, ApiServe,
         BreakdownCheck, TriggerBreakdown, NewOrder, vars, materialVars

\* All of it holds at the start, when nothing was counted, shipped or read.
LEMMA AccountInit ==
  Init => DefectsSettled /\ ShipmentsConserved /\ SnapInv /\ StockInv
<1> SUFFICES ASSUME Init
             PROVE  DefectsSettled /\ ShipmentsConserved /\ SnapInv /\ StockInv
  OBVIOUS
<1>1. DefectsSettled
  <2>1. IsFiniteSet(StationIds)
    BY FactoryAssumption, FS_Interval DEF StationIds
  <2>2. DOMAIN defect_count = StationIds /\ \A s \in StationIds : defect_count[s] = 0
    BY DEF Init
  <2>3. SumFunctionOnSet(defect_count, StationIds) = 0
    BY <2>1, <2>2, SumZero
  <2>4. scrap_count + rework_count = 0
    BY DEF Init
  <2> QED BY <2>2, <2>3, <2>4 DEF DefectsSettled, SumFunction
<1>2. SumDelivered(orders) = 0
  <2>1. orders \in Seq(OrderType)
    BY TypeInit DEF TypeOK
  <2>2. \A i \in DOMAIN orders : Deliveries(orders)[i] = 0
    BY DEF Init, Deliveries, Order
  <2> QED BY <2>1, <2>2, DeliveriesType, SumZero
<1>3. ShipmentsConserved
  BY <1>2 DEF Init, ShipmentsConserved
<1>4. SnapInv
  BY <1>2 DEF Init, SnapInv, SnapshotsBalanced, NoTotals, NoSnapshot, Readers
<1>5. StockInv
  BY FactoryAssumption DEF Init, StockInv
<1> QED BY <1>1, <1>3, <1>4, <1>5

\* Every defect a station ever recorded is one scrapped or one reworked product,
\* for any number of stations.
THEOREM DefectsAreSettled == Spec => []DefectsSettled
<1> DEFINE Inv == TypeOK /\ StepInv /\ DefectsSettled
<1>1. Init => Inv
  BY TypeInit, InvInit, AccountInit
<1>2. Inv /\ [Next]_vars => Inv'
  BY TypeStep, StepInvStep, DefectsStep
<1> QED
  BY <1>1, <1>2, PTL DEF Spec

\* Every good product is in the warehouse or was delivered to exactly one order,
\* and no order gets too much, while EVENT-GEN appends to the list being walked.
THEOREM ShipmentsAreSound == Spec => []ShipmentsSound
<1> DEFINE Inv == TypeOK /\ StepInv /\ ShipmentsConserved /\ NoOverDelivery
<1>1. Init => Inv
  BY TypeInit, InvInit, AccountInit
<1>2. Inv /\ [Next]_vars => Inv'
  BY TypeStep, StepInvStep, ShipmentsStep, DeliveryStep
<1>3. Inv => ShipmentsSound
  BY DEF ShipmentsSound
<1> QED
  BY <1>1, <1>2, <1>3, PTL DEF Spec

\* The snapshot the agents read balances exactly; the one the API takes in the
\* middle of a cycle never shows more products than were made.
THEOREM SnapshotsBalance == Spec => []SnapshotsBalanced
<1> DEFINE Inv == TypeOK /\ StepInv /\ ShipmentsConserved /\ SnapInv
<1>1. Init => Inv
  BY TypeInit, InvInit, AccountInit
<1>2. Inv /\ [Next]_vars => Inv'
  BY TypeStep, StepInvStep, ShipmentsStep, SnapStep
<1>3. Inv => SnapshotsBalanced
  BY DEF SnapInv
<1> QED
  BY <1>1, <1>2, <1>3, PTL DEF Spec

\* Material is lost only to an arrival inside the read-and-store window of
\* _consume_materials for the same material.
THEOREM OnlyTheWindowLosesMaterial == Spec => []ArrivalsInStock
<1> DEFINE Inv == TypeOK /\ StepInv /\ StockInv
<1>1. Init => Inv
  BY TypeInit, InvInit, AccountInit
<1>2. Inv /\ [Next]_vars => Inv'
  BY TypeStep, StepInvStep, StockStep
<1>3. Inv => ArrivalsInStock
  BY DEF StockInv, ArrivalsInStock
<1> QED
  BY <1>1, <1>2, <1>3, PTL DEF Spec

-----------------------------------------------------------------------------
(* The work center of Machine, for all limits, spikes, drifts and numbers of  *)
(* ticks and events.                                                         *)

\* A spike in flight holds a life of the tool from which only cycles, all of
\* them counted in its window, have moved on.
SpikeHoldsLife ==
  /\ gen.pc = "spike" => life = gen.seen + hist.window /\ gen.seen >= hist.spikes
  /\ gen.pc # "spike" => hist.window = 0

\* Until a spike has set the life back, the region was computed from a life the
\* tool has had.
RegionReached == ~hist.setback => Rank(region) <= Rank(RegionOf(life))

\* The part about to be judged is paid for by a counted cycle or a failure.
Judged == count.good + count.defect
PartPaidFor ==
  (env.pc = "judge" \/ (env.pc = "enter" /\ wcState = "BREAKDOWN"))
    => Judged + 1 <= count.total + count.failures

\* A recovery in flight holds a drift from which only shocks, all of them
\* counted as missed, have moved on.
RecoveryHoldsDrift ==
  env.pc = "storeDrift" =>
    /\ env.seen <= hist.injected + Floor(0, hist.aged)
    /\ env.seen >= hist.injected + hist.aged - hist.recovered - hist.missed

\* A sensor ages in one direction only.
OneDirection ==
  /\ DriftPerCycle >= 0 => hist.aged >= 0 /\ hist.fresh >= 0
  /\ DriftPerCycle < 0 => hist.aged <= 0 /\ hist.fresh <= 0

\* What get_status has read so far is not newer than the counters.
StatusSoFar ==
  /\ api.pc = "oee" => api.cycles <= count.total
  /\ api.pc = "yield" => /\ api.cycles <= api.total
                         /\ api.good <= count.good
                         /\ api.total <= Judged + 1

WearInv == SpikeHoldsLife /\ RegionReached /\ WearAccounted
CountInv == PartPaidFor /\ UncountedPartsBounded /\ StatusSoFar /\ StatusInOrder
DriftInv == RecoveryHoldsDrift /\ OneDirection /\ DriftAccounted

ApiStep == StatusCycles \/ StatusOee \/ StatusYield \/ StatusServed

\* What Floor returns is a natural number when its bound is zero.
LEMMA FloorNat == \A x \in Int : Floor(0, x) \in Nat /\ Floor(0, x) >= x
                                 /\ (Floor(0, x) = 0 \/ Floor(0, x) = x)
  BY DEF Floor

\* What Clamp returns lies within its bounds.
LEMMA ClampWithin == ASSUME NEW lo \in Int, NEW hi \in Int, lo <= hi, NEW x \in Int
                     PROVE  Clamp(lo, hi, x) \in lo..hi
  BY DEF Clamp, Floor

\* A more worn tool is in the same or a later region.
LEMMA RegionMonotonic ==
  ASSUME NEW l \in Nat, NEW m \in Nat, l <= m
  PROVE  Rank(RegionOf(l)) <= Rank(RegionOf(m))
<1>1. MaxLife \in Nat BY MachineAssumption
<1>2. 10 * l <= 10 * m OBVIOUS
<1> QED BY <1>1, <1>2, SMT DEF Rank, RegionOf

-----------------------------------------------------------------------------
\* A spike in flight holds a natural number: what keeps life one when the sum
\* is stored.
SeenNat == gen.pc = "spike" => gen.seen \in Nat

EnvType == [pc : {"ambient", "addAmbient", "clampAmbient", "check", "enter", "run", "advance",
                  "read", "count", "judge", "recover", "storeDrift", "repair"},
            tick : 0..MaxTicks, seen : Int]
EvType == [pc : {"sleep", "trigger", "spike", "addAmbient", "clampAmbient"},
           n : 0..MaxStationEvents, seen : Int]

\* A thread that forgets what it has read keeps its type.
LEMMA ForgettingTyped ==
  ASSUME NEW e \in EnvType, NEW f \in EvType
  PROVE  /\ [e EXCEPT !.pc = "check", !.seen = 0] \in EnvType
         /\ [e EXCEPT !.pc = "repair", !.seen = 0] \in EnvType
         /\ [f EXCEPT !.pc = "sleep", !.seen = 0] \in EvType
         /\ [f EXCEPT !.pc = "sleep", !.seen = 0].pc = "sleep"
<1>1. 0 \in Int OBVIOUS
<1>2. [e EXCEPT !.pc = "check", !.seen = 0] \in EnvType BY <1>1 DEF EnvType
<1>3. [e EXCEPT !.pc = "repair", !.seen = 0] \in EnvType BY <1>1 DEF EnvType
<1>4. [f EXCEPT !.pc = "sleep", !.seen = 0] \in EvType BY <1>1 DEF EvType
<1>5. [f EXCEPT !.pc = "sleep", !.seen = 0].pc = "sleep" BY DEF EvType
<1> QED BY <1>2, <1>3, <1>4, <1>5

HistType ==
  [advances : Nat, spikes : Nat, window : Nat, lost : Nat, setback : BOOLEAN,
   injected : Nat, aged : Int, fresh : Int, recovered : Nat, missed : Nat]

\* Type correctness: counters and the tool's life stay natural numbers, and ticks and events stay within their bounds.
THEOREM MachineTypesHold == MachineSpec => []MachineTypeOK
<1> USE MachineAssumption
<1>1. MachineInit => MachineTypeOK /\ SeenNat
  BY DEF MachineInit, MachineTypeOK, NoStatus, SeenNat
<1>2. MachineTypeOK /\ SeenNat /\ [MachineNext]_machineVars => (MachineTypeOK /\ SeenNat)'
  <2> SUFFICES ASSUME MachineTypeOK, SeenNat, [MachineNext]_machineVars PROVE (MachineTypeOK /\ SeenNat)'
    OBVIOUS
  <2> USE DEF MachineTypeOK, SeenNat
  <2>0. env \in EnvType /\ gen \in EvType BY DEF EnvType, EvType
  <2>1. CASE EnvReadAmbient BY <2>1 DEF EnvReadAmbient
  <2>2. ASSUME NEW d \in {-1, 1}, EnvAddAmbient(d) PROVE (MachineTypeOK /\ SeenNat)'
    <3>1. d \in Int /\ env.seen + d \in Int OBVIOUS
    <3> QED BY <2>2, <3>1 DEF EnvAddAmbient
  <2>3. CASE EnvClampAmbient
    <3>1. Clamp(AmbientMin, EnvMax, env.seen) \in Int BY ClampWithin
    <3>2. env' \in EnvType BY <2>3, <2>0, ForgettingTyped DEF EnvClampAmbient
    <3> QED BY <2>3, <3>1, <3>2 DEF EnvClampAmbient, EnvType
  <2>4. CASE WcCheckStation BY <2>4 DEF WcCheckStation, EnvGoto
  <2>5. CASE ExecuteCycle BY <2>5 DEF ExecuteCycle, EnvGoto
  <2>6. CASE StoreRunning BY <2>6 DEF StoreRunning, EnvGoto
  <2>7. CASE ToolAdvance
    <3>1. life' \in Nat /\ region' \in {"initial", "linear", "rapid"}
      BY <2>7 DEF ToolAdvance, RegionOf
    <3>2. hist.advances + 1 \in Nat /\ hist.window + 1 \in Nat
      OBVIOUS
    <3>3. hist' \in HistType
      <4>1. \/ hist' = [hist EXCEPT !.advances = @ + 1, !.window = @ + 1]
            \/ hist' = [hist EXCEPT !.advances = @ + 1, !.window = @]
        BY <2>7 DEF ToolAdvance
      <4>2. hist \in HistType
        BY DEF HistType
      <4> QED BY ONLY <4>1, <4>2, <3>2 DEF HistType
    <3>4. env' \in EnvType
      BY <2>7 DEF ToolAdvance, EnvGoto, EnvType
    <3> QED BY <2>7, <3>1, <3>3, <3>4 DEF ToolAdvance, EnvType, HistType
  <2>8. CASE ReadSensor
    <3>1. /\ drift' \in Int /\ hist.aged + DriftPerCycle \in Int
          /\ hist.fresh + DriftPerCycle \in Int
      BY <2>8 DEF ReadSensor
    <3>2. hist' \in HistType
      BY <2>8, <3>1 DEF ReadSensor, HistType
    <3>3. env' \in EnvType
      BY <2>8, <2>0 DEF ReadSensor, EnvGoto, EnvType
    <3> QED BY <2>8, <3>1, <3>2, <3>3 DEF ReadSensor, EnvType, HistType
  <2>9. CASE CountCycle BY <2>9 DEF CountCycle, EnvGoto
  <2>10. CASE RecordQuality BY <2>10 DEF RecordQuality, EnvGoto
  <2>11. CASE RecoverRead
    <3>1. drift \in Int OBVIOUS
    <3>2. env' \in EnvType BY <2>0, <2>11, <3>1 DEF RecoverRead, EnvGoto, EnvType
    <3> QED BY <2>11, <3>2 DEF RecoverRead, EnvType
  <2>12. CASE RecoverStore
    <3>1. Floor(0, env.seen - Recovery) \in Nat /\ hist.recovered + Recovery \in Nat
      BY FloorNat
    <3>2. env' \in EnvType BY <2>12, <2>0, ForgettingTyped DEF RecoverStore
    <3>3. hist' \in HistType
      <4>1. hist' = [hist EXCEPT !.recovered = hist.recovered + Recovery, !.fresh = 0]
        BY <2>12 DEF RecoverStore
      <4>2. hist \in HistType /\ 0 \in Int /\ hist.recovered + Recovery \in Nat
        BY <3>1 DEF HistType
      <4> QED BY ONLY <4>1, <4>2 DEF HistType
    <3> QED BY <2>12, <3>1, <3>2, <3>3 DEF RecoverStore, EnvType, HistType
  <2>13. CASE Repair BY <2>13 DEF Repair, EnvGoto
  <2>14. CASE WcBreakdownCheck BY <2>14 DEF WcBreakdownCheck, EventBegins, Sleeping
  <2>15. CASE WcTriggerBreakdown
    <3>1. count.failures + 1 \in Nat OBVIOUS
    <3>2. gen' \in EvType /\ gen'.pc = "sleep"
      BY <2>15, <2>0, ForgettingTyped DEF WcTriggerBreakdown, EventEnds
    <3> QED BY <2>15, <3>1, <3>2 DEF WcTriggerBreakdown, EvType
  <2>16. CASE SpikeRead BY <2>16 DEF SpikeRead, EventBegins, Sleeping
  <2>17. CASE SpikeStore
    <3>1. /\ life' \in Nat /\ hist.spikes + Spike \in Nat
          /\ hist.lost + hist.window \in Nat
          /\ (hist.setback \/ hist.window > Spike) \in BOOLEAN
      BY <2>17 DEF SpikeStore
    <3>2. gen' \in EvType /\ gen'.pc = "sleep"
      BY <2>17, <2>0, ForgettingTyped DEF SpikeStore, EventEnds
    <3>3. hist' \in HistType
      BY <2>17, <3>1 DEF SpikeStore, HistType
    <3> QED BY <2>17, <3>1, <3>2, <3>3 DEF SpikeStore, EvType, HistType
  <2>18. CASE InjectShock
    <3>1. /\ drift + Shock \in Int /\ hist.injected + Shock \in Nat
          /\ hist.missed + (IF env.pc = "storeDrift" THEN Shock ELSE 0) \in Nat
      OBVIOUS
    <3>2. gen.n + 1 \in 0..MaxStationEvents
      BY <2>18 DEF InjectShock, Sleeping
    <3>3. hist' \in HistType
      <4> DEFINE m == hist.missed + (IF env.pc = "storeDrift" THEN Shock ELSE 0)
      <4>1. hist' = [hist EXCEPT !.injected = hist.injected + Shock, !.missed = m]
        BY <2>18 DEF InjectShock
      <4>2. hist \in HistType /\ m \in Nat
        BY <3>1 DEF HistType
      <4> HIDE DEF m
      <4> QED BY ONLY <3>1, <4>1, <4>2 DEF HistType
    <3>4. gen' \in EvType /\ gen'.pc = "sleep"
      BY <2>18, <3>2 DEF InjectShock, Sleeping, EvType
    <3>5. drift' = drift + Shock /\ UNCHANGED <<env, api, wcState, count, life, region, ambient>>
      BY <2>18 DEF InjectShock
    <3>6. SeenNat'
      BY <3>4, <3>5
    <3>7. MachineTypeOK'
      BY ONLY MachineTypeOK, <3>1, <3>3, <3>4, <3>5 DEF MachineTypeOK, EvType, HistType
    <3> QED BY <3>6, <3>7
  <2>19. CASE EventReadAmbient BY <2>19 DEF EventReadAmbient, EventBegins, Sleeping
  <2>20. ASSUME NEW d \in {-2, 2}, EventAddAmbient(d) PROVE (MachineTypeOK /\ SeenNat)'
    <3>1. d \in Int /\ gen.seen + d \in Int OBVIOUS
    <3>2. gen' \in EvType /\ gen'.pc = "clampAmbient"
      BY <2>20, <2>0, <3>1 DEF EventAddAmbient, EvType
    <3>3. ambient' \in Int /\ UNCHANGED <<env, api, wcState, count, life, region, drift, hist>>
      BY <2>20, <3>1 DEF EventAddAmbient
    <3>4. SeenNat'
      BY <3>2
    <3>5. MachineTypeOK'
      BY ONLY MachineTypeOK, <3>2, <3>3 DEF MachineTypeOK, EvType
    <3> QED BY <3>4, <3>5
  <2>21. CASE EventClampAmbient
    <3>1. Clamp(AmbientMin, EventMax, gen.seen) \in Int BY DEF Clamp, Floor
    <3>2. gen' \in EvType /\ gen'.pc = "sleep"
      BY <2>21, <2>0, ForgettingTyped DEF EventClampAmbient, EventEnds
    <3> QED BY <2>21, <3>1, <3>2 DEF EventClampAmbient, EvType
  <2>22. CASE ApiStep
    <3>1. count.good + count.defect \in Nat OBVIOUS
    <3>2. api' \in [pc : {"idle", "oee", "yield", "served"},
                    cycles : Nat, total : Nat, good : Nat, judged : Nat, yield : Nat]
      <4>1. CASE StatusCycles BY <4>1 DEF StatusCycles, NoStatus
      <4>2. CASE StatusOee BY <4>2 DEF StatusOee
      <4>3. CASE StatusYield BY <4>3, <3>1 DEF StatusYield
      <4>4. CASE StatusServed BY <4>4 DEF StatusServed, NoStatus
      <4> QED BY <2>22, <4>1, <4>2, <4>3, <4>4 DEF ApiStep
    <3> QED
      BY <2>22, <3>2 DEF ApiStep, StatusCycles, StatusOee, StatusYield, StatusServed
  <2>23. CASE UNCHANGED machineVars BY <2>23 DEF machineVars
  <2> QED
    BY <2>1, <2>2, <2>3, <2>4, <2>5, <2>6, <2>7, <2>8, <2>9, <2>10, <2>11, <2>12, <2>13,
       <2>14, <2>15, <2>16, <2>17, <2>18, <2>19, <2>20, <2>21, <2>22, <2>23
    DEF MachineNext, ApiStep
<1> QED BY <1>1, <1>2, PTL DEF MachineSpec

-----------------------------------------------------------------------------
\* The accounting of a tool's wear, with what SpikeStore relies on, is
\* inductive.
LEMMA WearInductive == MachineTypeOK /\ WearInv /\ [MachineNext]_machineVars => WearInv'
<1> SUFFICES ASSUME MachineTypeOK, WearInv, [MachineNext]_machineVars PROVE WearInv'
  OBVIOUS
<1> USE MachineAssumption DEF MachineTypeOK, WearInv, SpikeHoldsLife, RegionReached,
        WearAccounted
\* A step that neither wears the tool nor is a spike's.
<1>1. CASE /\ UNCHANGED <<life, region, hist>>
           /\ gen' = gen \/ (gen.pc # "spike" /\ gen'.pc # "spike")
  <2>1. SpikeHoldsLife'
    BY <1>1
  <2>2. RegionReached' /\ WearAccounted'
    BY <1>1
  <2> QED BY <2>1, <2>2
<1>2. ASSUME NEW d \in {-1, 1}, EnvAddAmbient(d) PROVE WearInv'
  BY <1>1, <1>2 DEF EnvAddAmbient
<1>3. CASE EnvReadAmbient \/ EnvClampAmbient
  BY <1>1, <1>3 DEF EnvReadAmbient, EnvClampAmbient
<1>4. CASE WcCheckStation \/ ExecuteCycle \/ StoreRunning
  BY <1>1, <1>4 DEF WcCheckStation, ExecuteCycle, StoreRunning
<1>5. CASE ToolAdvance
  <2>1. RegionReached'
    <3>1. region' = RegionOf(life')
      BY <1>5 DEF ToolAdvance
    <3>2. \A r : Rank(r) <= Rank(r)
      BY DEF Rank
    <3> QED BY <3>1, <3>2
  <2>2. SpikeHoldsLife' /\ WearAccounted'
    BY <1>5 DEF ToolAdvance, EnvGoto
  <2> QED BY <2>1, <2>2
\* A step that counts something else for the history.
<1>6. CASE ReadSensor \/ RecoverStore \/ InjectShock
  <2>0. hist \in HistType
    BY DEF HistType
  <2>1. /\ life' = life /\ region' = region
        /\ gen' = gen \/ (gen.pc = "sleep" /\ gen'.pc = "sleep")
    BY <1>6 DEF ReadSensor, RecoverStore, InjectShock, Sleeping
  <2>2. /\ hist'.advances = hist.advances /\ hist'.spikes = hist.spikes
        /\ hist'.lost = hist.lost /\ hist'.window = hist.window
        /\ hist'.setback = hist.setback
    <3>1. CASE ReadSensor
      BY ONLY <2>0, <3>1 DEF ReadSensor, HistType
    <3>2. CASE RecoverStore
      BY ONLY <2>0, <3>2 DEF RecoverStore, HistType
    <3>3. CASE InjectShock
      BY ONLY <2>0, <3>3 DEF InjectShock, HistType
    <3> QED BY <1>6, <3>1, <3>2, <3>3
  <2>3. SpikeHoldsLife'
    BY <2>1, <2>2
  <2>4. RegionReached' /\ WearAccounted'
    BY <2>1, <2>2
  <2> QED BY <2>3, <2>4
<1>7. CASE CountCycle \/ RecordQuality \/ Repair \/ RecoverRead
  BY <1>1, <1>7 DEF CountCycle, RecordQuality, Repair, RecoverRead
<1>8. CASE WcBreakdownCheck \/ WcTriggerBreakdown \/ EventReadAmbient \/ EventClampAmbient
  <2>1. UNCHANGED <<life, region, hist>>
    BY <1>8 DEF WcBreakdownCheck, WcTriggerBreakdown, EventReadAmbient, EventClampAmbient
  <2>2. gen.pc # "spike"
    <3>1. gen.pc \in {"sleep", "trigger", "clampAmbient"}
      BY <1>8 DEF WcBreakdownCheck, WcTriggerBreakdown, EventReadAmbient, EventClampAmbient,
                  EventBegins, Sleeping
    <3> QED BY <3>1
  <2>3. CASE WcBreakdownCheck \/ EventReadAmbient
    <3>1. gen'.pc \in {"trigger", "addAmbient"}
      BY <2>3 DEF WcBreakdownCheck, EventReadAmbient, EventBegins
    <3> QED BY <1>1, <2>1, <2>2, <3>1
  <2>4. CASE WcTriggerBreakdown \/ EventClampAmbient
    <3>1. gen' = [gen EXCEPT !.pc = "sleep", !.seen = 0]
      BY <2>4 DEF WcTriggerBreakdown, EventClampAmbient, EventEnds
    <3>2. gen \in EvType
      BY DEF EvType
    <3>3. gen'.pc = "sleep"
      BY ONLY <3>1, <3>2 DEF EvType
    <3> QED BY <1>1, <2>1, <2>2, <3>3
  <2> QED BY <1>8, <2>3, <2>4
<1>9. CASE SpikeRead
  <2>1. /\ gen.pc = "sleep" /\ gen'.pc = "spike" /\ gen'.seen = life
        /\ UNCHANGED <<life, region, hist>>
    BY <1>9 DEF SpikeRead, EventBegins, Sleeping
  <2>2. hist.window = 0
    BY <2>1
  <2>3. SpikeHoldsLife'
    BY <2>1, <2>2
  <2>4. RegionReached' /\ WearAccounted'
    BY <2>1
  <2> QED BY <2>3, <2>4
<1>10. CASE SpikeStore
  <2>1. /\ gen.pc = "spike" /\ gen'.pc = "sleep" /\ region' = region
        /\ life' = gen.seen + Spike /\ hist'.advances = hist.advances
        /\ hist'.spikes = hist.spikes + Spike /\ hist'.window = 0
        /\ hist'.lost = hist.lost + hist.window
        /\ hist'.setback = (hist.setback \/ hist.window > Spike)
    BY <1>10 DEF SpikeStore, EventEnds
  <2>2. life \in Nat /\ life' \in Nat
    BY <1>10 DEF SpikeStore
  <2>3. RegionReached'
    <3> SUFFICES ASSUME ~hist'.setback PROVE Rank(region) <= Rank(RegionOf(life'))
      BY <2>1
    <3>1. ~hist.setback /\ ~(hist.window > Spike)
      BY <2>1
    <3>2. life' >= life
      BY <2>1, <3>1
    <3>3. Rank(RegionOf(life)) <= Rank(RegionOf(life'))
      BY <2>2, <3>2, RegionMonotonic
    <3>4. Rank(region) \in Nat /\ Rank(RegionOf(life)) \in Nat /\ Rank(RegionOf(life')) \in Nat
      BY DEF Rank
    <3> QED BY <3>1, <3>3, <3>4
  <2>4. SpikeHoldsLife' /\ WearAccounted'
    BY <2>1
  <2> QED BY <2>3, <2>4
<1>11. ASSUME NEW d \in {-2, 2}, EventAddAmbient(d) PROVE WearInv'
  <2>1. UNCHANGED <<life, region, hist>> /\ gen.pc # "spike" /\ gen'.pc # "spike"
    BY <1>11 DEF EventAddAmbient
  <2> QED BY <1>1, <2>1
<1>12. CASE ApiStep
  BY <1>1, <1>12 DEF ApiStep, StatusCycles, StatusOee, StatusYield, StatusServed
<1>13. CASE UNCHANGED machineVars BY <1>1, <1>13 DEF machineVars
<1> QED
  BY <1>2, <1>3, <1>4, <1>5, <1>6, <1>7, <1>8, <1>9, <1>10, <1>11, <1>12, <1>13
  DEF MachineNext, ApiStep

\* The wear's accounting holds from the start and for ever.
LEMMA WearAlways == MachineSpec => [](MachineTypeOK /\ WearInv)
<1>1. MachineInit => WearInv
  BY MachineAssumption
  DEF MachineInit, WearInv, SpikeHoldsLife, RegionReached, WearAccounted, Rank, RegionOf
<1> QED BY <1>1, WearInductive, MachineTypesHold, PTL DEF MachineSpec

\* WearAccounted for every tool, every spike and any number of ticks: of all
\* wear exactly the cycles that ran during EVENT-GEN's += are lost.
THEOREM WearIsAccounted == MachineSpec => []WearAccounted
  BY WearAlways, PTL DEF WearInv

\* ToolOnlyWears, however long the run and however small the spike: in spite of
\* two unlocked writers, neither a tool's life nor its region on the S-curve
\* goes back unless more cycles ran during a += than the spike takes.
THEOREM ToolsOnlyWear == MachineSpec => ToolOnlyWears
<1> DEFINE Wears == /\ life' < life => hist.window > Spike
                    /\ Rank(region') < Rank(region) => hist.setback
<1>1. MachineTypeOK /\ WearInv /\ [MachineNext]_machineVars => [Wears]_machineVars
  <2> SUFFICES ASSUME MachineTypeOK, WearInv, MachineNext PROVE Wears
    OBVIOUS
  <2> USE DEF MachineTypeOK
  <2>1. \A r : Rank(r) \in Nat
    BY DEF Rank
  <2>2. CASE ToolAdvance
    <3>1. life' = life + 1 /\ region' = RegionOf(life')
      BY <2>2 DEF ToolAdvance
    <3>2. Rank(RegionOf(life)) <= Rank(RegionOf(life'))
      BY <3>1, RegionMonotonic
    <3>3. hist.setback \/ Rank(region) <= Rank(RegionOf(life))
      BY DEF WearInv, RegionReached
    <3> QED BY <2>1, <3>1, <3>2, <3>3
  <2>3. CASE SpikeStore
    <3>1. gen.pc = "spike" /\ life' = gen.seen + Spike /\ region' = region
      BY <2>3 DEF SpikeStore
    <3>2. life = gen.seen + hist.window
      BY <3>1 DEF WearInv, SpikeHoldsLife
    <3> QED BY <2>1, <3>1, <3>2, MachineAssumption
  <2>4. CASE ~ToolAdvance /\ ~SpikeStore
    <3>1. life' = life /\ region' = region
      BY <2>4
      DEF MachineNext, EnvReadAmbient, EnvAddAmbient, EnvClampAmbient, WcCheckStation, ExecuteCycle,
          StoreRunning, ReadSensor, CountCycle, RecordQuality, RecoverRead, RecoverStore,
          Repair, WcBreakdownCheck, WcTriggerBreakdown, SpikeRead, InjectShock,
          EventReadAmbient, EventAddAmbient, EventClampAmbient, StatusCycles, StatusOee,
          StatusYield, StatusServed
    <3> QED BY <2>1, <3>1
  <2> QED BY <2>2, <2>3, <2>4
<1>2. (MachineSpec => [](MachineTypeOK /\ WearInv)) => (MachineSpec => [][Wears]_machineVars)
  BY <1>1, PTL DEF MachineSpec
<1> QED BY <1>2, WearAlways DEF ToolOnlyWears

-----------------------------------------------------------------------------
\* The accounting of a sensor's drift is inductive.
LEMMA DriftInductive == MachineTypeOK /\ DriftInv /\ [MachineNext]_machineVars => DriftInv'
<1> SUFFICES ASSUME MachineTypeOK, DriftInv, [MachineNext]_machineVars PROVE DriftInv'
  OBVIOUS
<1> USE MachineAssumption DEF MachineTypeOK, DriftInv, RecoveryHoldsDrift, OneDirection,
        DriftAccounted
<1>0. Floor(0, hist.aged) \in Nat
  BY FloorNat
<1>1. CASE EnvReadAmbient BY <1>1 DEF EnvReadAmbient
<1>2. ASSUME NEW d \in {-1, 1}, EnvAddAmbient(d) PROVE DriftInv'
  BY <1>2 DEF EnvAddAmbient
<1>3. CASE EnvClampAmbient BY <1>3 DEF EnvClampAmbient
<1>4. CASE WcCheckStation \/ ExecuteCycle \/ StoreRunning
  BY <1>4 DEF WcCheckStation, ExecuteCycle, StoreRunning, EnvGoto
<1>5. CASE ToolAdvance BY <1>5 DEF ToolAdvance, EnvGoto
<1>6. CASE ReadSensor
  <2> DEFINE D == DriftPerCycle
  <2>1. /\ drift' = drift + D /\ hist'.aged = hist.aged + D /\ hist'.fresh = hist.fresh + D
        /\ hist'.injected = hist.injected /\ hist'.recovered = hist.recovered
        /\ hist'.missed = hist.missed /\ env'.pc = "count"
    BY <1>6 DEF ReadSensor, EnvGoto
  <2>2. D \in Int /\ (D >= 0 \/ D < 0)
    OBVIOUS
  <2>3. CASE D >= 0
    <3>1. Floor(0, hist.aged + D) = Floor(0, hist.aged) + D
      BY <2>3 DEF Floor
    <3> QED BY <1>0, <2>1, <2>3, <3>1
  <2>4. CASE D < 0
    <3>1. Floor(0, hist.aged + D) = 0 /\ Floor(0, hist.aged) = 0
      BY <2>4 DEF Floor
    <3> QED BY <2>1, <2>4, <3>1
  <2> QED BY <2>2, <2>3, <2>4
<1>7. CASE CountCycle \/ RecordQuality \/ Repair
  BY <1>7 DEF CountCycle, RecordQuality, Repair, EnvGoto
<1>8. CASE RecoverRead BY <1>8 DEF RecoverRead, EnvGoto
<1>9. CASE RecoverStore
  <2>1. /\ env.pc = "storeDrift" /\ drift' = Floor(0, env.seen - Recovery)
        /\ hist'.recovered = hist.recovered + Recovery
        /\ hist'.injected = hist.injected /\ hist'.missed = hist.missed
        /\ hist'.aged = hist.aged /\ hist'.fresh = 0 /\ env'.pc = "repair"
    BY <1>9 DEF RecoverStore
  <2>2. drift' \in Nat /\ drift' >= env.seen - Recovery
        /\ (drift' = 0 \/ drift' = env.seen - Recovery)
    BY <2>1, FloorNat
  <2> QED BY <1>0, <2>1, <2>2
<1>10. CASE WcBreakdownCheck \/ WcTriggerBreakdown \/ SpikeRead
  BY <1>10 DEF WcBreakdownCheck, WcTriggerBreakdown, SpikeRead
<1>11. CASE SpikeStore BY <1>11 DEF SpikeStore
<1>12. CASE InjectShock
  <2>1. /\ drift' = drift + Shock /\ hist'.injected = hist.injected + Shock
        /\ hist'.missed = hist.missed + (IF env.pc = "storeDrift" THEN Shock ELSE 0)
        /\ hist'.aged = hist.aged /\ hist'.fresh = hist.fresh
        /\ hist'.recovered = hist.recovered /\ env' = env
    BY <1>12 DEF InjectShock
  <2>2. RecoveryHoldsDrift'
    BY <1>0, <2>1
  <2>3. OneDirection' /\ DriftAccounted'
    BY <1>0, <2>1
  <2> QED BY <2>2, <2>3
<1>13. CASE EventReadAmbient \/ EventClampAmbient
  BY <1>13 DEF EventReadAmbient, EventClampAmbient
<1>14. ASSUME NEW d \in {-2, 2}, EventAddAmbient(d) PROVE DriftInv'
  BY <1>14 DEF EventAddAmbient
<1>15. CASE ApiStep
  BY <1>15 DEF ApiStep, StatusCycles, StatusOee, StatusYield, StatusServed
<1>16. CASE UNCHANGED machineVars BY <1>16 DEF machineVars
<1> QED
  BY <1>1, <1>2, <1>3, <1>4, <1>5, <1>6, <1>7, <1>8, <1>9, <1>10, <1>11, <1>12, <1>13,
     <1>14, <1>15, <1>16
  DEF MachineNext, ApiStep

\* DriftAccounted for every shock, every recovery and sensors that drift either
\* way: a shock is lost only in a recovery, and only the sensor's own drift since
\* the last recovery takes it below zero.
THEOREM DriftIsAccounted == MachineSpec => []DriftAccounted
<1>1. MachineInit => DriftInv
  BY DEF MachineInit, DriftInv, RecoveryHoldsDrift, OneDirection, DriftAccounted, Floor
<1>2. DriftInv => DriftAccounted
  BY DEF DriftInv
<1> QED BY <1>1, <1>2, DriftInductive, MachineTypesHold, PTL DEF MachineSpec

-----------------------------------------------------------------------------
\* AmbientAtRest for all limits of the two threads: it is inductive as it
\* stands, because each of them cuts what it has stored itself.
THEOREM AmbientWithinLimits == MachineSpec => []AmbientAtRest
<1> USE MachineAssumption
<1>1. MachineInit => AmbientAtRest
  BY DEF MachineInit, AmbientAtRest
<1>2. MachineTypeOK /\ AmbientAtRest /\ [MachineNext]_machineVars => AmbientAtRest'
  <2> SUFFICES ASSUME MachineTypeOK, AmbientAtRest, [MachineNext]_machineVars PROVE AmbientAtRest'
    OBVIOUS
  <2> USE DEF AmbientAtRest
  <2>1. CASE EnvClampAmbient
    <3>1. ambient' \in AmbientMin..EnvMax
      BY <2>1, ClampWithin DEF EnvClampAmbient, MachineTypeOK
    <3> QED BY <3>1
  <2>2. CASE EventClampAmbient
    <3>1. ambient' \in AmbientMin..EventMax
      BY <2>2 DEF EventClampAmbient, MachineTypeOK, Clamp, Floor
    <3> QED BY <3>1
  <2>3. ASSUME NEW d \in {-1, 1}, EnvAddAmbient(d) PROVE AmbientAtRest'
    BY <2>3 DEF EnvAddAmbient, MachineTypeOK
  <2>4. ASSUME NEW d \in {-2, 2}, EventAddAmbient(d) PROVE AmbientAtRest'
    BY <2>4 DEF EventAddAmbient, MachineTypeOK
  <2>5. CASE EnvReadAmbient \/ WcCheckStation \/ ExecuteCycle \/ StoreRunning \/ ToolAdvance
             \/ ReadSensor \/ CountCycle \/ RecordQuality \/ RecoverRead \/ RecoverStore
             \/ Repair
    <3>1. env.pc # "clampAmbient" /\ ambient' = ambient /\ gen' = gen
      BY <2>5
      DEF EnvReadAmbient, WcCheckStation, ExecuteCycle, StoreRunning, ToolAdvance, ReadSensor,
          CountCycle, RecordQuality, RecoverRead, RecoverStore, Repair
    <3> QED BY <3>1
  <2>6. CASE WcBreakdownCheck \/ WcTriggerBreakdown \/ SpikeRead \/ SpikeStore \/ InjectShock
             \/ EventReadAmbient
    <3>1. gen.pc # "clampAmbient" /\ ambient' = ambient /\ env' = env
      BY <2>6
      DEF WcBreakdownCheck, WcTriggerBreakdown, SpikeRead, SpikeStore, InjectShock,
          EventReadAmbient, EventBegins, Sleeping
    <3> QED BY <3>1
  <2>7. CASE ApiStep
    BY <2>7 DEF ApiStep, StatusCycles, StatusOee, StatusYield, StatusServed
  <2>8. CASE UNCHANGED machineVars BY <2>8 DEF machineVars
  <2> QED BY <2>1, <2>2, <2>3, <2>4, <2>5, <2>6, <2>7, <2>8 DEF MachineNext, ApiStep
<1> QED BY <1>1, <1>2, MachineTypesHold, PTL DEF MachineSpec

-----------------------------------------------------------------------------
\* The accounting of parts, and what a status shows of it, is inductive.
LEMMA CountInductive == MachineTypeOK /\ CountInv /\ [MachineNext]_machineVars => CountInv'
<1> SUFFICES ASSUME MachineTypeOK, CountInv, [MachineNext]_machineVars PROVE CountInv'
  OBVIOUS
<1> USE DEF MachineTypeOK, CountInv, PartPaidFor, UncountedPartsBounded, StatusSoFar, StatusInOrder,
        Judged, Judging
<1>1. CASE EnvReadAmbient BY <1>1 DEF EnvReadAmbient
<1>2. ASSUME NEW d \in {-1, 1}, EnvAddAmbient(d) PROVE CountInv'
  BY <1>2 DEF EnvAddAmbient
<1>3. CASE EnvClampAmbient BY <1>3 DEF EnvClampAmbient
<1>4. CASE WcCheckStation BY <1>4 DEF WcCheckStation, EnvGoto
<1>5. CASE ExecuteCycle BY <1>5 DEF ExecuteCycle, EnvGoto
<1>6. CASE StoreRunning BY <1>6 DEF StoreRunning, EnvGoto
<1>7. CASE ToolAdvance BY <1>7 DEF ToolAdvance, EnvGoto
<1>8. CASE ReadSensor BY <1>8 DEF ReadSensor, EnvGoto
<1>9. CASE CountCycle BY <1>9 DEF CountCycle, EnvGoto
<1>10. CASE RecordQuality BY <1>10 DEF RecordQuality, EnvGoto
<1>11. CASE RecoverRead BY <1>11 DEF RecoverRead, EnvGoto
<1>12. CASE RecoverStore BY <1>12 DEF RecoverStore
<1>13. CASE Repair BY <1>13 DEF Repair, EnvGoto
<1>14. CASE WcTriggerBreakdown BY <1>14 DEF WcTriggerBreakdown
<1>15. CASE WcBreakdownCheck \/ SpikeRead \/ SpikeStore \/ InjectShock \/ EventReadAmbient
            \/ EventClampAmbient
  <2>1. UNCHANGED <<env, api, wcState, count>>
    BY <1>15 DEF WcBreakdownCheck, SpikeRead, SpikeStore, InjectShock, EventReadAmbient,
                 EventClampAmbient
  <2> QED BY <2>1
<1>16. ASSUME NEW d \in {-2, 2}, EventAddAmbient(d) PROVE CountInv'
  BY <1>16 DEF EventAddAmbient
<1>17. CASE StatusCycles BY <1>17 DEF StatusCycles, NoStatus
<1>18. CASE StatusOee BY <1>18 DEF StatusOee
<1>19. CASE StatusYield BY <1>19 DEF StatusYield
<1>20. CASE StatusServed BY <1>20 DEF StatusServed, NoStatus
<1>21. CASE UNCHANGED machineVars BY <1>21 DEF machineVars
<1> QED
  BY <1>1, <1>2, <1>3, <1>4, <1>5, <1>6, <1>7, <1>8, <1>9, <1>10, <1>11, <1>12, <1>13,
     <1>14, <1>15, <1>16, <1>17, <1>18, <1>19, <1>20, <1>21
  DEF MachineNext

\* CountsAgree for any number of ticks and events:
\* each failure accounts for at most one part that was judged uncounted, and a
\* status never shows the future before the past.
THEOREM PartsAndStatusAgree == MachineSpec => []CountsAgree
<1>1. MachineInit => CountInv
  BY DEF MachineInit, CountInv, PartPaidFor, UncountedPartsBounded, StatusSoFar, StatusInOrder,
         Judged, Judging, NoStatus
<1>2. CountInv => CountsAgree
  BY DEF CountInv, CountsAgree
<1> QED BY <1>1, <1>2, CountInductive, MachineTypesHold, PTL DEF MachineSpec
=============================================================================
