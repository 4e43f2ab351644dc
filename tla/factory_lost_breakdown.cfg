CONSTANTS
  NumStations = 2
  EnumYields = TRUE
  NumMaterials = 1
  Consumption <- Steady
  SafetyStock = 2
  InitialStock = 2
  Arrivals = {3}
  FirstOrders <- TwoOrders
  OrderSizes = {2}
  ShipMax = 2
  MaxCycle = 2
  MaxEvents = 1
  MaxRefills = 1
  MaxServed = 0
SPECIFICATION Spec
CHECK_DEADLOCK FALSE
INVARIANT FailuresRepaired
