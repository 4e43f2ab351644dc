CONSTANTS
  NumStations = 2
  EnumYields = FALSE
  NumMaterials = 1
  Consumption <- Volatile
  SafetyStock = 2
  InitialStock = 2
  Arrivals = {3}
  FirstOrders <- TwoOrders
  OrderSizes = {2}
  ShipMax = 2
  MaxCycle = 2
  MaxEvents = 2
  MaxRefills = 1
  MaxServed = 2
SPECIFICATION Spec
CHECK_DEADLOCK FALSE
INVARIANT FailuresRepaired
