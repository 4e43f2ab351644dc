CONSTANTS
  NumStations = 2
  EnumYields = TRUE
  NumMaterials = 1
  Consumption <- Steady
  SafetyStock = 2
  InitialStock = 2
  Arrivals = {3}
  FirstOrders <- OneOrder
  OrderSizes = {1, 2}
  ShipMax = 2
  MaxCycle = 3
  MaxEvents = 2
  MaxRefills = 0
  MaxServed = 1
SPECIFICATION Spec
INVARIANTS
  LineFlow
  DefectsSettled
  ShipmentsSound
  SnapshotsBalanced
  ArrivalsInStock
CHECK_DEADLOCK FALSE
