\* A run to four cycles, interrupted or not, while orders arrive.
SPECIFICATION FairSpec
CONSTANTS
  Yaml <- SmallWarehouse
  Cycles = 4
  SafetyFormula = 4
  FactoryOrders <- OneFactoryOrder
  ShipMax = 3
  OrderSizes = {1, 4}
  MaxCycle = 6
  MaxOrders = 1
INVARIANTS
  RecordsAgree
  GoodsBooked
  RequestedIsCredited
  ResultsCoherent
PROPERTIES
  RunEnds
CHECK_DEADLOCK FALSE
