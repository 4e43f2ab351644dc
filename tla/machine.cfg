\* Two ticks and three events; a tool that passes through all regions, a spike
\* that two cycles outrun, and a sensor that drifts downwards.
SPECIFICATION MachineSpec
CONSTANTS
  MaxLife = 5
  Spike = 1
  DriftPerCycle <- NuggetDrift
  Shock = 3
  Recovery = 2
  AmbientMin = 20
  EnvMax = 22
  EventMax = 23
  MaxTicks = 2
  MaxStationEvents = 3
INVARIANTS
  CountsAgree
  WearAccounted
  DriftAccounted
PROPERTIES
  ToolOnlyWears
CHECK_DEADLOCK FALSE
