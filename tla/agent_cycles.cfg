\* All six agents, two snapshots, one exception in EA or PA.
SPECIFICATION FairSpec
CONSTANTS
  Agents <- AllAgents
  Responders <- AllResponders
  Snapshots <- TwoSnapshots
  NumStations = 3
  LlmEnabled = TRUE
  Cooldown = 0
  OeeGap = 1
  QueueSize = 2
  LogMax = 1
  LogKeep = 0
  MaxCycle = 2
  MaxWakes = 2
  Faulty = {"PA", "EA"}
  MaxFaults = 1
INVARIANTS
  ThreadsConsistent
  BidsWithinPlanning
  EaBidFromLastTwo
  TotalInspectionJustified
PROPERTIES
  CriticalStartsRound
CHECK_DEADLOCK FALSE
