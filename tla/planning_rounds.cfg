\* Rounds, timeouts, alerts and speed recovery interleaved.
SPECIFICATION FairSpec
CONSTANTS
  Responders <- TwoResponders
  Bids <- RuntimeBids
  Stations <- Line
  LlmEnabled = FALSE
  SpeedMin = 40
  SpeedMax = 100
  MachineMin = 40
  MachineMax = 110
  ApprovalBelow = 70
  Recovery = {15}
  Cooldown = 1
  OeeGap = 2
  Deadline = 1
  MaxCycle = 4
  MaxInbox = 2
INVARIANTS
  SpeedWithinConstraints
  RoundsSpaced
  RoundOutcome
PROPERTIES
  RoundEnds
