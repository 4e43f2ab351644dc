\* One round of bids, every combination of those in MCStrategy.
SPECIFICATION Spec
CONSTANTS
  Responders <- AllResponders
  RawBids <- SomeBids
  Readings <- SomeReadings
  SpeedMin = 40
  SpeedMax = 100
INVARIANTS
  RankingSound
  OneStrategy
  BetterBidScoresHigher
  SignalsAgreeWithRouter
CHECK_DEADLOCK FALSE
