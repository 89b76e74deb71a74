SPECIFICATION FairSpec
CONSTANTS
  Modes = {"adaptive", "network-aware"}
  FullVectors = TRUE
  FixedIntervals <- Intervals
  ConfiguredMin = 4000
  DiameterMs = 120
  DiameterHops = 4
  LossPct = 0
  Remembered = 1
  Sizes = {2, 1600}
  MaxSignals = 1
  MaxSeq = 3
  Earlier = 2
  MaxTicks = 3
  TickMs = 4000
INVARIANTS
  TypeOK
  PeriodInBounds
  ReplyIsSooner
  EchoMatched
PROPERTIES
  TowardsTarget
  Relaxes
