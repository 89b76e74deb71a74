SPECIFICATION FairSpec
CONSTANTS
  n1 = n1
  n2 = n2
  Nodes = {n1, n2}
  Producers = {n1, n2}
  MaxSeq = 1
  Limit = 1
  MaxInFlight = 1
  MaxRestarts = 0
  MinSendGap = FALSE
  NoVector = NoVector
PROPERTIES
  ImplementsGroupSync
  SuppressionEnds
  Dissemination
