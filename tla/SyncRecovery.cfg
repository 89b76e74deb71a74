SPECIFICATION FairSpec
CONSTANTS
  n1 = n1
  n2 = n2
  Nodes = {n1, n2}
  Producers = {n1}
  MaxSeq = 2
  Limit = 2
  MaxInFlight = 1
  MaxRestarts = 1
  MinSendGap = TRUE
  NoVector = NoVector
PROPERTIES
  Agreement
