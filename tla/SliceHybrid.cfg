SPECIFICATION FairSpec
CONSTANTS
  Names0 <- ManyStarted
  NewNames = {}
  ClusterOf <- TwoClusters
  Configs <- HybridDefault
  MaxUpdates = 22
  MaxRounds = 2
PROPERTIES
  Coverage
