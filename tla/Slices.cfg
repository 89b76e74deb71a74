SPECIFICATION Spec
CONSTANTS
  Names0 <- FewStarted
  NewNames = {1, 4}
  ClusterOf <- TwoClusters
  Configs <- FewConfigs
  MaxUpdates = 7
  MaxRounds = 3
INVARIANTS
  TypeOK
  RotationBound
PROPERTIES
  SliceContract
  CarriesRecent
  KeepsSticky
  BringsNovelty
