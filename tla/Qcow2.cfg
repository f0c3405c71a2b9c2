SPECIFICATION Spec
CONSTANTS
  w1 = w1  w2 = w2
  None = None
  Cos <- TwoCos
  Clusters <- SevenClusters
  Setups <- AllSetups
  Ops <- AllOps
  MaxRequests = 2
  MaxCrashes = 1
  MayFail <- Failures
  MaxErrors = 1
SYMMETRY CoSymmetry
INVARIANTS TypeOK NoClusterShared FlushedSurvives SnapshotIntact NoDependencyCycle NothingLeaked WaitersAreWoken
CHECK_DEADLOCK FALSE
