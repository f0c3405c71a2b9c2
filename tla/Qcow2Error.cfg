SPECIFICATION Spec
CONSTANTS
  w1 = w1  w2 = w2
  None = None
  Cos <- TwoCos
  Clusters <- SevenClusters
  Setups <- Shared
  Ops <- AllOps
  MaxRequests = 2
  MaxCrashes = 0
  MayFail <- TableFailures
  MaxErrors = 1
SYMMETRY CoSymmetry
INVARIANT RefcountsCover
CHECK_DEADLOCK FALSE
