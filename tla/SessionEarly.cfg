SPECIFICATION Spec
CONSTANTS
  t1 = t1  t2 = t2  l1 = l1  l2 = l2  l3 = l3  a = a  b = b
  None = None
  Threads <- TwoThreads
  Listeners <- ThreeListeners
  Names <- TwoNames
  MayFail <- AllMayFail
  NDrives = 2
  Prompt = FALSE
  MaxClicks = 2
  MaxSaves = 1
  MaxDeaths = 0
SYMMETRY SessionSymmetry
INVARIANT DoneMeansSaved
CONSTRAINT OneMachine
CHECK_DEADLOCK FALSE
