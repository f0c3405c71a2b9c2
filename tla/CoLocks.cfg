SPECIFICATION FairSpec
CONSTANTS
  c1 = c1  c2 = c2  c3 = c3
  Bh = Bh
  Cos <- ThreeCos
  MaxCalls = 1
  MaxDepth = 4
INVARIANTS
  TypeOK Exclusion NoLostWakeup ReadersWaitForAWriter
  NeverReentered
PROPERTY EveryLockTaken
