CONSTANTS
  r1 = r1  r2 = r2  r3 = r3
  t1 = t1  t2 = t2  t3 = t3
  NoRequest = NoRequest
  Requests <- TwoRequests
  Threads <- TwoThreads
  MaxThreads = 2
  PipeCap = 1
  Chunk = 1
  MaxNest = 1
SPECIFICATION FairSpec
PROPERTY EveryRequestEnds
