CONSTANTS
  r1 = r1  r2 = r2  r3 = r3
  t1 = t1  t2 = t2  t3 = t3
  NoRequest = NoRequest
  Requests <- ThreeRequests
  Threads <- ThreeThreads
  MaxThreads = 2
  PipeCap = 2
  Chunk = 2
  MaxNest = 2
SPECIFICATION Spec
SYMMETRY Symmetry3
INVARIANTS
  TypeOK CountersExact NoLostSpawn QueueWatched
  NoLostCompletion WorkersOwnTheirRequest
PROPERTY Implements
