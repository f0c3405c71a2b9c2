SPECIFICATION FairSpec
CONSTANTS
  BHs = {b1, b2}
  Nodes = {n1, n2}
  Fds = {f1, f2}
  None = None
  Ops <- AllOps
  MaxDepth = 3
INVARIANTS TypeOK WalksLiveMemory FlushComplete
PROPERTY EveryBhRuns
