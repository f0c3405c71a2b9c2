SPECIFICATION Spec
CONSTANTS
  NCPU = 1
  UiThreads = {u1, u2}
  UiOps = {"reset", "shutdown"}
  GuestOps = {}
  IoOps = {"stop", "cont"}
INVARIANTS GuestOnlyWhenRunning 
SYMMETRY UiSymmetry
