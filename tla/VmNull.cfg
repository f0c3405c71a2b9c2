SPECIFICATION Spec
CONSTANTS
  NCPU = 1
  UiThreads = {u1}
  UiOps = {"reset"}
  GuestOps = {}
  IoOps = {"stop"}
INVARIANT NeverUsedOutside
