SPECIFICATION FairSpec
CONSTANTS
  NCPU = 1
  UiThreads = {}
  UiOps = {}
  GuestOps <- GuestNoSuspend
  IoOps = {"stop", "cont", "system_powerdown", "quit", "interrupt", "savevm"}
PROPERTIES EveryRequestHandled LeftAloneRuns
INVARIANTS NoAbort
