SPECIFICATION Spec
CONSTANTS
  NCPU = 2
  UiThreads = {}
  UiOps = {}
  GuestOps <- AllGuestOps
  IoOps <- AllIoOps
INVARIANTS TypeOK PauseAnswered NoFrozenCpu
PROPERTY Quiesced
