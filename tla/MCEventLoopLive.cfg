SPECIFICATION Spec
CONSTANTS
  Threads = {t1, t2}
  Handles = {h1}
  None = None
  Removable = {h1}
  Interrupters = {}
  CallbackCloses = FALSE
  HotplugCloses = TRUE
INVARIANTS
  SleeperMissesNothing
  PollsOpenFds
PROPERTIES
  FinishedTransfersReturn
  ClosesReturn
