SPECIFICATION Safety
CONSTANTS
  Threads = {t1, t2, t3}
  Handles = {h1}
  None = None
  Removable = {}
  Interrupters = {t1, t2, t3}
  CallbackCloses = FALSE
  HotplugCloses = TRUE
INVARIANTS
  PipeMatchesPending
  PipeReadReturns
  ClosesAlone
  WaiterHasWaker
SYMMETRY ThreadSymmetry
