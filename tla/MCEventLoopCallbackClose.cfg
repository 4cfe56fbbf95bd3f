SPECIFICATION Safety
CONSTANTS
  Threads = {t1, t2}
  Handles = {h1}
  None = None
  Removable = {}
  Interrupters = {t1, t2}
  CallbackCloses = TRUE
  HotplugCloses = FALSE
INVARIANTS
  CallbackMayClose
SYMMETRY ThreadSymmetry
