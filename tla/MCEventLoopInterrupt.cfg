SPECIFICATION Safety
CONSTANTS
  Threads = {t1, t2}
  Handles = {h1}
  None = None
  Removable = {}
  Interrupters = {t1, t2}
  CallbackCloses = FALSE
  HotplugCloses = FALSE
INVARIANTS
  InterruptNotLost
SYMMETRY ThreadSymmetry
