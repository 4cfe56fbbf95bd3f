SPECIFICATION Safety
CONSTANTS
  MaxUrbs = 3
  UrbLength = 2
  Types = {"BULK"}
  Failures = {"EPIPE"}
  UnplugInCancel = FALSE
  EarlyStalls = TRUE
  Continuations = {FALSE}
INVARIANT NoUrbLeft
