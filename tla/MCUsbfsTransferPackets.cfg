SPECIFICATION Safety
CONSTANTS
  MaxUrbs = 3
  UrbLength = 2
  Types = {"ISO"}
  Failures = {}
  UnplugInCancel = FALSE
  EarlyStalls = FALSE
  Continuations = {FALSE}
INVARIANT PacketsInPlace
