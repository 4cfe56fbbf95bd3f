SPECIFICATION Spec
CONSTANTS
  MaxUrbs = 3
  UrbLength = 2
  Types = {"BULK", "INTERRUPT", "ISO", "CONTROL"}
  Failures = {"EPIPE", "EPROTO", "EOVERFLOW"}
  UnplugInCancel = FALSE
  EarlyStalls = FALSE
  Continuations = {TRUE, FALSE}
INVARIANT NoUrbLeft
INVARIANT NotStuck
INVARIANT CancelTruth
INVARIANT NoHoles
INVARIANT StatusHonest
PROPERTY ImplementsTransfer
PROPERTY CancelledReturns
