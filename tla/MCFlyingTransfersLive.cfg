SPECIFICATION Spec
CONSTANTS
  tr1 = tr1  tr2 = tr2  d1 = d1  d2 = d2  None = None
  Transfers = {tr1, tr2}
  Handles = {d1}
  dev_handle <- OneDevice
  Timeouts <- OneTick
  Removable = {}
  Waiting = FALSE
  MaxTime = 3
PROPERTY ExpiredReported
