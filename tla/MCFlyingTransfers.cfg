SPECIFICATION Safety
CONSTANTS
  tr1 = tr1  tr2 = tr2  d1 = d1  d2 = d2  None = None
  Transfers = {tr1, tr2}
  Handles = {d1, d2}
  dev_handle <- TwoDevices
  Timeouts <- VariedTimeouts
  Removable = {d1}
  Waiting = TRUE
  MaxTime = 3
INVARIANT StatusTellsWho
INVARIANT NoneLeftBehind
INVARIANT ListExact
INVARIANT TimerArmed
PROPERTY ImplementsTransfers
