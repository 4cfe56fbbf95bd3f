SPECIFICATION Spec
CONSTANTS
  Temps  <- MCTemps
  Values <- MCValues
  Found  <- MCFound
INVARIANTS
  TypeOK
  FilterSettles
  LedsShowStatus
CHECK_DEADLOCK FALSE
