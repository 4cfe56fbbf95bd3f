SPECIFICATION Spec
CONSTANTS
  Temps  <- MCTemps
  Values <- MCValues
  Found  <- MCFound
INVARIANT
  GreenSolidWhenNormal
CHECK_DEADLOCK FALSE
